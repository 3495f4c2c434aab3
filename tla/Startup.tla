------------------------------- MODULE Startup -------------------------------
(***************************************************************************)
(* How the two connector commands come up: main reads its environment,     *)
(* NewSandboxFromEnv loads the .env file line by line and validates the    *)
(* Config, loads the client certificate, and main serves; each failure is  *)
(* fatal.  The files are whatever the operator wrote; a line is read when  *)
(* the scanner reaches it.                                                 *)
(***************************************************************************)
EXTENDS Naturals, Sequences, FiniteSetsExt

CONSTANTS
  Keys,       \* names a line may assign to
  Texts,      \* non-empty values
  Blank,      \* the empty string, also the value of an absent key
  MaxLines    \* bound on the length of the file

Commands == {"rbhu-connector", "rbhu-connector-http"}

\* Files are named by where they are.
Paths == {"secrets", "working directory", "elsewhere"}

\* A line, by what TrimSpace, HasPrefix and Cut make of it; a value is what is
\* left without white space and quotes.  "too long" is a line that exceeds the
\* scanner's buffer.
Line ==
  [kind : {"blank", "comment", "no equals", "too long"}]
    \cup [kind : {"pair"}, key : Keys, value : Texts \cup {Blank}]

Fields == {"client_id", "client_secret", "redirect_url", "eidas"}

ASSUME StartupAssumption ==
  /\ Fields \subseteq Keys
  /\ Blank \notin Texts
  /\ MaxLines \in Nat

VARIABLES
  main,      \* the command, its environment and the files it finds
  phase,     \* how far the process is
  opened,    \* the .env file that was opened, and the bundle
  lines,     \* the lines read so far (history)
  out,       \* the map LoadDotEnv fills
  cfg        \* the Config

svars == <<main, phase, opened, lines, out, cfg>>

\* An environment variable that names a path may be unset or empty.
Main ==
  [command : Commands, bearer : BOOLEAN,
   envFile : Paths \cup {Blank}, p12File : Paths \cup {Blank},
   envAt : Paths, p12At : Paths, p12 : {"good", "undecodable"}]

NoFile == Blank
NoConfig == [f \in Fields |-> Blank]

Init ==
  /\ main \in Main
  /\ phase = "start"
  /\ opened = [env |-> NoFile, p12 |-> NoFile]
  /\ lines = <<>>
  /\ out = [k \in Keys |-> Blank]
  /\ cfg = NoConfig

Proceed(from, to) == phase = from /\ phase' = to

\* log.Fatal.
Fatal(from) ==
  /\ Proceed(from, "fatal")
  /\ UNCHANGED <<main, opened, lines, out, cfg>>

\* The remote command refuses to start without RBHU_CONNECTOR_TOKEN.
CheckBearer ==
  \/ /\ main.command = "rbhu-connector-http" => main.bearer
     /\ Proceed("start", "files")
     /\ UNCHANGED <<main, opened, lines, out, cfg>>
  \/ /\ main.command = "rbhu-connector-http" /\ ~main.bearer
     /\ Fatal("start")

\* The path NewSandboxFromEnv uses for one that is given.
PathOr(given) == IF given = Blank THEN "secrets" ELSE given

OpenEnv ==
  IF PathOr(main.envFile) = main.envAt
  THEN /\ Proceed("files", "reading")
       /\ opened' = [opened EXCEPT !.env = main.envAt]
       /\ UNCHANGED <<main, lines, out, cfg>>
  ELSE Fatal("files")

\* Mutant: the first assignment of a key wins.
Assign_FirstWins(m, line) ==
  IF m[line.key] = Blank THEN [m EXCEPT ![line.key] = line.value] ELSE m

\* out[k] = v.
Assign(m, line) == [m EXCEPT ![line.key] = line.value]

ReadLine(line) ==
  /\ phase = "reading"
  /\ Len(lines) < MaxLines
  /\ lines' = Append(lines, line)
  /\ IF line.kind = "too long"
     THEN phase' = "fatal" /\ UNCHANGED out
     ELSE /\ UNCHANGED phase
          /\ out' = IF line.kind = "pair" THEN Assign(out, line) ELSE out
  /\ UNCHANGED <<main, opened, cfg>>

EndOfFile ==
  /\ Proceed("reading", "configured")
  /\ cfg' = [f \in Fields |-> out[f]]
  /\ UNCHANGED <<main, opened, lines, out>>

Valid == cfg["client_id"] # Blank /\ cfg["client_secret"] # Blank

Validate ==
  \/ /\ Valid
     /\ Proceed("configured", "validated")
     /\ UNCHANGED <<main, opened, lines, out, cfg>>
  \/ ~Valid /\ Fatal("configured")

\* Mutant: an error of LoadCertificate is not returned.
LoadCertificate_IgnoresError ==
  /\ Proceed("validated", "serving")
  /\ opened' = [opened EXCEPT !.p12 = PathOr(main.p12File)]
  /\ UNCHANGED <<main, lines, out, cfg>>

\* With the certificate there, New builds the client and main serves.
LoadCertificate ==
  IF PathOr(main.p12File) = main.p12At /\ main.p12 = "good"
  THEN /\ Proceed("validated", "serving")
       /\ opened' = [opened EXCEPT !.p12 = main.p12At]
       /\ UNCHANGED <<main, lines, out, cfg>>
  ELSE Fatal("validated")

\* ListenAndServe or Run returns an error: the address is in use, for one.
ServeFails == Fatal("serving")

Step ==
  \/ CheckBearer \/ OpenEnv \/ EndOfFile \/ Validate \/ LoadCertificate
  \/ \E line \in Line : ReadLine(line)

Next == Step \/ ServeFails

Spec == Init /\ [][Next]_svars

-----------------------------------------------------------------------------
\* What the comment of LoadDotEnv promises, without a map: the value of a key
\* is that of the last pair that names it.
Naming(k) ==
  {i \in 1 .. Len(lines) : lines[i].kind = "pair" /\ lines[i].key = k}

Meant(k) == IF Naming(k) = {} THEN Blank ELSE lines[Max(Naming(k))].value

\* The Config holds what the .env file means, whatever comments, blank lines,
\* misspelt lines and earlier assignments it has.
ConfigAsWritten ==
  phase \in {"configured", "validated", "serving"} =>
    \A f \in Fields : cfg[f] = Meant(f)

\* A connector that serves has what its calls need: id and secret as they are
\* in the file, a certificate that was decoded, and, if it is remote, a bearer
\* token to ask its callers for.  No default or failed step leads around it.
ServesConfigured ==
  phase = "serving" =>
    /\ Meant("client_id") # Blank /\ Meant("client_secret") # Blank
    /\ main.p12 = "good" /\ opened.p12 = main.p12At
    /\ main.command = "rbhu-connector-http" => main.bearer
===============================================================================
