---------------------------- MODULE StartupProofs ----------------------------
(***************************************************************************)
(* What a connector that comes up has read and checked, for .env files of  *)
(* any length.                                                             *)
(*                                                                         *)
(* The map that LoadDotEnv fills is at every line what the lines read so   *)
(* far mean; the Config is copied from it once; and each later phase adds  *)
(* what its check let through (StInv).                                     *)
(***************************************************************************)
EXTENDS Startup, TLAPS

Phases == {"start", "files", "reading", "configured", "validated",
           "serving", "fatal"}

\* The map holds, for every key, what the lines read so far mean.
MapAsMeant == \A k \in Keys : out[k] = Meant(k)

\* The pairs that name a key have a last one.
LastNaming ==
  \A k \in Keys : Naming(k) # {} =>
    \E i \in Naming(k) : \A j \in Naming(k) : j <= i

\* What has been checked when a phase is reached.
Checked ==
  /\ phase \notin {"start", "fatal"} =>
       (main.command = "rbhu-connector-http" => main.bearer)
  /\ phase \in {"configured", "validated", "serving"} =>
       \A f \in Fields : cfg[f] = out[f]
  /\ phase \in {"validated", "serving"} => Valid
  /\ phase = "serving" => main.p12 = "good" /\ opened.p12 = main.p12At

Files == [env : Paths \cup {NoFile}, p12 : Paths \cup {NoFile}]

StInv ==
  /\ main \in Main /\ opened \in Files
  /\ phase \in Phases
  /\ lines \in Seq(Line)
  /\ out \in [Keys -> Texts \cup {Blank}]
  /\ LastNaming
  /\ MapAsMeant
  /\ Checked

-----------------------------------------------------------------------------
\* The largest number of a set whose largest number is known.
LEMMA MaxIs ==
  ASSUME NEW S \in SUBSET Nat, NEW n \in S, \A i \in S : i <= n
  PROVE  Max(S) = n
<1>1. n \in S /\ \A i \in S : n >= i
  OBVIOUS
<1>2. Max(S) \in S /\ \A i \in S : Max(S) >= i
  BY <1>1, Zenon DEF Max
<1>3. Max(S) \in Nat /\ n \in Nat /\ n >= Max(S) /\ Max(S) >= n
  BY <1>1, <1>2
<1> QED
  BY <1>3

\* A pair of a key says what the key means, whatever came before it; a line
\* that is not one does not change it.
LEMMA MeantAppend ==
  ASSUME lines \in Seq(Line), LastNaming, NEW line \in Line,
         lines' = Append(lines, line)
  PROVE  /\ LastNaming'
         /\ \A k \in Keys :
              Meant(k)' = IF line.kind = "pair" /\ line.key = k
                          THEN line.value ELSE Meant(k)
<1> DEFINE n == Len(lines)
           pairOf(k) == line.kind = "pair" /\ line.key = k
<1>1. /\ n \in Nat /\ Len(lines') = n + 1
      /\ lines'[n + 1] = line
      /\ \A i \in 1 .. n : lines'[i] = lines[i]
  OBVIOUS
<1>2. ASSUME NEW k \in Keys
      PROVE  /\ Naming(k) \in SUBSET (1 .. n)
             /\ Naming(k)' = IF pairOf(k) THEN Naming(k) \cup {n + 1}
                             ELSE Naming(k)
  BY <1>1 DEF Naming
<1>3. ASSUME NEW k \in Keys, pairOf(k)
      PROVE  /\ n + 1 \in Naming(k)' /\ \A j \in Naming(k)' : j <= n + 1
             /\ Meant(k)' = line.value
  <2>1. /\ Naming(k)' \in SUBSET Nat /\ n + 1 \in Naming(k)'
        /\ \A j \in Naming(k)' : j <= n + 1
    BY <1>1, <1>2, <1>3
  <2>2. Max(Naming(k)') = n + 1
    BY <2>1, MaxIs
  <2>3. QED
    BY <1>1, <2>1, <2>2 DEF Meant
<1>4. ASSUME NEW k \in Keys, ~pairOf(k)
      PROVE  Naming(k)' = Naming(k) /\ Meant(k)' = Meant(k)
  <2>1. Naming(k)' = Naming(k)
    BY <1>2, <1>4
  <2>2. ASSUME NEW i \in Naming(k), \A j \in Naming(k) : j <= i
        PROVE  Max(Naming(k)) \in 1 .. n
    BY <1>1, <1>2, <2>2, MaxIs
  <2>3. Naming(k) # {} => Max(Naming(k)) \in 1 .. n
    BY <2>2 DEF LastNaming
  <2>4. QED
    BY <1>1, <2>1, <2>3 DEF Meant
<1>5. LastNaming'
  BY <1>3, <1>4 DEF LastNaming
<1> QED
  BY <1>3, <1>4, <1>5

-----------------------------------------------------------------------------
\* The invariant holds when the process starts.
LEMMA InitStInv == Init => StInv
<1> SUFFICES ASSUME Init PROVE StInv
  OBVIOUS
<1>1. \A k \in Keys : Naming(k) = {}
  BY DEF Init, Naming
<1>2. LastNaming /\ MapAsMeant
  BY <1>1 DEF LastNaming, MapAsMeant, Meant, Init
<1> QED
  BY <1>2 DEF Init, StInv, Checked, Phases, Files, NoFile

\* What the lines mean stays as it is while no line is read.
LEMMA LinesKept ==
  ASSUME StInv, UNCHANGED <<lines, out>>
  PROVE  /\ lines' \in Seq(Line) /\ out' \in [Keys -> Texts \cup {Blank}]
         /\ LastNaming' /\ MapAsMeant'
BY DEF StInv, LastNaming, MapAsMeant, Meant, Naming

\* Reading a line keeps the map what the lines mean.
LEMMA ReadLineInv ==
  ASSUME StInv, NEW line \in Line, ReadLine(line)
  PROVE  StInv'
<1>1. /\ phase = "reading" /\ phase' \in {"reading", "fatal"}
      /\ lines' = Append(lines, line)
      /\ UNCHANGED <<main, opened, cfg>>
  BY DEF ReadLine
<1>2. lines \in Seq(Line) /\ lines' \in Seq(Line)
  BY <1>1 DEF StInv
<1>3. CASE line.kind = "pair"
  <2>1. line.key \in Keys /\ line.value \in Texts \cup {Blank}
    BY <1>3 DEF Line
  <2>2. out' = [out EXCEPT ![line.key] = line.value]
    BY <1>3 DEF ReadLine, Assign
  <2>3. out' \in [Keys -> Texts \cup {Blank}]
    BY <2>1, <2>2 DEF StInv
  <2>4. LastNaming' /\ MapAsMeant'
    BY <1>1, <1>2, <1>3, <2>1, <2>2, MeantAppend DEF StInv, MapAsMeant
  <2>5. QED
    BY <1>1, <1>2, <2>3, <2>4 DEF StInv, Checked, Phases
<1>4. CASE line.kind # "pair"
  <2>1. out' = out
    BY <1>4 DEF ReadLine
  <2>2. LastNaming' /\ MapAsMeant'
    BY <1>1, <1>2, <1>4, <2>1, MeantAppend DEF StInv, MapAsMeant
  <2>3. QED
    BY <1>1, <1>2, <2>1, <2>2 DEF StInv, Checked, Phases
<1> QED
  BY <1>3, <1>4

\* No step breaks the invariant.
LEMMA NextStInv ==
  ASSUME StInv, [Next]_svars
  PROVE  StInv'
<1>1. ASSUME UNCHANGED <<main, lines, out>>, opened' \in Files,
             phase' \in Phases, Checked'
      PROVE  StInv'
  BY <1>1, LinesKept DEF StInv
<1>2. CASE UNCHANGED svars
  BY <1>1, <1>2 DEF svars, StInv, Checked, Valid
<1>3. ASSUME NEW from \in Phases, Fatal(from)
      PROVE  StInv'
  BY <1>1, <1>3 DEF Fatal, Proceed, Phases, StInv, Checked
<1>4. CASE CheckBearer
  BY <1>1, <1>3, <1>4
  DEF CheckBearer, Proceed, Phases, StInv, Checked
<1>5. CASE OpenEnv
  BY <1>1, <1>3, <1>5
  DEF OpenEnv, Proceed, Phases, StInv, Checked, Files, Main
<1>6. CASE EndOfFile
  <2>1. \A f \in Fields : cfg'[f] = out'[f]
    BY <1>6 DEF EndOfFile
  <2>2. QED
    BY <1>1, <1>6, <2>1 DEF EndOfFile, Proceed, Phases, StInv, Checked
<1>7. CASE Validate
  BY <1>1, <1>3, <1>7
  DEF Validate, Valid, Proceed, Phases, StInv, Checked
<1>8. CASE LoadCertificate
  <2>1. ASSUME ~Fatal("validated")
        PROVE  /\ phase = "validated" /\ phase' = "serving"
               /\ main.p12 = "good"
               /\ opened' = [opened EXCEPT !.p12 = main.p12At]
               /\ UNCHANGED <<main, lines, out, cfg>>
    BY <1>8, <2>1 DEF LoadCertificate, Proceed
  <2>2. ASSUME ~Fatal("validated")
        PROVE  StInv'
    <3>1. opened' \in Files /\ opened'.p12 = main.p12At
      BY <2>1, <2>2 DEF StInv, Files, Main
    <3>2. QED
      BY <1>1, <2>1, <2>2, <3>1 DEF Phases, StInv, Checked, Valid
  <2>3. QED
    BY <1>3, <2>2 DEF Phases
<1>9. CASE ServeFails
  BY <1>3, <1>9 DEF ServeFails, Phases
<1> QED
  BY <1>2, <1>4, <1>5, <1>6, <1>7, <1>8, <1>9, ReadLineInv DEF Next, Step

\* What is checked at each phase stays true to the end of start-up.
THEOREM StInvariance == Spec => []StInv
<1> QED
  BY InitStInv, NextStInv, PTL DEF Spec

\* NewSandboxFromEnv: the Config is what the .env file means, for a file of
\* any length (ConfigAsWritten).
THEOREM ConfigFollowsFile == Spec => []ConfigAsWritten
<1>1. StInv => ConfigAsWritten
  BY StartupAssumption DEF StInv, MapAsMeant, Checked, ConfigAsWritten
<1> QED
  BY <1>1, StInvariance, PTL

\* Both commands: a connector that serves has an id, a secret and a decoded
\* certificate, and a bearer token if it is remote (ServesConfigured).
THEOREM ServesOnlyConfigured == Spec => []ServesConfigured
<1>1. ASSUME StInv, phase = "serving"
      PROVE  /\ Meant("client_id") # Blank /\ Meant("client_secret") # Blank
             /\ main.p12 = "good" /\ opened.p12 = main.p12At
             /\ main.command = "rbhu-connector-http" => main.bearer
  <2>1. {"client_id", "client_secret"} \subseteq Keys \cap Fields
    BY StartupAssumption DEF Fields
  <2>2. QED
    BY <1>1, <2>1 DEF StInv, MapAsMeant, Checked, Valid
<1>2. StInv => ServesConfigured
  BY <1>1 DEF ServesConfigured
<1> QED
  BY <1>2, StInvariance, PTL
=============================================================================
