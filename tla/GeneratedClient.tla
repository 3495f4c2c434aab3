--------------------------- MODULE GeneratedClient ---------------------------
(***************************************************************************)
(* What the packages under psd2/ have in common.  oapi-codegen writes the  *)
(* same code for every operation: a Params struct, a request builder, and  *)
(* a parser of the response.  A package's module gives, per operation,     *)
(*                                                                         *)
(*   XParams          the fields of the struct: required UUIDs, required   *)
(*                    strings, and pointers, which a caller may leave nil; *)
(*   NewXRequest      method, path (with ":" before an argument of the     *)
(*                    operation), which fields go into the query (the      *)
(*                    others are headers), and the kind of body;           *)
(*   ParseXResponse   the statuses that have a case of their own, by the   *)
(*                    type of what the body is decoded into.               *)
(*                                                                         *)
(* The operators below say what such a builder and such a parser do.       *)
(***************************************************************************)
EXTENDS Naturals, Sequences

-----------------------------------------------------------------------------
(* Header parameters that come in groups. *)

Signed == {"Digest", "Signature", "TPP-Signature-Certificate"}

Forwarded ==
  {"PSU-IP-Address", "PSU-IP-Port", "PSU-Accept", "PSU-Accept-Charset",
   "PSU-Accept-Encoding", "PSU-Accept-Language", "PSU-User-Agent",
   "PSU-Http-Method", "PSU-Device-ID", "PSU-Geo-Location"}

Payer == {"PSU-ID", "PSU-ID-Type", "PSU-Corporate-ID", "PSU-Corporate-ID-Type"}

Redirect ==
  {"TPP-Redirect-Preferred", "TPP-Redirect-URI", "TPP-Nok-Redirect-URI"}

\* Every header some part of the program sets.
HeaderNames ==
  Signed \cup Forwarded \cup Payer \cup Redirect \cup
  {"X-Request-ID", "Consent-ID", "client_id", "Authorization", "Date",
   "Accept", "User-Agent", "Content-Type", "TPP-Notification-URI",
   "TPP-Explicit-Authorisation-Preferred", "TPP-Rejection-NoFunds-Preferred",
   "TPP-Notification-Content-Preferred"}

-----------------------------------------------------------------------------
(* Requests. *)

NoParams == [uuid |-> {}, string |-> {}, pointer |-> {}]

Fields(params) == params.uuid \cup params.string \cup params.pointer

\* The value of a header: what it is and whose it is.
Value(kind, of) == [kind |-> kind, of |-> of]

\* http.Header.Get does not tell a header that is absent from one set to "".
Blank == Value("blank", "nobody")

\* The zero value of a UUID: "00000000-0000-0000-0000-000000000000".
NilUUID == Value("nil uuid", "nobody")

Literal == Value("literal", "nobody")

(***************************************************************************)
(* The headers a builder sets for a caller who filled the fields in        *)
(* DOMAIN given.  A pointer left nil sets nothing; a required field left   *)
(* out sets its zero value; a nil Params pointer (isNil) sets no header.   *)
(***************************************************************************)
BuildHeaders(request, given, isNil) ==
  LET fields == IF isNil THEN {} ELSE Fields(request.params) \ request.query
  IN  [n \in HeaderNames |->
         IF n = "Content-Type" /\ request.body # "none" THEN Literal
         ELSE IF n \in fields \cap DOMAIN given THEN given[n]
         ELSE IF n \in fields \cap request.params.uuid THEN NilUUID
         ELSE Blank]

-----------------------------------------------------------------------------
(* Responses. *)

(***************************************************************************)
(* The body of a response, by what encoding/json makes of it: an object as *)
(* specified, an object with none of the specified fields ({}), an object  *)
(* with a field of another type, an array of strings, null, an XML         *)
(* document, any other text, or a connection that breaks while it is read. *)
(***************************************************************************)
BodyShapes == {"full", "bare", "loose", "list", "null", "xml", "text", "cut"}

ContentTypes == {"json", "xml", "other"}

Response == [status : 100 .. 599, type : ContentTypes, body : BodyShapes]

\* A parser without any case.
NoCases == [struct |-> {}, map |-> {}, any |-> {}, list |-> {}, xml |-> {},
            default |-> FALSE]

\* The type of the destination the switch of a parser picks.
Destination(parse, rsp) ==
  IF rsp.type = "json"
  THEN IF rsp.status \in parse.struct THEN "struct"
       ELSE IF rsp.status \in parse.map THEN "map"
       ELSE IF rsp.status \in parse.any THEN "any"
       ELSE IF rsp.status \in parse.list THEN "list"
       ELSE IF parse.default THEN "default" ELSE "none"
  ELSE IF rsp.type = "xml" /\ rsp.status \in parse.xml THEN "xml" ELSE "none"

\* The bodies that Unmarshal accepts for a destination.
Accepted(destination) ==
  CASE destination = "struct" -> {"full", "bare", "null"}
    [] destination \in {"map", "default"} -> {"full", "bare", "loose", "null"}
    [] destination = "any" -> {"full", "bare", "loose", "list", "null"}
    [] destination = "list" -> {"list", "null"}
    [] destination = "xml" -> {"xml"}
    [] OTHER -> BodyShapes

\* Does the parser return a response, or the error of ReadAll or Unmarshal?
Parses(parse, rsp) ==
  rsp.body # "cut" /\ rsp.body \in Accepted(Destination(parse, rsp))
=============================================================================
