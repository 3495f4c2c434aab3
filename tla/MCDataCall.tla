----------------------------- MODULE MCDataCall -----------------------------
(* Instances of DataCall, with the operations of Services, for TLC. *)
EXTENDS DataCall, Services, TLC

\* Every operation of every generated client.
WholeCatalog == ByID(AllOperations)

\* An operation of a helper, and one that has Authorization among its
\* parameters.
TwoOperations ==
  ByID({o \in AllOperations :
          o.id \in {<<"Accounts", "GetAccountList">>,
                    <<"Consent", "DeleteConsent">>}})

\* Calls are interchangeable in every definition of DataCall.
DSymmetry == Permutations(Calls)

Reply(status, type, body) == [status |-> status, type |-> type, body |-> body]

\* A reply of each outcome: good, empty, misfit, created, refused by bank and
\* gateway, broken off.
ManyReplies ==
  {Reply(200, "json", b) : b \in BodyShapes}
    \cup {Reply(201, "json", "full"), Reply(204, "other", "text"),
          Reply(200, "other", "text"), Reply(400, "json", "full"),
          Reply(401, "json", "bare"), Reply(404, "json", "list"),
          Reply(429, "xml", "xml"), Reply(500, "json", "loose"),
          Reply(504, "other", "text")}

\* Success, a body without the expected fields, a refusal that looks like it.
FewReplies ==
  {Reply(200, "json", "full"), Reply(200, "json", "bare"),
   Reply(401, "json", "bare")}
=============================================================================
