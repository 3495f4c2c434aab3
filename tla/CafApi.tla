-------------------------------- MODULE CafApi --------------------------------
(*****************************************************************************)
(* Package psd2/caf: confirmation of funds (CISP).                           *)
(*****************************************************************************)
EXTENDS GeneratedClient

PostConfirmationOfFundsParams ==
  [uuid |-> {}, string |-> {"X-Request-ID", "Consent-ID"}, pointer |-> Signed]

NewPostConfirmationOfFundsRequest ==
  [method |-> "POST", path |-> <<"funds-confirmations">>, query |-> {},
   params |-> PostConfirmationOfFundsParams, body |-> "json"]

ParsePostConfirmationOfFundsResponse ==
  [NoCases EXCEPT !.struct = {200, 400, 401}]

\* The operations of the client, by name.
Operations ==
  [PostConfirmationOfFunds |->
     [request |-> NewPostConfirmationOfFundsRequest,
      parse |-> ParsePostConfirmationOfFundsResponse]]
===============================================================================
