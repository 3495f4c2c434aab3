------------------------------ MODULE OAuth2Api -------------------------------
(*****************************************************************************)
(* Package psd2/oauth2: the token endpoint for account information.          *)
(*****************************************************************************)
EXTENDS GeneratedClient

NewAispOauth2TokenRequest ==
  [method |-> "POST", path |-> <<"aisp", "oauth2", "token">>, query |-> {},
   params |-> NoParams, body |-> "form"]

ParseAispOauth2TokenResponse ==
  [NoCases EXCEPT !.struct = {200}]

\* The operations of the client, by name.
Operations ==
  [AispOauth2Token |->
     [request |-> NewAispOauth2TokenRequest,
      parse |-> ParseAispOauth2TokenResponse]]
===============================================================================
