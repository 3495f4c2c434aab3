---------------------------- MODULE OAuthBridgeApi ----------------------------
(*****************************************************************************)
(* Package psd2/oauthbridge: the OAuth bridge, which a browser visits.       *)
(*****************************************************************************)
EXTENDS GeneratedClient

AuthenticationParams ==
  [uuid |-> {},
   string |-> {"response_type", "scope", "redirect_uri", "client_id",
      "consentId"},
   pointer |-> {"state"}]

NewAuthenticationRequest ==
  [method |-> "GET", path |-> <<"bridge", "authorize">>,
   query |-> {"response_type", "scope", "redirect_uri", "state",
      "client_id", "consentId"},
   params |-> AuthenticationParams, body |-> "none"]

ParseAuthenticationResponse ==
  [NoCases EXCEPT !.struct = {400, 404, 500}]

RedirectParams ==
  [uuid |-> {},
   string |-> {"scope", "client_id", "rstate", "username", "confirmation"},
   pointer |-> {"error", "error_description"}]

NewRedirectRequest ==
  [method |-> "GET", path |-> <<"bridge", "bridge_redirect">>,
   query |-> {"scope", "client_id", "rstate", "username", "confirmation",
      "error", "error_description"},
   params |-> RedirectParams, body |-> "none"]

ParseRedirectResponse ==
  [NoCases EXCEPT !.struct = {400, 404, 500}]

\* The operations of the client, by name.
Operations ==
  [Authentication |->
     [request |-> NewAuthenticationRequest,
      parse |-> ParseAuthenticationResponse],
   Redirect |->
     [request |-> NewRedirectRequest,
      parse |-> ParseRedirectResponse]]
===============================================================================
