----------------------------- MODULE AccountsApi ------------------------------
(*****************************************************************************)
(* Package psd2/accounts: account lists, balances and transactions (AIS).    *)
(*****************************************************************************)
EXTENDS GeneratedClient

GetAccountListParams ==
  [uuid |-> {"X-Request-ID"}, string |-> {"Consent-ID"},
   pointer |-> Signed \cup Forwarded \cup {"withBalance"}]

NewGetAccountListRequest ==
  [method |-> "GET", path |-> <<"accounts">>, query |-> {"withBalance"},
   params |-> GetAccountListParams, body |-> "none"]

ParseGetAccountListResponse ==
  [NoCases EXCEPT !.struct = {200, 400, 404, 408, 500}]

GetAccountDetailsParams ==
  [uuid |-> {"X-Request-ID"}, string |-> {"Consent-ID"},
   pointer |-> Signed \cup Forwarded \cup {"withBalance"}]

NewGetAccountDetailsRequest ==
  [method |-> "GET", path |-> <<"accounts", ":accountId">>,
   query |-> {"withBalance"}, params |-> GetAccountDetailsParams,
   body |-> "none"]

ParseGetAccountDetailsResponse ==
  [NoCases EXCEPT !.struct = {200, 400, 404, 408, 500}]

GetBalancesParams ==
  [uuid |-> {"X-Request-ID"}, string |-> {"Consent-ID"},
   pointer |-> Signed \cup Forwarded]

NewGetBalancesRequest ==
  [method |-> "GET", path |-> <<"accounts", ":accountId", "balances">>,
   query |-> {}, params |-> GetBalancesParams, body |-> "none"]

ParseGetBalancesResponse ==
  [NoCases EXCEPT !.struct = {200, 400, 404, 408, 500}]

GetTransactionListParams ==
  [uuid |-> {"X-Request-ID"}, string |-> {"bookingStatus", "Consent-ID"},
   pointer |-> Signed \cup Forwarded \cup {"dateFrom", "dateTo",
      "entryReferenceFrom", "deltaList", "withBalance", "page"}]

NewGetTransactionListRequest ==
  [method |-> "GET", path |-> <<"accounts", ":accountId", "transactions">>,
   query |-> {"bookingStatus", "dateFrom", "dateTo", "entryReferenceFrom",
      "deltaList", "withBalance", "page"},
   params |-> GetTransactionListParams, body |-> "none"]

ParseGetTransactionListResponse ==
  [NoCases EXCEPT !.struct = {200, 400, 404, 408, 500}]

\* The operations of the client, by name.
Operations ==
  [GetAccountList |->
     [request |-> NewGetAccountListRequest,
      parse |-> ParseGetAccountListResponse],
   GetAccountDetails |->
     [request |-> NewGetAccountDetailsRequest,
      parse |-> ParseGetAccountDetailsResponse],
   GetBalances |->
     [request |-> NewGetBalancesRequest,
      parse |-> ParseGetBalancesResponse],
   GetTransactionList |->
     [request |-> NewGetTransactionListRequest,
      parse |-> ParseGetTransactionListResponse]]
===============================================================================
