-------------------------- MODULE RequestPipeline --------------------------
(***************************************************************************)
(* From an error to the response: internal/errors, the error handling of   *)
(* internal/middleware and the handlers of accounts, transactions, reports *)
(* and test data.  A response is the status line sent and the JSON bodies  *)
(* written after it; a body is "ok" or the error code it carries.          *)
(*                                                                         *)
(* A handler is a function from the error it meets to what it writes; the  *)
(* errors a handler does not know go through its last line.                *)
(***************************************************************************)
EXTENDS RateLimiter, ErrorCodes, Sequences

\* f where it is defined, g elsewhere.
f ++ g == [x \in DOMAIN f \union DOMAIN g |-> IF x \in DOMAIN f THEN f[x] ELSE g[x]]

\* One c.JSON call.
JSON(status, code) == <<[status |-> status, code |-> code]>>

\* echo sends the first status of a response and appends every body.
Response(writes) ==
  [status |-> writes[1].status, bodies |-> [i \in DOMAIN writes |-> writes[i].code]]
Unanswered == [status |-> 0, bodies |-> <<>>]

Succeed == JSON(200, "ok")
SendError(code) == JSON(GetHTTPStatus(code), code)
WrapSystemError == "SystemInternalError"
SendSystemError == JSON(500, WrapSystemError)

MapHTTPStatusToErrorCode(status) ==
  CASE status \in {400, 405, 422} -> "ValidationGeneral"
    [] status = 401 -> "AuthMissingToken"
    [] status = 403 -> "AuthInsufficientPermission"
    [] status = 404 -> "CustomerNotFound"
    [] status = 429 -> "SystemRateLimitExceeded"
    [] status = 500 -> "SystemInternalError"
    [] status = 503 -> "SystemServiceUnavailable"
    [] OTHER -> "SystemUnexpectedError"

\* An error a handler returns without having answered: an echo.HTTPError, the
\* validator's errors, or any other.
CustomHTTPErrorHandler(kind, status) ==
  CASE kind = "http" -> JSON(status, MapHTTPStatusToErrorCode(status))
    [] kind = "validation" -> JSON(400, "ValidationGeneral")
    [] OTHER -> SendSystemError
HTTPError(status) == CustomHTTPErrorHandler("http", status)
PanicRecovery == JSON(500, "SystemInternalError")

-----------------------------------------------------------------------------
(* The errors AccountService returns to the handlers that move money.       *)

\* SendError returns nil once it has written, so the callers of MapCommonErr
\* never learn that it has answered: they go on and write a second body.
MapCommonErr(err) ==
  CASE err = "accountNotFound" -> SendError("AccountNotFound")
    [] err = "unauthorized" -> SendError("AuthInsufficientPermission")
    [] err = "accountNotActive" -> SendError("AccountInactive")
    [] OTHER -> <<>>
MapTransactionErr(err) ==
  MapCommonErr(err) \o
  CASE err = "insufficientFunds" -> SendError("TransactionInsufficientFunds")
    [] err = "invalidAmount" -> SendError("TransactionInvalidAmount")
    [] OTHER -> SendSystemError
MapTransferErr(err) ==
  MapCommonErr(err) \o
  CASE err = "insufficientFunds" -> SendError("TransferInsufficientFunds")
    [] err = "invalidAmount" -> SendError("TransferInvalidAmount")
    [] err = "sameAccount" -> SendError("TransferSameAccount")
    [] err = "transferPending" -> SendError("TransferPending")
    [] err = "transferFailed" -> SendError("TransferFailed")
    [] OTHER -> SendSystemError

-----------------------------------------------------------------------------
(* The handlers.  "nobody" is a caller without a user id, "panic" a panic   *)
(* below the handler; badId, badBody, invalid and so on are what the        *)
(* handler itself refuses.                                                  *)

Sends(codes) == [e \in DOMAIN codes |-> SendError(codes[e])]
Ok == [ok |-> Succeed, panic |-> PanicRecovery]
NoUser == [nobody |-> "AuthMissingToken"]
AccountErrors == [accountNotFound |-> "AccountNotFound",
                  unauthorized |-> "AuthInsufficientPermission"]

\* account_handler.go
GetUserAccounts == Ok ++ Sends(NoUser)
UpdateAccountStatus ==
  Ok ++ Sends(NoUser ++ AccountErrors
    ++ [badId |-> "ValidationInvalidFormat", badBody |-> "ValidationGeneral",
        invalid |-> "ValidationGeneral"])
CloseAccount ==
  Ok ++ Sends(NoUser ++ AccountErrors
    ++ [badId |-> "ValidationInvalidFormat",
        closureNotAllowed |-> "AccountOperationNotPermitted"])
\* the only handler here that returns the validator's errors to echo
PerformTransaction ==
  Ok ++ [invalid |-> CustomHTTPErrorHandler("validation", 0)]
  ++ Sends(NoUser
    ++ [badId |-> "AccountInvalidNumber", badBody |-> "ValidationGeneral",
        badAmount |-> "TransactionInvalidAmount"])
  ++ [e \in {"accountNotFound", "unauthorized", "accountNotActive",
             "insufficientFunds", "invalidAmount", "other"} |-> MapTransactionErr(e)]
Transfer ==
  Ok ++ Sends(NoUser
    ++ [badKey |-> "ValidationRequiredField", badId |-> "ValidationInvalidFormat",
        badBody |-> "ValidationGeneral", invalid |-> "ValidationGeneral",
        badAmount |-> "TransactionInvalidAmount"])
  ++ [e \in {"accountNotFound", "unauthorized", "accountNotActive",
             "insufficientFunds", "invalidAmount", "sameAccount",
             "transferPending", "transferFailed", "other"} |-> MapTransferErr(e)]
\* unreadable parameters of the two listings fall back to defaults
GetTransferHistory == Ok ++ Sends(NoUser)
GetAllAccounts == Ok
GetAccountByIDAdmin ==
  Ok ++ Sends([badId |-> "ValidationInvalidFormat",
                      accountNotFound |-> "AccountNotFound"])
GetUserAccountsAdmin == Ok ++ Sends([badId |-> "ValidationInvalidFormat"])

\* admin_handler.go, health_handler.go
ListUsers == Ok ++ Sends([badPage |-> "ValidationGeneral"])
GetUserByID ==
  Ok ++ Sends([badId |-> "CustomerInvalidID", userNotFound |-> "CustomerNotFound"])
HealthCheck == Ok ++ [down |-> JSON(503, "SystemServiceUnavailable")]

\* transaction_handler.go: the filters and the cursor are read after the
\* account has been authorized
ParseTransactionFilters == [badFilter |-> "ValidationGeneral"]
ParsePaginationParams == [badPage |-> "ValidationGeneral"]
DecodeCursor == [badCursor |-> "ValidationInvalidFormat"]
ListTransactionsHandler ==
  Ok ++ Sends(NoUser ++ AccountErrors ++ ParseTransactionFilters
    ++ ParsePaginationParams ++ DecodeCursor ++ [badId |-> "ValidationInvalidFormat"])
GetTransactionHandler ==
  Ok ++ Sends(NoUser ++ AccountErrors
    ++ [badId |-> "AccountInvalidNumber", badTransactionId |-> "ValidationGeneral",
        transactionNotFound |-> "TransactionNotFound",
        otherAccount |-> "AuthInsufficientPermission"])

\* account_summary_handler.go
HandleServiceError ==
  [unauthorized |-> "AuthInsufficientPermission", notFound |-> "AccountNotFound",
   invalidDateRange |-> "ValidationGeneral", futureDate |-> "ValidationGeneral",
   invalidPeriod |-> "ValidationGeneral", futurePeriod |-> "ValidationGeneral"]
GetAccountSummaryHandler ==
  Ok ++ Sends(NoUser ++ HandleServiceError ++ [badId |-> "ValidationGeneral"])
\* these two return a missing user id to echo, which knows no such error
GetAccountMetricsHandler ==
  Ok ++ [nobody |-> CustomHTTPErrorHandler("other", 0)]
  ++ Sends(HandleServiceError
    ++ [badId |-> "ValidationGeneral", badDate |-> "ValidationGeneral"])
GetStatementHandler ==
  Ok ++ [nobody |-> CustomHTTPErrorHandler("other", 0)]
  ++ Sends(HandleServiceError
    ++ [badId |-> "ValidationGeneral", badPeriod |-> "ValidationGeneral"])

\* customer_handler.go
GetCustomerActivityHandler == Ok ++ Sends([badId |-> "CustomerInvalidID"])
GetMyActivityHandler == Ok ++ Sends(NoUser)

\* dev_handler.go answers with echo.NewHTTPError only
GenerateTestDataHandler ==
  Ok ++ [nobody |-> HTTPError(401), badId |-> HTTPError(400),
         accountNotFound |-> HTTPError(404), unauthorized |-> HTTPError(403),
         other |-> HTTPError(500)]
ClearTestDataHandler == GenerateTestDataHandler

\* No route, or none for the method.
EchoRouter == [noRoute |-> HTTPError(404), wrongMethod |-> HTTPError(405)]

\* What a handler writes for err; its last line is SendSystemError.
Writes(handler, err) == IF err \in DOMAIN handler THEN handler[err] ELSE SendSystemError
=============================================================================
