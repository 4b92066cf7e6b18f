----------------------------- MODULE ErrorCodes -----------------------------
(***************************************************************************)
(* The error codes of internal/errors and the HTTP status each is sent     *)
(* with.  A reply in the other modules is "ok" or one of these codes.      *)
(***************************************************************************)
LOCAL INSTANCE Naturals

BadRequest ==
  {"ValidationGeneral", "ValidationRequiredField", "ValidationInvalidFormat",
   "ValidationOutOfRange", "ValidationInvalidEmail", "ValidationInvalidPhone",
   "ValidationInvalidDate", "CustomerInvalidID", "TransactionInvalidAmount",
   "TransferSameAccount", "TransferInvalidAmount"}
Unauthorized ==
  {"AuthInvalidCredentials", "AuthMissingToken", "AuthExpiredToken",
   "AuthInvalidTokenFormat"}
Forbidden == {"AuthInsufficientPermission", "AuthAccountLocked"}
NotFound ==
  {"CustomerNotFound", "AccountNotFound", "TransactionNotFound", "TransferNotFound"}
Conflict == {"TransferPending", "TransferFailed"}
Unprocessable ==
  {"CustomerAlreadyExists", "CustomerInactive", "AccountInactive",
   "AccountInsufficientBalance", "AccountOperationNotPermitted",
   "TransactionInsufficientFunds", "TransactionDuplicate",
   "TransactionValidationFailed", "TransactionInvalidType",
   "AccountInvalidNumber", "CustomerNoResults", "TransferInsufficientFunds"}
ServerErrors ==
  {"SystemInternalError", "SystemDatabaseError", "SystemConfigurationError",
   "SystemUnexpectedError"}
Northwind == {"NorthWindAccountNotFound", "NorthWindAccountError"}

\* errorMessages: the registered codes
Codes == BadRequest \union Unauthorized \union Forbidden \union NotFound
         \union Conflict \union Unprocessable \union ServerErrors
         \union Northwind
         \union {"SystemRateLimitExceeded", "SystemServiceUnavailable"}

\* GetHTTPStatus: the codes of no group (NORTHWIND_*) default to 500
GetHTTPStatus(code) ==
  CASE code \in BadRequest -> 400
    [] code \in Unauthorized -> 401
    [] code \in Forbidden -> 403
    [] code \in NotFound -> 404
    [] code \in Conflict -> 409
    [] code \in Unprocessable -> 422
    [] code = "SystemRateLimitExceeded" -> 429
    [] code = "SystemServiceUnavailable" -> 503
    [] OTHER -> 500
=============================================================================
