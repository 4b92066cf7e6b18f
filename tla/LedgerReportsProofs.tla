------------------------ MODULE LedgerReportsProofs ------------------------
(***************************************************************************)
(* Every answer of LedgerReports is true, for any users, accounts, ledger, *)
(* calls and instants, and no address gets more calls than its rate.       *)
(*                                                                         *)
(* The proof follows one request.  What its next statement will rely on is *)
(* said where it was established: who was found to be authorized, that the *)
(* period was over, which rows were read and what was missing then.  The   *)
(* statements of other requests only add rows that are committed now and   *)
(* complete pending ones (Evolves), and that leaves all of it true         *)
(* (Undisturbed): a row missed or counted twice was committed after the    *)
(* period had ended.                                                       *)
(***************************************************************************)
EXTENDS LedgerReportsProperties, FiniteSums, SequenceTheorems

-----------------------------------------------------------------------------
(* The rate limiter *)

(* A bucket holds at most what the rate still allows, and an entry that has *)
(* not been seen for i ticks has leaked i * Rate: one that may be forgotten *)
(* is empty, so that its successor's full bucket grants nothing too early.  *)
Drained ==
  \A ip \in Addresses :
    /\ level[ip] + Rate * idle[ip] <= Burst \/ level[ip] = 0
    /\ level[ip] <= Burst
    /\ ip \in visitors => tokens[ip] + level[ip] <= Burst
    /\ ip \notin visitors => level[ip] = 0

LimiterInv == LimiterTypeOK /\ Drained

LEMMA Idle ==
  ASSUME NEW i \in Nat, i > IdleLimit
  PROVE  Rate * i >= Burst + Rate
<1>1. /\ Rate \in Nat \ {0} /\ Burst \in Nat /\ IdleLimit \in Nat
      /\ Burst <= Rate * IdleLimit
  BY LimiterAssumption
<1>2. PICK d \in Nat : i = IdleLimit + 1 + d
  <2>1. i - IdleLimit - 1 \in Nat
    BY <1>1
  <2> QED  BY <2>1, <1>1
<1>3. Rate * i = Rate * IdleLimit + Rate + Rate * d
  BY <1>1, <1>2, Z3
<1>4. Rate * d \in Nat
  BY <1>1
<1>5. Rate * IdleLimit \in Nat
  BY <1>1
<1> QED  BY <1>1, <1>3, <1>4, <1>5

LEMMA LimiterStart == LimiterInit => LimiterInv
  BY LimiterAssumption DEF LimiterInit, LimiterInv, LimiterTypeOK, Drained

LEMMA LimiterKept == LimiterInv /\ [LimiterNext]_limiter => LimiterInv'
<1> SUFFICES ASSUME LimiterInv, [LimiterNext]_limiter
             PROVE  LimiterInv'
  OBVIOUS
<1> USE LimiterAssumption DEF LimiterInv, LimiterTypeOK, Drained
<1>1. ASSUME NEW ip \in Addresses, Allow(ip)
      PROVE  LimiterInv'
  <2>1. LimiterTypeOK'
    BY <1>1 DEF Allow, Available, GetVisitor, Seen
  <2>2. level[ip] + Available(ip) <= Burst
    BY DEF Available
  <2>3. level'[ip] + Rate * idle'[ip] <= Burst
    BY <1>1, <2>2 DEF Allow, Available, GetVisitor, Seen
  <2>4. Drained'
    BY <1>1, <2>2, <2>3 DEF Allow, Available, GetVisitor, Seen
  <2> QED  BY <2>1, <2>4
<1>2. ASSUME NEW ip \in Addresses, Deny(ip)
      PROVE  LimiterInv'
  BY <1>2 DEF Deny, Available, GetVisitor, Seen
<1>3. CASE Forget
  <2>1. ASSUME NEW ip \in Addresses, idle[ip] > IdleLimit
        PROVE  level[ip] = 0
    <3>1. idle[ip] \in Nat
      OBVIOUS
    <3>2. Rate * idle[ip] >= Burst + Rate
      BY <2>1, <3>1, Idle
    <3> QED  BY <3>2
  <2> QED  BY <1>3, <2>1 DEF Forget
<1>4. CASE PassTick
  <2>1. LimiterTypeOK'
    BY <1>4 DEF PassTick, AtMost, AtLeast
  <2>2. ASSUME NEW ip \in Addresses
        PROVE  level'[ip] + Rate * idle'[ip] <= Burst \/ level'[ip] = 0
    <3>1. idle'[ip] <= idle[ip] + 1 /\ idle'[ip] \in Nat /\ idle[ip] \in Nat
      BY <1>4 DEF PassTick, AtMost
    <3>2. Rate * (idle[ip] + 1) = Rate * idle[ip] + Rate
      BY <3>1, Z3
    <3>3. Rate * idle'[ip] <= Rate * idle[ip] + Rate
      <4>1. idle'[ip] = idle[ip] + 1 \/ idle'[ip] = IdleLimit + 1
        BY <1>4 DEF PassTick, AtMost
      <4>2. idle[ip] = IdleLimit + 1 \/ idle'[ip] = idle[ip] + 1
        BY <1>4 DEF PassTick, AtMost
      <4>3. CASE idle'[ip] = idle[ip] + 1
        BY <4>3, <3>2, <3>1
      <4>4. CASE idle[ip] = IdleLimit + 1 /\ idle'[ip] = IdleLimit + 1
        BY <4>4, <3>1
      <4> QED  BY <4>1, <4>2, <4>3, <4>4
    <3>4. level'[ip] = 0 \/ level'[ip] = level[ip] - Rate
      BY <1>4 DEF PassTick, AtLeast
    <3>5. CASE level'[ip] = 0
      BY <3>5
    <3>6. CASE level'[ip] = level[ip] - Rate /\ level[ip] # 0
      <4>1. level[ip] + Rate * idle[ip] <= Burst
        BY <3>6
      <4>2. Rate * idle[ip] \in Nat /\ Rate * idle'[ip] \in Nat
        BY <3>1
      <4> QED  BY <3>6, <3>3, <4>1, <4>2
    <3>7. level[ip] = 0 => level'[ip] = 0
      BY <1>4 DEF PassTick, AtLeast
    <3> QED  BY <3>4, <3>5, <3>6, <3>7
  <2>3. ASSUME NEW ip \in Addresses
        PROVE  /\ level'[ip] <= Burst
               /\ ip \in visitors' => tokens'[ip] + level'[ip] <= Burst
               /\ ip \notin visitors' => level'[ip] = 0
    BY <1>4 DEF PassTick, AtMost, AtLeast
  <2> QED  BY <2>1, <2>2, <2>3
<1>5. CASE UNCHANGED limiter
  BY <1>5 DEF limiter
<1> QED  BY <1>1, <1>2, <1>3, <1>4, <1>5 DEF LimiterNext

-----------------------------------------------------------------------------
(* What the handlers write *)

\* The code an error is answered with: an account is only said not to be
\* found by the two errors that mean it.
CodesFor(e) ==
  IF e \in {"accountNotFound", "notFound"} THEN Codes ELSE Codes \ {"AccountNotFound"}
NotAllowed == JSON(405, "ValidationGeneral")
Answers(e) ==
  IF e = "ok" THEN {Succeed} ELSE {SendError(c) : c \in CodesFor(e)} \union {NotAllowed}
AnswersOnce(f) == \A e \in DOMAIN f : f[e] \in Answers(e)
Names(codes) == \A e \in DOMAIN codes : e # "ok" /\ codes[e] \in CodesFor(e)

\* What the two handlers that move money may write
CommonCodes == {"AccountNotFound", "AuthInsufficientPermission", "AccountInactive"}
AnswersTwice == {SendError(c) \o SendSystemError : c \in CommonCodes}

LEMMA MergedAnswers ==
  ASSUME NEW f, NEW g, AnswersOnce(f), AnswersOnce(g)
  PROVE  AnswersOnce(f ++ g)
  BY DEF AnswersOnce, ++

LEMMA MergedNames ==
  ASSUME NEW f, NEW g, Names(f), Names(g)
  PROVE  Names(f ++ g)
  BY DEF Names, ++

LEMMA SentNames ==
  ASSUME NEW codes, Names(codes)
  PROVE  AnswersOnce(Sends(codes))
  BY DEF Names, AnswersOnce, Sends, Answers

LEMMA Statuses ==
  /\ GetHTTPStatus("ValidationGeneral") = 400
  /\ GetHTTPStatus("AuthMissingToken") = 401
  /\ GetHTTPStatus("AuthInsufficientPermission") = 403
  /\ GetHTTPStatus("CustomerNotFound") = 404
  /\ GetHTTPStatus("SystemInternalError") = 500
  /\ GetHTTPStatus("SystemServiceUnavailable") = 503
  BY DEF GetHTTPStatus, BadRequest, Unauthorized, Forbidden, NotFound, Conflict,
         Unprocessable

LEMMA SystemErrors ==
  ASSUME NEW e, e # "ok"
  PROVE  SendSystemError \in Answers(e)
<1>1. "SystemInternalError" \in CodesFor(e)
  BY DEF CodesFor, Codes, ServerErrors
<1>2. SendSystemError = SendError("SystemInternalError")
  BY Statuses DEF SendSystemError, SendError, WrapSystemError
<1> QED BY <1>1, <1>2 DEF Answers

LEMMA HttpErrors ==
  ASSUME NEW e, e # "ok", NEW s \in {400, 401, 403, 404, 405, 500}
  PROVE  HTTPError(s) \in Answers(e)
<1>1. /\ MapHTTPStatusToErrorCode(400) = "ValidationGeneral"
      /\ MapHTTPStatusToErrorCode(405) = "ValidationGeneral"
      /\ MapHTTPStatusToErrorCode(401) = "AuthMissingToken"
      /\ MapHTTPStatusToErrorCode(403) = "AuthInsufficientPermission"
      /\ MapHTTPStatusToErrorCode(404) = "CustomerNotFound"
      /\ MapHTTPStatusToErrorCode(500) = "SystemInternalError"
  BY DEF MapHTTPStatusToErrorCode
<1>2. {"ValidationGeneral", "AuthMissingToken", "AuthInsufficientPermission",
       "CustomerNotFound", "SystemInternalError"} \subseteq CodesFor(e)
  BY DEF CodesFor, Codes, BadRequest, Unauthorized, Forbidden, NotFound, ServerErrors
<1>3. HTTPError(s) = JSON(s, MapHTTPStatusToErrorCode(s))
  BY DEF HTTPError, CustomHTTPErrorHandler
<1>4. CASE s = 405
  BY <1>1, <1>3, <1>4 DEF Answers, NotAllowed
<1>5. CASE s # 405
  <2>1. MapHTTPStatusToErrorCode(s) \in CodesFor(e)
    BY <1>1, <1>2, <1>5
  <2>2. HTTPError(s) = SendError(MapHTTPStatusToErrorCode(s))
    BY <1>1, <1>3, <1>5, Statuses DEF SendError
  <2> QED BY <2>1, <2>2 DEF Answers
<1> QED BY <1>4, <1>5

LEMMA OkAnswers == AnswersOnce(Ok)
<1>1. "SystemInternalError" \in CodesFor("panic")
  BY DEF CodesFor, Codes, ServerErrors
<1>2. PanicRecovery = SendError("SystemInternalError")
  BY Statuses DEF PanicRecovery, SendError
<1> QED BY <1>1, <1>2 DEF AnswersOnce, Ok, Answers

LEMMA NamesKnown == Names(NoUser) /\ Names(AccountErrors) /\ Names(HandleServiceError)
  BY DEF Names, NoUser, AccountErrors, HandleServiceError, CodesFor, Codes,
         BadRequest, Unauthorized, Forbidden, NotFound

LEMMA NamesOfFlaws ==
  /\ Names(ParseTransactionFilters) /\ Names(ParsePaginationParams) /\ Names(DecodeCursor)
  BY DEF Names, ParseTransactionFilters, ParsePaginationParams, DecodeCursor, CodesFor,
         Codes, BadRequest

\* The handlers of accounts that do not move money
LEMMA AccountHandlers ==
  /\ AnswersOnce(GetUserAccounts) /\ AnswersOnce(UpdateAccountStatus)
  /\ AnswersOnce(CloseAccount) /\ AnswersOnce(GetTransferHistory)
  /\ AnswersOnce(GetAllAccounts) /\ AnswersOnce(GetAccountByIDAdmin)
  /\ AnswersOnce(GetUserAccountsAdmin)
<1> USE OkAnswers, NamesKnown, MergedNames, SentNames, MergedAnswers
<1>1. AnswersOnce(GetUserAccounts) /\ AnswersOnce(GetTransferHistory)
      /\ AnswersOnce(GetAllAccounts)
  BY DEF GetUserAccounts, GetTransferHistory, GetAllAccounts
<1>2. AnswersOnce(UpdateAccountStatus)
  <2> DEFINE own == [badId |-> "ValidationInvalidFormat", badBody |-> "ValidationGeneral", invalid |-> "ValidationGeneral"]
  <2>1. Names(own)
    BY DEF Names, CodesFor, Codes, BadRequest, NotFound, Unprocessable, Forbidden
  <2> HIDE DEF own
  <2> QED BY <2>1 DEF UpdateAccountStatus, own
<1>3. AnswersOnce(CloseAccount)
  <2> DEFINE own == [badId |-> "ValidationInvalidFormat", closureNotAllowed |-> "AccountOperationNotPermitted"]
  <2>1. Names(own)
    BY DEF Names, CodesFor, Codes, BadRequest, NotFound, Unprocessable, Forbidden
  <2> HIDE DEF own
  <2> QED BY <2>1 DEF CloseAccount, own
<1>4. AnswersOnce(GetAccountByIDAdmin)
  <2> DEFINE own == [badId |-> "ValidationInvalidFormat", accountNotFound |-> "AccountNotFound"]
  <2>1. Names(own)
    BY DEF Names, CodesFor, Codes, BadRequest, NotFound, Unprocessable, Forbidden
  <2> HIDE DEF own
  <2> QED BY <2>1 DEF GetAccountByIDAdmin, own
<1>5. AnswersOnce(GetUserAccountsAdmin)
  <2> DEFINE own == [badId |-> "ValidationInvalidFormat"]
  <2>1. Names(own)
    BY DEF Names, CodesFor, Codes, BadRequest, NotFound, Unprocessable, Forbidden
  <2> HIDE DEF own
  <2> QED BY <2>1 DEF GetUserAccountsAdmin, own
<1> QED BY <1>1, <1>2, <1>3, <1>4, <1>5

\* Those of the administrators, and the listings
LEMMA ListingHandlers ==
  /\ AnswersOnce(ListUsers) /\ AnswersOnce(GetUserByID) /\ AnswersOnce(HealthCheck)
  /\ AnswersOnce(ListTransactionsHandler) /\ AnswersOnce(GetTransactionHandler)
  /\ AnswersOnce(GetCustomerActivityHandler) /\ AnswersOnce(GetMyActivityHandler)
<1> USE OkAnswers, NamesKnown, MergedNames, SentNames, MergedAnswers
<1>1. AnswersOnce(ListUsers)
  <2> DEFINE own == [badPage |-> "ValidationGeneral"]
  <2>1. Names(own)
    BY DEF Names, CodesFor, Codes, BadRequest, NotFound, Unprocessable, Forbidden
  <2> HIDE DEF own
  <2> QED BY <2>1 DEF ListUsers, own
<1>2. AnswersOnce(GetUserByID)
  <2> DEFINE own == [badId |-> "CustomerInvalidID", userNotFound |-> "CustomerNotFound"]
  <2>1. Names(own)
    BY DEF Names, CodesFor, Codes, BadRequest, NotFound, Unprocessable, Forbidden
  <2> HIDE DEF own
  <2> QED BY <2>1 DEF GetUserByID, own
<1>3. AnswersOnce(HealthCheck)
  <2>1. JSON(503, "SystemServiceUnavailable") \in Answers("down")
    BY Statuses DEF Answers, SendError, CodesFor, Codes
  <2>2. AnswersOnce([down |-> JSON(503, "SystemServiceUnavailable")])
    BY <2>1 DEF AnswersOnce
  <2> QED BY <2>2 DEF HealthCheck
<1>4. AnswersOnce(ListTransactionsHandler)
  <2> DEFINE own == [badId |-> "ValidationInvalidFormat"]
  <2>1. Names(own)
    BY DEF Names, CodesFor, Codes, BadRequest, NotFound, Unprocessable, Forbidden
  <2> HIDE DEF own
  <2> QED BY <2>1, NamesOfFlaws DEF ListTransactionsHandler, own
<1>5. AnswersOnce(GetTransactionHandler)
  <2> DEFINE own == [badId |-> "AccountInvalidNumber", badTransactionId |-> "ValidationGeneral", transactionNotFound |-> "TransactionNotFound", otherAccount |-> "AuthInsufficientPermission"]
  <2>1. Names(own)
    BY DEF Names, CodesFor, Codes, BadRequest, NotFound, Unprocessable, Forbidden
  <2> HIDE DEF own
  <2> QED BY <2>1 DEF GetTransactionHandler, own
<1>6. AnswersOnce(GetCustomerActivityHandler)
  <2> DEFINE own == [badId |-> "CustomerInvalidID"]
  <2>1. Names(own)
    BY DEF Names, CodesFor, Codes, BadRequest, NotFound, Unprocessable, Forbidden
  <2> HIDE DEF own
  <2> QED BY <2>1 DEF GetCustomerActivityHandler, own
<1>7. AnswersOnce(GetMyActivityHandler)
  BY DEF GetMyActivityHandler
<1> QED BY <1>1, <1>2, <1>3, <1>4, <1>5, <1>6, <1>7

\* Those of the reports, of the test data, and echo's router
LEMMA ReportHandlers ==
  /\ AnswersOnce(GetAccountSummaryHandler) /\ AnswersOnce(GetAccountMetricsHandler)
  /\ AnswersOnce(GetStatementHandler) /\ AnswersOnce(GenerateTestDataHandler)
  /\ AnswersOnce(ClearTestDataHandler) /\ AnswersOnce(EchoRouter)
<1> USE OkAnswers, NamesKnown, MergedNames, SentNames, MergedAnswers
<1>1. AnswersOnce(GetAccountSummaryHandler)
  <2> DEFINE own == [badId |-> "ValidationGeneral"]
  <2>1. Names(own)
    BY DEF Names, CodesFor, Codes, BadRequest, NotFound, Unprocessable, Forbidden
  <2> HIDE DEF own
  <2> QED BY <2>1 DEF GetAccountSummaryHandler, own
<1>2. AnswersOnce([nobody |-> CustomHTTPErrorHandler("other", 0)])
  BY SystemErrors DEF AnswersOnce, CustomHTTPErrorHandler
<1>3. AnswersOnce(GetAccountMetricsHandler)
  <2> DEFINE own == [badId |-> "ValidationGeneral", badDate |-> "ValidationGeneral"]
  <2>1. Names(own)
    BY DEF Names, CodesFor, Codes, BadRequest, NotFound, Unprocessable, Forbidden
  <2> HIDE DEF own
  <2> QED BY <2>1, <1>2 DEF GetAccountMetricsHandler, own
<1>4. AnswersOnce(GetStatementHandler)
  <2> DEFINE own == [badId |-> "ValidationGeneral", badPeriod |-> "ValidationGeneral"]
  <2>1. Names(own)
    BY DEF Names, CodesFor, Codes, BadRequest, NotFound, Unprocessable, Forbidden
  <2> HIDE DEF own
  <2> QED BY <2>1, <1>2 DEF GetStatementHandler, own
<1>5. AnswersOnce(GenerateTestDataHandler)
  <2> DEFINE own == [nobody |-> HTTPError(401), badId |-> HTTPError(400),
         accountNotFound |-> HTTPError(404), unauthorized |-> HTTPError(403),
         other |-> HTTPError(500)]
  <2>1. AnswersOnce(own)
    BY HttpErrors DEF AnswersOnce
  <2> HIDE DEF own
  <2> QED BY <2>1 DEF GenerateTestDataHandler, own
<1>6. AnswersOnce(ClearTestDataHandler)
  BY <1>5 DEF ClearTestDataHandler
<1>7. AnswersOnce(EchoRouter)
  BY HttpErrors DEF AnswersOnce, EchoRouter
<1> QED BY <1>1, <1>3, <1>4, <1>5, <1>6, <1>7

\* The two that move money write a second body after the errors of MapCommonErr.
LEMMA CommonErrors ==
  ASSUME NEW e, NEW c
  PROVE  MapCommonErr(e) \o SendError(c) \in {SendError(c)} \union {SendError(d) \o SendError(c) : d \in CommonCodes}
<1>1. /\ "AccountNotFound" \in CommonCodes /\ "AuthInsufficientPermission" \in CommonCodes
      /\ "AccountInactive" \in CommonCodes
  BY DEF CommonCodes
<1>2. CASE e \in {"accountNotFound", "unauthorized", "accountNotActive"}
  BY <1>1, <1>2 DEF MapCommonErr
<1>3. CASE e \notin {"accountNotFound", "unauthorized", "accountNotActive"}
  <2>1. MapCommonErr(e) = <<>>
    BY <1>3 DEF MapCommonErr
  <2>2. <<>> \o SendError(c) = SendError(c)
    BY DEF SendError, JSON
  <2> QED BY <2>1, <2>2
<1> QED BY <1>2, <1>3

LEMMA MoneyErrors ==
  ASSUME NEW e, e # "ok"
  PROVE  /\ MapTransactionErr(e) \in Answers(e) \union AnswersTwice
         /\ MapTransferErr(e) \in Answers(e) \union AnswersTwice
<1>1. SendSystemError = SendError("SystemInternalError")
  BY Statuses DEF SendSystemError, SendError, WrapSystemError
<1>2. {"TransactionInsufficientFunds", "TransactionInvalidAmount",
       "TransferInsufficientFunds", "TransferInvalidAmount", "TransferSameAccount",
       "TransferPending", "TransferFailed", "SystemInternalError"} \subseteq CodesFor(e)
  BY DEF CodesFor, Codes, BadRequest, Conflict, Unprocessable, ServerErrors
<1>3. CASE e \in {"accountNotFound", "unauthorized", "accountNotActive"}
  <2>1. \E c \in CommonCodes : MapCommonErr(e) = SendError(c)
    BY <1>3 DEF MapCommonErr, CommonCodes
  <2>2. /\ MapTransactionErr(e) = MapCommonErr(e) \o SendSystemError
        /\ MapTransferErr(e) = MapCommonErr(e) \o SendSystemError
    BY <1>3 DEF MapTransactionErr, MapTransferErr
  <2> QED BY <2>1, <2>2 DEF AnswersTwice
<1>4. CASE e \notin {"accountNotFound", "unauthorized", "accountNotActive"}
  <2>1. MapCommonErr(e) = <<>>
    BY <1>4 DEF MapCommonErr
  <2>2. \A c : <<>> \o SendError(c) = SendError(c)
    BY DEF SendError, JSON
  <2>3. /\ \E c \in CodesFor(e) : MapTransactionErr(e) = <<>> \o SendError(c)
        /\ \E c \in CodesFor(e) : MapTransferErr(e) = <<>> \o SendError(c)
    BY <1>1, <1>2, <2>1 DEF MapTransactionErr, MapTransferErr
  <2> QED BY <2>2, <2>3 DEF Answers
<1> QED BY <1>3, <1>4

LEMMA MoneyHandlers ==
  /\ \A e \in DOMAIN PerformTransaction :
       PerformTransaction[e] \in Answers(e) \union AnswersTwice
  /\ \A e \in DOMAIN Transfer : Transfer[e] \in Answers(e) \union AnswersTwice
<1> USE OkAnswers, NamesKnown, MergedNames, SentNames, MergedAnswers
<1> DEFINE first == Ok ++ [invalid |-> CustomHTTPErrorHandler("validation", 0)]
           sent == NoUser
             ++ [badId |-> "AccountInvalidNumber", badBody |-> "ValidationGeneral",
                 badAmount |-> "TransactionInvalidAmount"]
           post == [e \in {"accountNotFound", "unauthorized", "accountNotActive",
                            "insufficientFunds", "invalidAmount", "other"}
                      |-> MapTransactionErr(e)]
           asked == NoUser
             ++ [badKey |-> "ValidationRequiredField", badId |-> "ValidationInvalidFormat",
                 badBody |-> "ValidationGeneral", invalid |-> "ValidationGeneral",
                 badAmount |-> "TransactionInvalidAmount"]
           transfer == [e \in {"accountNotFound", "unauthorized", "accountNotActive",
                                "insufficientFunds", "invalidAmount", "sameAccount",
                                "transferPending", "transferFailed", "other"}
                          |-> MapTransferErr(e)]
<1>1. AnswersOnce(first)
  <2>1. CustomHTTPErrorHandler("validation", 0) \in Answers("invalid")
    BY Statuses DEF CustomHTTPErrorHandler, Answers, SendError, CodesFor, Codes, BadRequest
  <2>2. AnswersOnce([invalid |-> CustomHTTPErrorHandler("validation", 0)])
    BY <2>1 DEF AnswersOnce
  <2> QED BY <2>2
<1>2. Names(sent) /\ Names(asked)
  <2>1. /\ Names([badId |-> "AccountInvalidNumber", badBody |-> "ValidationGeneral",
                  badAmount |-> "TransactionInvalidAmount"])
        /\ Names([badKey |-> "ValidationRequiredField", badId |-> "ValidationInvalidFormat",
                  badBody |-> "ValidationGeneral", invalid |-> "ValidationGeneral",
                  badAmount |-> "TransactionInvalidAmount"])
    BY DEF Names, CodesFor, Codes, BadRequest, Unprocessable
  <2> QED BY <2>1
<1>3. /\ \A e \in DOMAIN post : post[e] \in Answers(e) \union AnswersTwice
      /\ \A e \in DOMAIN transfer : transfer[e] \in Answers(e) \union AnswersTwice
  BY MoneyErrors
<1>4. /\ PerformTransaction = (first ++ Sends(sent)) ++ post
      /\ Transfer = (Ok ++ Sends(asked)) ++ transfer
  BY DEF PerformTransaction, Transfer
<1> HIDE DEF first, sent, post, asked, transfer
<1>5. AnswersOnce(first ++ Sends(sent)) /\ AnswersOnce(Ok ++ Sends(asked))
  BY <1>1, <1>2
<1> QED BY <1>3, <1>4, <1>5 DEF AnswersOnce, ++

\* All but the router may succeed.
LEMMA KnownSuccess ==
  /\ "ok" \in DOMAIN GetUserAccounts
  /\ "ok" \in DOMAIN UpdateAccountStatus
  /\ "ok" \in DOMAIN CloseAccount
  /\ "ok" \in DOMAIN GetTransferHistory
  /\ "ok" \in DOMAIN GetAllAccounts
  /\ "ok" \in DOMAIN GetAccountByIDAdmin
  /\ "ok" \in DOMAIN GetUserAccountsAdmin
  /\ "ok" \in DOMAIN ListUsers
  /\ "ok" \in DOMAIN GetUserByID
  /\ "ok" \in DOMAIN HealthCheck
  /\ "ok" \in DOMAIN ListTransactionsHandler
  /\ "ok" \in DOMAIN GetTransactionHandler
  /\ "ok" \in DOMAIN GetCustomerActivityHandler
  /\ "ok" \in DOMAIN GetMyActivityHandler
  /\ "ok" \in DOMAIN GetAccountSummaryHandler
  /\ "ok" \in DOMAIN GetAccountMetricsHandler
  /\ "ok" \in DOMAIN GetStatementHandler
  /\ "ok" \in DOMAIN GenerateTestDataHandler
  /\ "ok" \in DOMAIN ClearTestDataHandler
<1> DEFINE Knows(f) == "ok" \in DOMAIN f
<1>1. Knows(Ok)
  BY DEF Ok
<1>2. ASSUME NEW f, NEW g, Knows(f)
      PROVE  Knows(f ++ g)
  BY <1>2 DEF ++
<1> HIDE DEF Knows
<1>3. /\ Knows(GetUserAccounts)
      /\ Knows(UpdateAccountStatus)
      /\ Knows(CloseAccount)
      /\ Knows(GetTransferHistory)
      /\ Knows(GetAllAccounts)
      /\ Knows(GetAccountByIDAdmin)
      /\ Knows(GetUserAccountsAdmin)
      /\ Knows(ListUsers)
      /\ Knows(GetUserByID)
      /\ Knows(HealthCheck)
      /\ Knows(ListTransactionsHandler)
      /\ Knows(GetTransactionHandler)
      /\ Knows(GetCustomerActivityHandler)
      /\ Knows(GetMyActivityHandler)
      /\ Knows(GetAccountSummaryHandler)
      /\ Knows(GetAccountMetricsHandler)
      /\ Knows(GetStatementHandler)
      /\ Knows(GenerateTestDataHandler)
      /\ Knows(ClearTestDataHandler)
  BY <1>1, <1>2 DEF GetUserAccounts, UpdateAccountStatus, CloseAccount,
       GetTransferHistory, GetAllAccounts, GetAccountByIDAdmin,
       GetUserAccountsAdmin, ListUsers, GetUserByID,
       HealthCheck, ListTransactionsHandler, GetTransactionHandler,
       GetCustomerActivityHandler, GetMyActivityHandler, GetAccountSummaryHandler,
       GetAccountMetricsHandler, GetStatementHandler, GenerateTestDataHandler,
       ClearTestDataHandler
<1> QED BY <1>3 DEF Knows

\* What any handler writes for any error
LEMMA Written ==
  ASSUME NEW kind \in Kinds, NEW e, kind # "router" \/ e # "ok"
  PROVE  \/ Writes(Handlers[kind], e) \in Answers(e)
         \/ kind \in {"post", "transfer"} /\ Writes(Handlers[kind], e) \in AnswersTwice
<1>1. "ok" \in DOMAIN Ok
  BY DEF Ok
<1>2. CASE kind = "post"
  <2>1. Handlers[kind] = PerformTransaction /\ "ok" \in DOMAIN PerformTransaction
    BY <1>2, <1>1 DEF Handlers, PerformTransaction, ++
  <2> QED BY <1>2, <2>1, MoneyHandlers, SystemErrors DEF Writes
<1>3. CASE kind = "transfer"
  <2>1. Handlers[kind] = Transfer /\ "ok" \in DOMAIN Transfer
    BY <1>3, <1>1 DEF Handlers, Transfer, ++
  <2> QED BY <1>3, <2>1, MoneyHandlers, SystemErrors DEF Writes
<1>4. CASE kind \notin {"post", "transfer"}
  <2>1. AnswersOnce(Handlers[kind])
    BY <1>4, AccountHandlers, ListingHandlers, ReportHandlers
       DEF Kinds, AccountReports, OwnAccount, Handlers
  <2>2. kind # "router" => "ok" \in DOMAIN Handlers[kind]
    BY <1>4, KnownSuccess DEF Kinds, AccountReports, OwnAccount, Handlers
  <2> HIDE DEF Handlers
  <2> QED BY <2>1, <2>2, SystemErrors DEF Writes, AnswersOnce
<1> QED BY <1>2, <1>3, <1>4

\* The response made of it
LEMMA ResponseToOne ==
  ASSUME NEW s, NEW c
  PROVE  Response(JSON(s, c)) = [status |-> s, bodies |-> <<c>>]
<1>1. DOMAIN JSON(s, c) = {1} /\ JSON(s, c)[1] = [status |-> s, code |-> c]
  BY DEF JSON
<1>2. [i \in {1} |-> c] = <<c>>
  OBVIOUS
<1> QED BY <1>1, <1>2 DEF Response
LEMMA TwoInOne ==
  ASSUME NEW x, NEW y
  PROVE  <<x>> \o <<y>> = <<x, y>>
<1> DEFINE s == <<x>>
           t == <<y>>
           u == <<x, y>>
<1>0. PICK S : S = {x, y}
  OBVIOUS
<1>1. s \in Seq(S) /\ t \in Seq(S) /\ Len(s) = 1 /\ Len(t) = 1 /\ s[1] = x /\ t[1] = y
  BY <1>0
<1>2. u \in Seq(S) /\ Len(u) = 2 /\ u[1] = x /\ u[2] = y
  BY <1>0
<1> HIDE DEF s, t, u
<1>3. s \o t \in Seq(S) /\ Len(s \o t) = 2 /\ (s \o t)[1] = x /\ (s \o t)[2] = y
  BY <1>1, ConcatProperties
<1>4. \A i \in 1..Len(s \o t) : (s \o t)[i] = u[i]
  BY <1>2, <1>3
<1>5. s \o t = u
  BY <1>2, <1>3, <1>4, SeqEqual
<1> QED BY <1>5 DEF s, t, u

-----------------------------------------------------------------------------
(* What a query returns, and sums of it *)

\* Rows with dates, newest first, in either order of those that agree: each of
\* them comes once, at the place after all that come before it.
LEMMA EachComesOnce ==
  ASSUME NEW ids \in SUBSET DOMAIN ledger, DOMAIN ledger \subseteq Nat,
         IsFiniteSet(ids), \A i \in ids : ledger[i].at \in Nat, NEW latest \in BOOLEAN
  PROVE  /\ NewestFirst(ids, latest) \in Seq(ids)
         /\ Len(NewestFirst(ids, latest)) = Cardinality(ids)
         /\ \A i \in ids : \E k \in DOMAIN NewestFirst(ids, latest) :
              NewestFirst(ids, latest)[k] = i
<1> DEFINE n == Cardinality(ids)
           First(i) == {j \in ids : Before(j, i, latest)}
           place == [i \in ids |-> Cardinality(First(i)) + 1]
<1>1. n \in Nat
  BY FS_CardinalityType
<1>2. ASSUME NEW i \in ids
      PROVE  IsFiniteSet(First(i)) /\ Cardinality(First(i)) \in 0..(n - 1)
  <2>1. i \notin First(i)
    BY DEF Before
  <2>2. First(i) \in SUBSET (ids \ {i})
    BY <2>1
  <2>3. IsFiniteSet(ids \ {i}) /\ Cardinality(ids \ {i}) = n - 1
    BY FS_RemoveElement
  <2> HIDE DEF First, n
  <2>4. IsFiniteSet(First(i)) /\ Cardinality(First(i)) <= n - 1
    BY <2>2, <2>3, FS_Subset
  <2>5. Cardinality(First(i)) \in Nat
    BY <2>4, FS_CardinalityType
  <2> QED BY <1>1, <2>4, <2>5
<1>3. ASSUME NEW i \in ids, NEW j \in ids, Before(i, j, latest)
      PROVE  Cardinality(First(i)) # Cardinality(First(j))
  <2>1. First(i) \in SUBSET First(j)
    BY <1>3 DEF Before
  <2>2. i \in First(j) /\ i \notin First(i)
    BY <1>3 DEF Before
  <2> HIDE DEF First
  <2> QED BY <1>2, <2>1, <2>2, FS_Subset
<1>4. \A i, j \in ids : i # j => Before(i, j, latest) \/ Before(j, i, latest)
  BY DEF Before
<1> HIDE DEF n, First
<1>5. place \in [ids -> 1..n] /\ \A i, j \in ids : place[i] = place[j] => i = j
  BY <1>1, <1>2, <1>3, <1>4
<1>6. \A k \in 1..n : \E i \in ids : place[i] = k
  <2> HIDE DEF place
  <2>1. place \in Injection(ids, 1..n)
    BY <1>5 DEF Injection, IsInjective
  <2>2. IsFiniteSet(1..n) /\ Cardinality(1..n) = n
    BY <1>1, FS_Interval
  <2>3. place \in Surjection(ids, 1..n)
    BY <2>1, <2>2, FS_Injection DEF n
  <2> QED BY <2>3 DEF Surjection
<1> DEFINE s == NewestFirst(ids, latest)
<1>7. s = [k \in 1..n |-> CHOOSE i \in ids : Cardinality(First(i)) = k - 1]
  BY DEF NewestFirst, n, First
<1>8. \A k \in 1..n : s[k] \in ids /\ place[s[k]] = k
  <2>1. ASSUME NEW k \in 1..n
        PROVE  s[k] \in ids /\ Cardinality(First(s[k])) = k - 1
    <3>1. \E i \in ids : Cardinality(First(i)) = k - 1
      <4>1. PICK i \in ids : place[i] = k
        BY <1>6
      <4>2. Cardinality(First(i)) \in 0..(n - 1)
        BY <1>2
      <4> QED BY <1>1, <4>1, <4>2
    <3> QED BY <1>7, <3>1
  <2> QED BY <1>1, <2>1
<1> HIDE DEF s
<1>9. \A i \in ids : place[i] \in 1..n /\ s[place[i]] = i
  BY <1>5, <1>8
<1>10. s \in Seq(ids) /\ Len(s) = n /\ DOMAIN s = 1..n
  <2>1. s \in [1..n -> ids]
    BY <1>7, <1>8
  <2> QED BY <1>1, <2>1
<1>11. \A i \in ids : \E k \in DOMAIN s : s[k] = i
  BY <1>9, <1>10
<1> QED BY <1>10, <1>11 DEF s, n

\* A query returns the rows it asks for with the status they have.
LEMMA RowsRead ==
  ASSUME NEW ids \in SUBSET DOMAIN ledger, ledger \in Seq(LedgerRow),
         NEW rows \in Read(ids)
  PROVE  /\ rows \in Seq([id : ids, status : {"pending", "completed"}])
         /\ Ids(rows) = ids
         /\ Completed(rows) = {i \in ids : ledger[i].status = "completed"}
         /\ \A k \in DOMAIN rows : rows[k].status = ledger[rows[k].id].status
<1>1. DOMAIN ledger = 1..Len(ledger) /\ Len(ledger) \in Nat
  OBVIOUS
<1>2. IsFiniteSet(ids)
  <2>1. IsFiniteSet(1..Len(ledger))
    BY <1>1, FS_Interval
  <2> QED BY <1>1, <2>1, FS_Subset
<1>3. \A i \in ids : ledger[i] \in LedgerRow
  OBVIOUS
<1>4. \A i \in ids : ledger[i].at \in Nat /\ ledger[i].status \in {"pending", "completed"}
  BY <1>3 DEF LedgerRow
<1>5. PICK latest \in BOOLEAN :
        LET s == NewestFirst(ids, latest)
        IN rows = [k \in DOMAIN s |-> [id |-> s[k], status |-> ledger[s[k]].status]]
  BY DEF Read
<1> DEFINE s == NewestFirst(ids, latest)
<1>6. /\ s \in Seq(ids)
      /\ \A i \in ids : \E k \in DOMAIN s : s[k] = i
  BY <1>1, <1>2, <1>4, EachComesOnce
<1>7. rows = [k \in DOMAIN s |-> [id |-> s[k], status |-> ledger[s[k]].status]]
  BY <1>5
<1> HIDE DEF s
<1>8. DOMAIN s = 1..Len(s) /\ Len(s) \in Nat /\ \A k \in DOMAIN s : s[k] \in ids
  BY <1>6
<1>9. rows \in Seq([id : ids, status : {"pending", "completed"}])
  BY <1>4, <1>7, <1>8
<1>10. Ids(rows) = ids
  BY <1>6, <1>7, <1>8 DEF Ids
<1>11. Completed(rows) = {i \in ids : ledger[i].status = "completed"}
  BY <1>6, <1>7, <1>8 DEF Completed
<1> QED BY <1>7, <1>8, <1>9, <1>10, <1>11

-----------------------------------------------------------------------------
(* The generated histories *)

Drawn == [at : Nat, type : {"debit", "credit"}, amount : Nat]
Movement == [at : Nat, type : {"debit", "credit"}, amount : Nat, before : Int, after : Int]

LEMMA DayIs == Day \in Nat \ {0} /\ Hour \in Nat \ {0}
  BY GeneratorAssumption DEF Day

LEMMA TimesAreDates ==
  ASSUME NEW start \in Nat, NEW end \in Nat, NEW t \in GenerateTimestamp(start, end)
  PROVE  t \in Nat
<1>1. PICK u \in start..(end - 1), hour \in BusinessHours, rest \in Minutes :
        t = DayOf(u) + hour * Hour + rest
  BY DEF GenerateTimestamp
<1>2. u \in Nat /\ hour \in Nat /\ rest \in Nat
  BY <1>1, GeneratorAssumption
<1>3. DayOf(u) \in Nat
  <2>1. u % Day \in 0..u
    BY <1>2, DayIs
  <2> QED BY <1>2, <2>1 DEF DayOf
<1>4. hour * Hour \in Nat
  BY <1>2, DayIs
<1> QED BY <1>1, <1>2, <1>3, <1>4

LEMMA RowsAreDrawn ==
  ASSUME NEW current \in Nat, NEW end \in Nat, NEW b \in Int,
         NEW row \in CreateHistoricalTransaction(current, end, b)
  PROVE  row \in Drawn
<1>1. PICK t \in GenerateBoundedTimestamp(current, end),
           m \in UNION {AdjustTransactionForBalance(b, type, amount) :
                          type \in GenerateTransactionType, amount \in Amounts} :
        row = [at |-> t, type |-> m.type, amount |-> m.amount]
  BY DEF CreateHistoricalTransaction
<1>2. t \in Nat
  <2>1. current + Day \in Nat
    BY DayIs
  <2> QED BY <2>1, TimesAreDates DEF GenerateBoundedTimestamp
<1>3. PICK type \in GenerateTransactionType, amount \in Amounts :
        m \in AdjustTransactionForBalance(b, type, amount)
  OBVIOUS
<1>4. m.type \in {"debit", "credit"} /\ m.amount \in Nat
  BY <1>3, GeneratorAssumption DEF AdjustTransactionForBalance, GenerateTransactionType
<1> QED BY <1>1, <1>2, <1>4 DEF Drawn

IsBatch(rows, count) == rows \in Seq(Drawn) /\ Len(rows) = count

\* A batch of n rows has n rows, and what was drawn has a date and an amount.
LEMMA BatchesAreDrawn ==
  ASSUME NEW start \in Nat, NEW end \in Nat, NEW b \in Int, NEW count \in Nat \ {0},
         NEW rows \in GenerateTransactionBatch(start, end, b, count)
  PROVE  IsBatch(rows, count)
<1> DEFINE hours == HoursPerTransaction(start, end, count)
           State == [rows : Seq(Drawn), date : Nat, balance : Int]
           First == {[rows |-> <<>>, date |-> start, balance |-> b]}
           Next1(s, n) == UNION {NextRow(x, n - 1, start, end, hours) : x \in s}
           P(f) == f = [n \in 0..count |->
                          IF n = 0 THEN First ELSE Next1(f[n - 1], n)]
           batch == CHOOSE f : P(f)
           step == [n \in 1..count |-> [s \in SUBSET State |-> Next1(s, n)]]
<1>1. hours \in Nat
  <2>1. \A d \in Int, c \in Nat \ {0} : d \div c \in Int
    OBVIOUS
  <2>2. (end - start) \div Hour \in Int
    BY <2>1, DayIs
  <2>3. ((end - start) \div Hour) \div count \in Int
    BY <2>1, <2>2
  <2> QED BY <2>3 DEF HoursPerTransaction
<1>2. Batches(start, end, b, count) = batch
  BY DEF Batches
<1> HIDE DEF hours
<1>3. ASSUME NEW x \in State, NEW n \in 1..count, NEW y \in NextRow(x, n - 1, start, end, hours)
      PROVE  y \in State /\ Len(y.rows) = Len(x.rows) + 1
  <2> DEFINE date == AdvanceDate(x.date, start, end, n - 1, hours)
  <2>1. date \in Nat
    <3>1. (n - 1) * Hour \in Nat /\ hours * Hour \in Nat
      BY <1>1, DayIs
    <3> QED BY <3>1 DEF AdvanceDate
  <2>2. PICK row \in CreateHistoricalTransaction(date, end, x.balance) :
          y = [rows |-> Append(x.rows, row), date |-> date,
               balance |-> CalculateNewBalance(x.balance, row.type, row.amount)]
    BY <1>3 DEF NextRow
  <2> HIDE DEF date
  <2>3. row \in Drawn
    BY <2>1, <2>2, RowsAreDrawn
  <2>4. CalculateNewBalance(x.balance, row.type, row.amount) \in Int
    BY <2>3 DEF Drawn, CalculateNewBalance
  <2>5. x.rows \in Seq(Drawn) /\ Append(x.rows, row) \in Seq(Drawn)
        /\ Len(Append(x.rows, row)) = Len(x.rows) + 1
    BY <2>3
  <2> QED BY <2>1, <2>2, <2>4, <2>5
<1>4. First \in SUBSET State
  <2>1. <<>> \in Seq(Drawn)
    OBVIOUS
  <2> QED BY <2>1
<1>5. step \in [1..count -> [SUBSET State -> SUBSET State]]
  BY <1>3
<1> HIDE DEF State, First, step, Next1
<1>6. PICK f : Iterates(f, step, count, First, SUBSET State)
  BY <1>4, <1>5, Iteration DEF Steps
<1>7. P(f)
  <2>1. ASSUME NEW n \in 1..count
        PROVE  f[n] = Next1(f[n - 1], n)
    <3>1. f[n - 1] \in SUBSET State
      BY <1>6 DEF Iterates
    <3>2. step[n][f[n - 1]] = Next1(f[n - 1], n)
      BY <3>1 DEF step
    <3> QED BY <1>6, <3>2 DEF Iterates
  <2> QED BY <1>6, <2>1 DEF Iterates
<1>8. P(batch)
  <2> HIDE DEF P
  <2> QED BY <1>7
<1> HIDE DEF batch
<1> DEFINE C == {n \in 0..count : batch[n] \in SUBSET {x \in State : Len(x.rows) = n}}
<1>9. 0 \in C
  <2>1. batch[0] = First
    BY <1>8
  <2> QED BY <1>4, <2>1 DEF First
<1>10. ASSUME NEW n \in 0..(count - 1), n \in C
       PROVE  n + 1 \in C
  <2>1. batch[n + 1] = Next1(batch[n], n + 1) /\ n + 1 \in 1..count
    BY <1>8
  <2>2. ASSUME NEW y \in batch[n + 1]
        PROVE  y \in State /\ Len(y.rows) = n + 1
    <3>1. PICK x \in batch[n] : y \in NextRow(x, (n + 1) - 1, start, end, hours)
      BY <2>1 DEF Next1
    <3>2. x \in State /\ Len(x.rows) = n
      BY <1>10
    <3> QED BY <1>3, <2>1, <3>1, <3>2
  <2> QED BY <2>1, <2>2
<1>11. 0..count \subseteq C
  <2> HIDE DEF C
  <2> QED BY <1>9, <1>10, UpTo
<1>12. PICK x \in batch[count] : rows = x.rows
  BY <1>2 DEF GenerateTransactionBatch
<1>13. count \in C
  BY <1>11
<1>14. x \in State /\ Len(x.rows) = count
  BY <1>12, <1>13
<1> QED BY <1>12, <1>14 DEF State, IsBatch

LEMMA SortedByDate ==
  ASSUME NEW rows \in Seq(Drawn), NEW sorted \in SortTransactionsByDate(rows)
  PROVE  /\ sorted \in Seq(Drawn) /\ Len(sorted) = Len(rows)
         /\ \A i, j \in DOMAIN sorted : i < j => sorted[i].at <= sorted[j].at
<1> DEFINE n == DOMAIN rows
<1>1. PICK q \in Bijection(n, n) :
        /\ \A i, j \in n : i < j => rows[q[i]].at <= rows[q[j]].at
        /\ sorted = [i \in n |-> rows[q[i]]]
  BY DEF SortTransactionsByDate
<1>2. q \in [n -> n]
  BY <1>1 DEF Bijection, Injection
<1>3. n = 1..Len(rows) /\ Len(rows) \in Nat
  OBVIOUS
<1> HIDE DEF n
<1>4. \A i \in n : rows[i] \in Drawn
  BY DEF n
<1>5. sorted \in [1..Len(rows) -> Drawn]
  BY <1>1, <1>2, <1>3, <1>4
<1>6. sorted \in Seq(Drawn) /\ Len(sorted) = Len(rows)
  BY <1>3, <1>5
<1> QED BY <1>1, <1>3, <1>5, <1>6

\* The balances follow each other from the one the history starts with.
LEMMA BalancesFollow ==
  ASSUME NEW rows \in Seq(Drawn), NEW b \in Int
  PROVE  LET after == BalancesAfter(rows, b)
         IN /\ after \in [0..Len(rows) -> Int] /\ after[0] = b
            /\ \A i \in 1..Len(rows) :
                 after[i] = CalculateNewBalance(after[i - 1],
                              RecalculatedType(after[i - 1], rows[i]), rows[i].amount)
<1> DEFINE n == Len(rows)
           Next1(x, i) == CalculateNewBalance(x, RecalculatedType(x, rows[i]), rows[i].amount)
           P(f) == f = [i \in 0..n |-> IF i = 0 THEN b ELSE Next1(f[i - 1], i)]
           after == CHOOSE f : P(f)
           step == [i \in 1..n |-> [x \in Int |-> Next1(x, i)]]
<1>1. BalancesAfter(rows, b) = after
  BY DEF BalancesAfter
<1>2. n \in Nat /\ \A i \in 1..n : rows[i].amount \in Nat
  <2>1. n \in Nat /\ \A i \in 1..n : rows[i] \in Drawn
    OBVIOUS
  <2> QED BY <2>1 DEF Drawn
<1>3. \A i \in 1..n, x \in Int : Next1(x, i) \in Int
  BY <1>2 DEF CalculateNewBalance
<1> HIDE DEF n, Next1
<1>4. step \in [1..n -> [Int -> Int]]
  BY <1>3
<1> HIDE DEF step
<1>4a. PICK f : Iterates(f, step, n, b, Int)
  BY <1>2, <1>4, Iteration DEF Steps
<1>5. /\ f \in [0..n -> Int] /\ f[0] = b
      /\ \A i \in 1..n : f[i] = step[i][f[i - 1]]
  BY <1>4a DEF Iterates
<1>6. \A i \in 1..n : f[i] = Next1(f[i - 1], i)
  <2> SUFFICES ASSUME NEW i \in 1..n
               PROVE  f[i] = Next1(f[i - 1], i)
    OBVIOUS
  <2>1. f[i - 1] \in Int
    BY <1>2, <1>5
  <2>2. step[i][f[i - 1]] = Next1(f[i - 1], i)
    BY <2>1 DEF step
  <2> QED BY <1>5, <2>2
<1>7. P(f)
  BY <1>5, <1>6
<1>8. P(after)
  <2> HIDE DEF P
  <2> QED BY <1>7
<1>9. \A g : P(g) => g = f
  <2> SUFFICES ASSUME NEW g, P(g)
               PROVE  g = f
    OBVIOUS
  <2> DEFINE C == {i \in 0..n : g[i] = f[i]}
  <2>1. 0 \in C
    BY <1>2, <1>5
  <2>2. ASSUME NEW i \in 0..(n - 1), i \in C
        PROVE  i + 1 \in C
    <3>1. i + 1 \in 1..n /\ (i + 1) - 1 = i
      BY <1>2
    <3>2. g[i + 1] = Next1(g[i], i + 1)
      BY <1>2, <3>1
    <3>3. f[i + 1] = Next1(f[i], i + 1)
      BY <1>6, <3>1
    <3> QED BY <2>2, <3>1, <3>2, <3>3
  <2>3. 0..n \subseteq C
    <3> HIDE DEF C
    <3> QED BY <1>2, <2>1, <2>2, UpTo
  <2>4. DOMAIN g = 0..n /\ g = [i \in 0..n |-> g[i]]
    OBVIOUS
  <2>5. \A i \in 0..n : g[i] = f[i]
    BY <2>3
  <2> HIDE DEF P
  <2> QED BY <1>5, <2>4, <2>5
<1>10. after = f
  <2> HIDE DEF P, after
  <2> QED BY <1>8, <1>9
<1> HIDE DEF after
<1> QED BY <1>1, <1>5, <1>6, <1>10 DEF n, Next1

\* What test data are: each row the movement between its balances, a debit
\* leaving the threshold, in order of date, each going on where the last ended.
IsHistory(h) ==
  /\ h \in Seq(Movement)
  /\ \A i \in DOMAIN h :
       /\ h[i].after = CalculateNewBalance(h[i].before, h[i].type, h[i].amount)
       /\ h[i].type = "debit" => h[i].after >= Threshold
  /\ \A i \in 1..(Len(h) - 1) : h[i].at <= h[i + 1].at /\ h[i].after = h[i + 1].before
IsHistoryOf(h, count) == IsHistory(h) /\ Len(h) = count

LEMMA HistoriesAre ==
  ASSUME NEW start \in Nat, NEW end \in Nat, NEW b \in Int, NEW count \in Nat \ {0},
         NEW h \in GenerateHistoricalTransactions(start, end, b, count)
  PROVE  IsHistoryOf(h, count)
<1>1. PICK rows \in GenerateTransactionBatch(start, end, b, count) :
        \E s \in SortTransactionsByDate(rows) : h = RecalculateBalances(s, b)
  BY DEF GenerateHistoricalTransactions
<1>2. PICK s \in SortTransactionsByDate(rows) : h = RecalculateBalances(s, b)
  BY <1>1
<1>3a. IsBatch(rows, count)
  BY BatchesAreDrawn
<1>3. rows \in Seq(Drawn) /\ Len(rows) = count
  BY <1>3a DEF IsBatch
<1>4. /\ s \in Seq(Drawn) /\ Len(s) = count
      /\ \A i, j \in DOMAIN s : i < j => s[i].at <= s[j].at
  BY <1>3, SortedByDate
<1> DEFINE after == BalancesAfter(s, b)
<1>5. /\ after \in [0..count -> Int]
      /\ \A i \in 1..count :
           after[i] = CalculateNewBalance(after[i - 1],
                        RecalculatedType(after[i - 1], s[i]), s[i].amount)
  BY <1>4, BalancesFollow
<1>6. h = [i \in DOMAIN s |->
             [at |-> s[i].at, type |-> RecalculatedType(after[i - 1], s[i]),
              amount |-> s[i].amount, before |-> after[i - 1], after |-> after[i]]]
  BY <1>2 DEF RecalculateBalances
<1> HIDE DEF after
<1>7. DOMAIN s = 1..count
  BY <1>4
<1>8. ASSUME NEW i \in 1..count
      PROVE  /\ h[i] \in Movement
             /\ h[i].after = CalculateNewBalance(h[i].before, h[i].type, h[i].amount)
             /\ h[i].type = "debit" => h[i].after >= Threshold
             /\ h[i].at = s[i].at /\ h[i].before = after[i - 1] /\ h[i].after = after[i]
  <2>1. s[i] \in Drawn
    BY <1>4, <1>7
  <2>2. after[i - 1] \in Int /\ after[i] \in Int
    BY <1>5
  <2>3. h[i] = [at |-> s[i].at, type |-> RecalculatedType(after[i - 1], s[i]),
                amount |-> s[i].amount, before |-> after[i - 1], after |-> after[i]]
    BY <1>6, <1>7
  <2>4. RecalculatedType(after[i - 1], s[i]) \in {"debit", "credit"}
    BY <2>1 DEF RecalculatedType, Drawn
  <2>5. h[i] \in Movement
    BY <2>1, <2>2, <2>3, <2>4 DEF Movement, Drawn
  <2>6. after[i] = CalculateNewBalance(after[i - 1],
                     RecalculatedType(after[i - 1], s[i]), s[i].amount)
    BY <1>5
  <2>7. RecalculatedType(after[i - 1], s[i]) = "debit" =>
          after[i - 1] - s[i].amount >= Threshold
    BY <2>1, <2>2, GeneratorAssumption DEF RecalculatedType, Drawn
  <2> QED BY <2>3, <2>5, <2>6, <2>7 DEF CalculateNewBalance
<1>9. h \in Seq(Movement) /\ Len(h) = count /\ DOMAIN h = 1..count
  <2>1. h \in [1..count -> Movement]
    BY <1>6, <1>7, <1>8
  <2> QED BY <2>1
<1>10. ASSUME NEW i \in 1..(Len(h) - 1)
       PROVE  h[i].at <= h[i + 1].at /\ h[i].after = h[i + 1].before
  <2>1. i \in 1..count /\ i + 1 \in 1..count /\ i < i + 1 /\ (i + 1) - 1 = i
    BY <1>9
  <2>2. s[i].at <= s[i + 1].at
    BY <1>4, <1>7, <2>1
  <2> QED BY <1>8, <2>1, <2>2
<1> QED BY <1>8, <1>9, <1>10 DEF IsHistory, IsHistoryOf

-----------------------------------------------------------------------------
(* The invariant *)

\* One response, and what is said of it whoever it answers.
StatusesSent == {200, 400, 401, 403, 404, 405, 409, 422, 429, 500, 503}
Explained(kind, o) ==
  LET agrees == o.status = IF o.bodies[1] = "ok" THEN 200 ELSE GetHTTPStatus(o.bodies[1])
  IN \/ Len(o.bodies) = 1 /\ agrees
     \/ o.bodies = <<"ValidationGeneral">> /\ o.status = 405
     \/ /\ kind \in {"post", "transfer"} /\ agrees
        /\ o.bodies[1] \in CommonCodes
        /\ Tail(o.bodies) = <<"SystemInternalError">>

\* The tables: a row is the movement between its balances.
LedgerOK ==
  /\ ledger \in Seq(LedgerRow)
  /\ \A i \in DOMAIN ledger :
       ledger[i].after = CalculateNewBalance(ledger[i].before, ledger[i].type,
                                             ledger[i].amount)
PostingOK ==
  posting # NoRow =>
    /\ posting \in [account : Accounts, at : Nat, type : {"debit"}, amount : Nat,
                    before : Nat, after : Nat]
    /\ posting.after = posting.before - posting.amount
TablesOK ==
  /\ now \in Instants /\ deleted \subseteq Deletable /\ events \in 0..MaxEvents
  /\ balance \in [Accounts -> Nat]
  /\ LedgerOK /\ PostingOK

Metering == {"metricsUser", "metricsAccount", "metricsRows"}

\* The statements of a call are those of its kind.
Placed(r) ==
  /\ call[r] \in Call
  /\ pc[r] \in {"idle", "done", "findUser", "findTarget", "findAccounts", "findAccount",
                "readRows", "findActivity", "service", "insert", "transactions",
                "transaction"} \union Metering
  /\ pc[r] = "findUser" => K(r) \in {"statement", "summary"}
  /\ pc[r] \in {"findTarget", "findAccounts"} => K(r) = "summary"
  /\ pc[r] = "findAccount" => K(r) \in OwnAccount \union {"statement"}
  /\ pc[r] = "readRows" => K(r) = "statement"
  /\ pc[r] \in Metering => K(r) \in AccountReports
  /\ pc[r] = "findActivity" => K(r) \in {"activity", "myActivity"}
  /\ pc[r] = "service" =>
       K(r) \notin AccountReports \union OwnAccount \union {"summary", "activity", "myActivity"}
  /\ pc[r] = "insert" => K(r) = "testData"
  /\ pc[r] \in {"transactions", "transaction"} => K(r) = pc[r]

\* Nothing of an account is read or answered before its caller is authorized.
Authorized(r) ==
  /\ K(r) \in OwnAccount /\ (pc[r] \in {"transactions", "transaction", "insert"} \/ Answered(r)) =>
       Owner[A(r)] = U(r)
  /\ K(r) \in AccountReports /\ (pc[r] \in {"readRows", "metricsRows"} \/ Answered(r)) =>
       Owner[A(r)] = U(r) \/ U(r) \in Admins
  /\ K(r) = "statement" /\ pc[r] \in Metering =>
       Owner[A(r)] = U(r) \/ U(r) \in Admins

\* Why an account may be said not to be found
Missing(r) ==
  /\ K(r) \in OwnAccount => A(r) \in deleted
  /\ K(r) \in AccountReports \union {"summary"} =>
       {U(r), call[r].target} \intersect deleted # {}
Told(r) ==
  /\ pc[r] # "done" => out[r] = Unanswered
  /\ pc[r] = "done" =>
       /\ out[r].status \in StatusesSent /\ Explained(K(r), out[r])
       /\ out[r].bodies = <<"AccountNotFound">> => Missing(r)

\* The rows read
Lines == [id : Nat, status : {"pending", "completed"}]
Shown(r) ==
  /\ pc[r] \notin {"done", "insert"} \union Metering => view[r] = <<>>
  /\ K(r) \notin {"activity", "myActivity"} =>
       /\ view[r] \in Seq(Lines) /\ Ids(view[r]) \subseteq DOMAIN ledger
  /\ Answered(r) /\ K(r) \in {"transactions", "transaction"} =>
       \A i \in Ids(view[r]) : ledger[i].account = A(r)

\* The rows of a statement, from the moment its period is known to be over
PeriodOver(r) == Period(r).to <= now
RowsKnown(r) ==
  /\ \A i \in Ids(view[r]) : InPeriod(r, i)
  /\ \A i \in DOMAIN ledger :
       InPeriod(r, i) => i \in Ids(view[r]) \/ ledger[i].kept >= Period(r).to
  /\ \A k \in DOMAIN view[r] :
       view[r][k].status = "completed" => ledger[view[r][k].id].status = "completed"
Dated(r) ==
  K(r) = "statement" =>
    /\ (pc[r] \notin {"idle", "done"} \/ Answered(r)) => PeriodOver(r)
    /\ pc[r] \in Metering \/ Answered(r) => RowsKnown(r)

\* The rows its metrics count
RowsCounted(r) ==
  /\ Completed(view[r]) \subseteq metrics[r]
  /\ \A i \in metrics[r] \ Completed(view[r]) :
       i \in DOMAIN ledger /\ (i \in Ids(view[r]) \/ ledger[i].kept >= Period(r).to)
Counted(r) ==
  /\ pc[r] # "done" => metrics[r] = NoMetrics
  /\ K(r) = "statement" /\ Answered(r) /\ metrics[r] # NoMetrics => RowsCounted(r)

\* Test data: the rows inserted, and those still to be, make one history with a
\* gap where an insert failed.
Asked(r) == AtLeast(1, AtMost(call[r].number, MaxTestRows))
RowOf(r, k) == ledger[view[r][k].id]
RowsMade(r) ==
  /\ \A k \in DOMAIN view[r] :
       /\ RowOf(r, k).by = r
       /\ RowOf(r, k).type = "debit" => RowOf(r, k).after >= Threshold
       /\ RowOf(r, k).status = "completed"
  /\ \A k \in 1..(Len(view[r]) - 1) : RowOf(r, k).at <= RowOf(r, k + 1).at
  /\ Len(view[r]) <= Asked(r)
  /\ Len(view[r]) = Asked(r) =>
       \A k \in 1..(Len(view[r]) - 1) : RowOf(r, k).after = RowOf(r, k + 1).before
RowsToCome(r) ==
  /\ IsHistory(history[r]) /\ Len(history[r]) >= 1
  /\ Len(view[r]) + Len(history[r]) <= Asked(r)
  /\ Len(view[r]) # 0 => RowOf(r, Len(view[r])).at <= history[r][1].at
  /\ Len(view[r]) + Len(history[r]) = Asked(r) =>
       /\ \A k \in 1..(Len(view[r]) - 1) : RowOf(r, k).after = RowOf(r, k + 1).before
       /\ Len(view[r]) # 0 => RowOf(r, Len(view[r])).after = history[r][1].before
Made(r) ==
  K(r) = "testData" =>
    /\ pc[r] = "insert" \/ Answered(r) => RowsMade(r)
    /\ pc[r] = "insert" => RowsToCome(r)

Serving(r) ==
  /\ Placed(r) /\ Authorized(r) /\ Told(r) /\ Shown(r)
  /\ Dated(r) /\ Counted(r) /\ Made(r)
LocalsOK ==
  /\ DOMAIN pc = Requests /\ DOMAIN call = Requests /\ DOMAIN view = Requests
  /\ DOMAIN metrics = Requests /\ DOMAIN history = Requests /\ DOMAIN out = Requests
ReportsInv == LimiterInv /\ TablesOK /\ LocalsOK /\ \A r \in Requests : Serving(r)

-----------------------------------------------------------------------------
(* Responses *)

LEMMA OneBody ==
  ASSUME NEW kind, NEW e, NEW w \in Answers(e)
  PROVE  LET o == Response(w)
         IN /\ o.status \in StatusesSent /\ Explained(kind, o)
            /\ o.status = 200 => e = "ok"
            /\ o.bodies = <<"AccountNotFound">> => e \in {"accountNotFound", "notFound"}
<1>1. CASE e = "ok"
  <2>1. Response(w) = [status |-> 200, bodies |-> <<"ok">>]
    BY <1>1, ResponseToOne DEF Answers, Succeed
  <2> QED BY <1>1, <2>1 DEF Explained, StatusesSent
<1>2. CASE e # "ok" /\ w = NotAllowed
  <2>1. Response(w) = [status |-> 405, bodies |-> <<"ValidationGeneral">>]
    BY <1>2, ResponseToOne DEF NotAllowed
  <2> QED BY <2>1 DEF Explained, StatusesSent
<1>3. CASE e # "ok" /\ w # NotAllowed
  <2>1. PICK c \in CodesFor(e) : w = SendError(c)
    BY <1>3 DEF Answers
  <2>2. Response(w) = [status |-> GetHTTPStatus(c), bodies |-> <<c>>]
    BY <2>1, ResponseToOne DEF SendError
  <2>3. GetHTTPStatus(c) \in StatusesSent \ {200}
    BY DEF GetHTTPStatus, StatusesSent
  <2>4. c # "ok" /\ (c = "AccountNotFound" => e \in {"accountNotFound", "notFound"})
    BY DEF CodesFor, Codes, BadRequest, Unauthorized, Forbidden, NotFound, Conflict,
           Unprocessable, ServerErrors, Northwind
  <2> QED BY <2>2, <2>3, <2>4 DEF Explained
<1> QED BY <1>1, <1>2, <1>3

LEMMA TwoBodies ==
  ASSUME NEW kind \in {"post", "transfer"}, NEW w \in AnswersTwice
  PROVE  LET o == Response(w)
         IN /\ o.status \in StatusesSent /\ Explained(kind, o)
            /\ o.status # 200 /\ o.bodies # <<"AccountNotFound">>
<1>1. PICK c \in CommonCodes : w = SendError(c) \o SendSystemError
  BY DEF AnswersTwice
<1>2. w = <<[status |-> GetHTTPStatus(c), code |-> c],
           [status |-> 500, code |-> "SystemInternalError"]>>
  <2>1. \A x, y : <<x>> \o <<y>> = <<x, y>>
    BY TwoInOne
  <2> QED BY <1>1, <2>1 DEF SendError, SendSystemError, WrapSystemError, JSON
<1>3. Response(w) = [status |-> GetHTTPStatus(c), bodies |-> <<c, "SystemInternalError">>]
  <2>1. DOMAIN w = {1, 2} /\ w[1].status = GetHTTPStatus(c)
        /\ w[1].code = c /\ w[2].code = "SystemInternalError"
    BY <1>2
  <2>2. [i \in {1, 2} |-> w[i].code] = <<c, "SystemInternalError">>
    BY <2>1
  <2> QED BY <2>1, <2>2 DEF Response
<1>4. GetHTTPStatus(c) \in StatusesSent \ {200}
  BY DEF GetHTTPStatus, StatusesSent
<1>5. c # "ok"
  BY DEF CommonCodes
<1>6. Tail(<<c, "SystemInternalError">>) = <<"SystemInternalError">>
      /\ <<c, "SystemInternalError">> # <<"AccountNotFound">>
  OBVIOUS
<1> QED BY <1>3, <1>4, <1>5, <1>6 DEF Explained

LEMMA Replies ==
  ASSUME NEW kind \in Kinds, NEW e, kind # "router" \/ e # "ok"
  PROVE  LET o == Response(Writes(Handlers[kind], e))
         IN /\ o.status \in StatusesSent /\ Explained(kind, o)
            /\ o.status = 200 => e = "ok"
            /\ o.bodies = <<"AccountNotFound">> => e \in {"accountNotFound", "notFound"}
<1> DEFINE w == Writes(Handlers[kind], e)
<1>1. \/ Writes(Handlers[kind], e) \in Answers(e)
      \/ kind \in {"post", "transfer"} /\ Writes(Handlers[kind], e) \in AnswersTwice
  BY Written, Zenon
<1> HIDE DEF w
<1>2. CASE w \in Answers(e)
  BY <1>2, OneBody DEF w
<1>3. CASE kind \in {"post", "transfer"} /\ w \in AnswersTwice
  BY <1>3, TwoBodies DEF w
<1> QED BY <1>1, <1>2, <1>3 DEF w

LEMMA RateLimited ==
  ASSUME NEW kind
  PROVE  LET o == Response(SendError("SystemRateLimitExceeded"))
         IN /\ o.status \in StatusesSent \ {200} /\ Explained(kind, o)
            /\ o.bodies # <<"AccountNotFound">>
<1>1. SendError("SystemRateLimitExceeded") \in Answers("other")
  BY DEF Answers, CodesFor, Codes
<1> QED BY <1>1, OneBody

-----------------------------------------------------------------------------
(* A request while others write *)

LEMMA PeriodType ==
  ASSUME NEW r \in Requests, Placed(r)
  PROVE  Period(r).from \in Int /\ Period(r).to \in Int
<1>1. call[r].number \in Int /\ call[r].from \in Int /\ call[r].to \in Int
  BY DEF Placed, Call
<1>2. Month \in Int /\ Second \in Int
  BY ReportsAssumption
<1>3. ASSUME NEW m \in {1, 3}
      PROVE  (call[r].number - 1) * m * Month \in Int /\ m * Month \in Int
  BY <1>1, <1>2
<1>4. ASSUME NEW m \in {1, 3}
      PROVE  (call[r].number - 1) * m * Month + m * Month - Second \in Int
  BY <1>2, <1>3
<1> QED BY <1>1, <1>3, <1>4 DEF Period, CalculateDateRange

\* What the writes of others leave: rows keep everything but a pending status,
\* new ones are committed now, and who is deleted stays deleted.
SameRow(i) ==
  /\ ledger'[i].account = ledger[i].account /\ ledger'[i].at = ledger[i].at
  /\ ledger'[i].type = ledger[i].type /\ ledger'[i].amount = ledger[i].amount
  /\ ledger'[i].before = ledger[i].before /\ ledger'[i].after = ledger[i].after
  /\ ledger'[i].kept = ledger[i].kept /\ ledger'[i].by = ledger[i].by
  /\ ledger[i].status = "completed" => ledger'[i].status = "completed"
Evolves ==
  /\ now' >= now /\ deleted \subseteq deleted'
  /\ DOMAIN ledger \subseteq DOMAIN ledger'
  /\ \A i \in DOMAIN ledger : SameRow(i)
  /\ \A i \in DOMAIN ledger' \ DOMAIN ledger : ledger'[i].kept = now
StaysPut(r) ==
  /\ pc'[r] = pc[r] /\ call'[r] = call[r] /\ view'[r] = view[r]
  /\ metrics'[r] = metrics[r] /\ history'[r] = history[r] /\ out'[r] = out[r]

LEMMA Undisturbed ==
  ASSUME TablesOK, Evolves, now' \in Int, NEW r \in Requests, Serving(r), StaysPut(r)
  PROVE  Serving(r)'
<1> USE DEF StaysPut
<1>0. now \in Int /\ now' \in Int /\ now <= now'
  BY ReportsAssumption DEF TablesOK, Evolves
<1>1. Placed(r)'
  BY DEF Serving, Placed, K
<1>2. Authorized(r)'
  BY DEF Serving, Authorized, K, A, U, Answered
<1>3. Told(r)'
  <2>1. Missing(r) => Missing(r)'
    BY DEF Missing, K, A, U, Evolves
  <2> QED BY <2>1 DEF Serving, Told, K
<1>4. Shown(r)'
  <2>1. Ids(view[r])' = Ids(view[r])
    BY DEF Ids
  <2>2. ASSUME Ids(view[r]) \subseteq DOMAIN ledger, NEW i \in Ids(view[r])
        PROVE  ledger'[i].account = ledger[i].account
    BY <2>2 DEF Evolves, SameRow
  <2>3. K(r)' = K(r) /\ A(r)' = A(r) /\ Answered(r)' = Answered(r)
    BY DEF K, A, Answered
  <2>4. DOMAIN ledger \subseteq DOMAIN ledger'
    BY DEF Evolves
  <2> QED BY <2>1, <2>2, <2>3, <2>4 DEF Serving, Shown
<1>5. Period(r)' = Period(r) /\ Period(r).from \in Int /\ Period(r).to \in Int
  BY PeriodType DEF Serving, Period, CalculateDateRange, K
<1>6. PeriodOver(r) => PeriodOver(r)'
  BY <1>0, <1>5 DEF PeriodOver
<1>7. ASSUME NEW i \in DOMAIN ledger
      PROVE  InPeriod(r, i)' = InPeriod(r, i)
  BY <1>5 DEF InPeriod, A, Evolves, SameRow
<1>8. ASSUME PeriodOver(r), NEW i \in DOMAIN ledger', i \notin DOMAIN ledger
      PROVE  ledger'[i].kept >= Period(r).to
  BY <1>0, <1>5, <1>8 DEF Evolves, PeriodOver
<1>9. Ids(view[r])' = Ids(view[r]) /\ Completed(view[r])' = Completed(view[r])
  BY DEF Ids, Completed
<1>10. K(r)' = K(r) /\ Answered(r)' = Answered(r) /\ (call[r].number)' = call[r].number
  BY DEF K, Answered
<1>11. Dated(r)'
  <2>1. ASSUME K(r) = "statement", PeriodOver(r), RowsKnown(r)
        PROVE  RowsKnown(r)'
    <3>1. Ids(view[r]) \subseteq DOMAIN ledger
      BY <2>1 DEF Serving, Shown
    <3>2. \A i \in Ids(view[r]) : InPeriod(r, i)'
      BY <1>7, <2>1, <3>1 DEF RowsKnown
    <3>3. ASSUME NEW i \in DOMAIN ledger', InPeriod(r, i)'
          PROVE  i \in Ids(view[r]) \/ ledger'[i].kept >= Period(r).to
      <4>1. CASE i \in DOMAIN ledger
        BY <1>7, <2>1, <3>3, <4>1 DEF RowsKnown, Evolves, SameRow
      <4> QED BY <1>8, <2>1, <4>1
    <3>4. ASSUME NEW k \in DOMAIN view[r], view[r][k].status = "completed"
          PROVE  ledger'[view[r][k].id].status = "completed"
      <4>1. view[r][k].id \in DOMAIN ledger
        BY <3>1 DEF Ids
      <4> QED BY <2>1, <3>4, <4>1 DEF RowsKnown, Evolves, SameRow
    <3> QED BY <1>5, <1>9, <3>2, <3>3, <3>4 DEF RowsKnown
  <2> QED BY <1>6, <1>10, <2>1 DEF Serving, Dated, Metering
<1>12. Counted(r)'
  <2>1. ASSUME K(r) = "statement", PeriodOver(r), RowsCounted(r)
        PROVE  RowsCounted(r)'
    BY <1>5, <1>9, <2>1 DEF RowsCounted, Evolves, SameRow
  <2> QED BY <1>10, <2>1 DEF Serving, Counted, Dated
<1>13. Made(r)'
  <2>1. ASSUME K(r) = "testData"
        PROVE  \A k \in DOMAIN view[r] :
                 /\ view[r][k].id \in DOMAIN ledger
                 /\ RowOf(r, k)'.by = RowOf(r, k).by /\ RowOf(r, k)'.type = RowOf(r, k).type
                 /\ RowOf(r, k)'.after = RowOf(r, k).after
                 /\ RowOf(r, k)'.before = RowOf(r, k).before
                 /\ RowOf(r, k)'.at = RowOf(r, k).at
                 /\ RowOf(r, k).status = "completed" => RowOf(r, k)'.status = "completed"
    BY <2>1 DEF Serving, Shown, Ids, RowOf, Evolves, SameRow
  <2>2. Asked(r)' = Asked(r)
    BY DEF Asked
  <2>3. ASSUME K(r) = "testData"
        PROVE  /\ DOMAIN view[r] = 1..Len(view[r]) /\ Len(view[r]) \in Nat
    BY <2>3 DEF Serving, Shown
  <2>4. ASSUME K(r) = "testData", RowsMade(r)
        PROVE  RowsMade(r)'
    <3>1. \A k \in 1..(Len(view[r]) - 1) : k \in DOMAIN view[r] /\ k + 1 \in DOMAIN view[r]
      BY <2>3, <2>4
    <3>2. \A k \in 1..(Len(view[r]) - 1) :
            /\ RowOf(r, k)'.at = RowOf(r, k).at /\ RowOf(r, k + 1)'.at = RowOf(r, k + 1).at
            /\ RowOf(r, k)'.after = RowOf(r, k).after
            /\ RowOf(r, k + 1)'.before = RowOf(r, k + 1).before
      BY <2>1, <2>4, <3>1
    <3>3. (view[r])' = view[r]
      OBVIOUS
    <3>4. \A k \in DOMAIN view[r] :
            /\ RowOf(r, k)'.by = r
            /\ RowOf(r, k)'.type = "debit" => RowOf(r, k)'.after >= Threshold
            /\ RowOf(r, k)'.status = "completed"
      BY <2>1, <2>4 DEF RowsMade
    <3> QED BY <2>2, <2>4, <3>2, <3>3, <3>4 DEF RowsMade
  <2>5. ASSUME K(r) = "testData", RowsToCome(r)
        PROVE  RowsToCome(r)'
    <3> DEFINE n == Len(view[r])
    <3>1. n # 0 => n \in DOMAIN view[r]
      BY <2>3, <2>5
    <3>2. \A k \in 1..(n - 1) : k \in DOMAIN view[r] /\ k + 1 \in DOMAIN view[r]
      BY <2>3, <2>5
    <3>3. /\ n # 0 => RowOf(r, n)'.at = RowOf(r, n).at /\ RowOf(r, n)'.after = RowOf(r, n).after
          /\ \A k \in 1..(n - 1) : /\ RowOf(r, k)'.after = RowOf(r, k).after
                                  /\ RowOf(r, k + 1)'.before = RowOf(r, k + 1).before
      BY <2>1, <2>5, <3>1, <3>2
    <3> QED BY <2>2, <2>5, <3>3 DEF RowsToCome
  <2> QED BY <1>10, <2>4, <2>5 DEF Serving, Made
<1> QED BY <1>1, <1>2, <1>3, <1>4, <1>11, <1>12, <1>13 DEF Serving

-----------------------------------------------------------------------------
(* How a request goes on *)

Turn(r) == LocalsOK' /\ \A q \in Requests \ {r} : StaysPut(q)

LEMMA Alone ==
  ASSUME ReportsInv, NEW r \in Requests, UNCHANGED tables, Turn(r), Serving(r)',
         LimiterInv', events' \in 0..MaxEvents
  PROVE  ReportsInv'
<1>1. TablesOK'
  BY DEF ReportsInv, TablesOK, LedgerOK, PostingOK, tables
<1>2. Evolves /\ now' \in Int
  BY ReportsAssumption DEF ReportsInv, TablesOK, Evolves, SameRow, tables
<1>3. \A q \in Requests \ {r} : Serving(q)'
  BY <1>2, Undisturbed DEF ReportsInv, Turn
<1> QED BY <1>1, <1>3 DEF ReportsInv, Turn

\* Those who may be answered with success
CanAnswer(r) ==
  /\ K(r) \notin {"transactions", "transaction", "testData", "metrics", "router"}
  /\ K(r) = "clear" => Owner[A(r)] = U(r)
  /\ K(r) = "statement" => RowsKnown(r) /\ (Owner[A(r)] = U(r) \/ U(r) \in Admins)

\* A statement looks at the tables and leaves them alone.
Looking(r) ==
  /\ LocalsOK /\ TablesOK /\ Serving(r)
  /\ pc[r] \notin {"idle", "done"}
  /\ UNCHANGED <<tables, call>>

LEMMA SameTables ==
  ASSUME NEW r \in Requests, Looking(r)
  PROVE  /\ now' = now /\ deleted' = deleted /\ ledger' = ledger
         /\ K(r)' = K(r) /\ A(r)' = A(r) /\ U(r)' = U(r) /\ call'[r] = call[r]
         /\ Period(r)' = Period(r) /\ Asked(r)' = Asked(r)
         /\ Missing(r)' = Missing(r) /\ PeriodOver(r)' = PeriodOver(r)
         /\ \A i : InPeriod(r, i)' = InPeriod(r, i)
<1>1. now' = now /\ deleted' = deleted /\ ledger' = ledger /\ call'[r] = call[r]
  BY DEF Looking, tables
<1>2. K(r)' = K(r) /\ A(r)' = A(r) /\ U(r)' = U(r)
  BY <1>1 DEF K, A, U
<1>3. Period(r)' = Period(r) /\ Asked(r)' = Asked(r)
  BY <1>1, <1>2 DEF Period, CalculateDateRange, Asked
<1> QED BY <1>1, <1>2, <1>3 DEF Missing, PeriodOver, InPeriod

LEMMA Failing ==
  ASSUME NEW r \in Requests, Looking(r), NEW e, Fail(r, e),
         e = "ok" => CanAnswer(r),
         e \in {"accountNotFound", "notFound"} => Missing(r)
  PROVE  Serving(r)' /\ Turn(r)
<1> USE SameTables
<1>0. /\ pc' = [pc EXCEPT ![r] = "done"] /\ UNCHANGED <<view, metrics, history>>
      /\ out' = [out EXCEPT ![r] = Response(Writes(Handlers[K(r)], e))]
  BY DEF Fail, Send, Go
<1>1. /\ pc'[r] = "done" /\ out'[r] = Response(Writes(Handlers[K(r)], e))
      /\ view'[r] = view[r] /\ metrics'[r] = metrics[r]
  BY <1>0 DEF Looking, LocalsOK
<1>2. Turn(r)
  BY <1>0 DEF Looking, LocalsOK, Turn, StaysPut
<1>3. K(r) \in Kinds
  BY DEF Looking, Serving, Placed, Call, K
<1>4. K(r) # "router" \/ e # "ok"
  BY DEF CanAnswer
<1>5. /\ out'[r].status \in StatusesSent /\ Explained(K(r), out'[r])
      /\ out'[r].status = 200 => e = "ok"
      /\ out'[r].bodies = <<"AccountNotFound">> => e \in {"accountNotFound", "notFound"}
  <2> DEFINE o == Response(Writes(Handlers[K(r)], e))
  <2>1. /\ o.status \in StatusesSent /\ Explained(K(r), o)
        /\ o.status = 200 => e = "ok"
        /\ o.bodies = <<"AccountNotFound">> => e \in {"accountNotFound", "notFound"}
    BY <1>3, <1>4, Replies, Zenon
  <2> QED BY <1>1, <2>1
<1>6. Answered(r)' => CanAnswer(r)
  BY <1>5 DEF Answered
<1>7. Placed(r)'
  BY <1>1 DEF Looking, Serving, Placed, Metering
<1>8. Authorized(r)'
  BY <1>1, <1>6 DEF Authorized, CanAnswer, OwnAccount, AccountReports, Metering
<1>9. Told(r)'
  BY <1>1, <1>5 DEF Told
<1>10. Shown(r)'
  BY <1>1, <1>6 DEF Shown, CanAnswer, Looking, Serving
<1>11. Dated(r)'
  <2>1. K(r) = "statement" => PeriodOver(r)
    BY DEF Looking, Serving, Dated
  <2>2. RowsKnown(r) => RowsKnown(r)'
    BY <1>1 DEF RowsKnown
  <2> QED BY <1>1, <1>6, <2>1, <2>2 DEF Dated, CanAnswer, Metering
<1>12. Counted(r)'
  BY <1>1 DEF Counted, Looking, Serving
<1>13. Made(r)'
  BY <1>1, <1>6 DEF Made, CanAnswer
<1> QED BY <1>2, <1>7, <1>8, <1>9, <1>10, <1>11, <1>12, <1>13 DEF Serving

LEMMA Passing ==
  ASSUME NEW r \in Requests, Looking(r), NEW s, Then(r, s), Placed(r)', Authorized(r)',
         s \notin {"idle", "done", "insert"}, pc[r] # "insert",
         s \in Metering <=> pc[r] \in Metering
  PROVE  Serving(r)' /\ Turn(r)
<1> USE SameTables
<1>0. pc' = [pc EXCEPT ![r] = s] /\ UNCHANGED <<view, metrics, history, out>>
  BY DEF Then, Go
<1>1. /\ pc'[r] = s /\ view'[r] = view[r] /\ metrics'[r] = metrics[r] /\ out'[r] = out[r]
  BY <1>0 DEF Looking, LocalsOK
<1>2. Turn(r)
  BY <1>0 DEF Looking, LocalsOK, Turn, StaysPut
<1>3. ~Answered(r)'
  BY <1>1 DEF Answered
<1>4. Told(r)'
  BY <1>1 DEF Told, Looking, Serving
<1>5. Shown(r)'
  BY <1>1, <1>3 DEF Shown, Looking, Serving
<1>6. Dated(r)'
  <2>1. K(r) = "statement" => PeriodOver(r)
    BY DEF Looking, Serving, Dated
  <2>2. RowsKnown(r) => RowsKnown(r)'
    BY <1>1 DEF RowsKnown
  <2>3. K(r) = "statement" /\ s \in Metering => RowsKnown(r)
    BY DEF Looking, Serving, Dated
  <2> QED BY <1>1, <1>3, <2>1, <2>2, <2>3 DEF Dated
<1>7. Counted(r)'
  BY <1>1 DEF Counted, Looking, Serving
<1>8. Made(r)'
  BY <1>1, <1>3 DEF Made
<1> QED BY <1>2, <1>4, <1>5, <1>6, <1>7, <1>8 DEF Serving

\* Another row of a call's kind is placed where its kind is.
LEMMA PlacedNext ==
  ASSUME NEW r \in Requests, Looking(r), NEW s, pc' = [pc EXCEPT ![r] = s],
         \/ s = "done"
         \/ s \in {"findTarget", "findAccounts"} /\ K(r) = "summary"
         \/ s = "findAccount" /\ K(r) = "statement"
         \/ s = "readRows" /\ K(r) = "statement"
         \/ s \in Metering /\ K(r) \in AccountReports
         \/ s = "insert" /\ K(r) = "testData"
         \/ s \in {"transactions", "transaction"} /\ K(r) = s
  PROVE  Placed(r)'
<1>1. pc'[r] = s
  BY DEF Looking, LocalsOK
<1>2. call[r] \in Call /\ call'[r] = call[r] /\ K(r)' = K(r)
  BY SameTables DEF Looking, Serving, Placed
<1> QED BY <1>1, <1>2 DEF Placed, Metering, OwnAccount, AccountReports

LEMMA Sees ==
  ASSUME ReportsInv, NEW r \in Requests, pc[r] \notin {"idle", "done"},
         UNCHANGED <<limiter, tables, events, call>>
  PROVE  Looking(r)
  BY DEF ReportsInv, Looking

\* A statement that fails is answered with an error that is nobody's fault.
LEMMA FailingOther ==
  ASSUME NEW r \in Requests, Looking(r), Fail(r, "other")
  PROVE  Serving(r)' /\ Turn(r)
  BY Failing

LEMMA CallServiceStep ==
  ASSUME ReportsInv, NEW r \in Requests, CallService(r)
  PROVE  Serving(r)' /\ Turn(r)
<1>1. pc[r] = "service" /\ Looking(r)
  BY Sees DEF CallService, Statement
<1>2. K(r) \in Kinds
        /\ K(r) \notin AccountReports \union OwnAccount \union {"summary", "activity", "myActivity"}
  BY <1>1 DEF Looking, Serving, Placed, Call, K
<1>3. CASE Fail(r, "other")
  BY <1>1, <1>3, FailingOther
<1>4. ASSUME NEW err \in Outcomes(K(r)), Fail(r, err)
      PROVE  Serving(r)' /\ Turn(r)
  <2>1. K(r) = "router" => err # "ok"
    BY <1>4 DEF Outcomes, Handlers, EchoRouter
  <2>2. err = "ok" => CanAnswer(r)
    BY <1>2, <2>1 DEF CanAnswer, OwnAccount, AccountReports
  <2>3. Missing(r)
    BY <1>2 DEF Missing
  <2> QED BY <1>1, <1>4, <2>2, <2>3, Failing
<1> QED BY <1>3, <1>4 DEF CallService, Statement

LEMMA FindUserStep ==
  ASSUME ReportsInv, NEW r \in Requests, FindUser(r)
  PROVE  Serving(r)' /\ Turn(r)
<1>1. pc[r] = "findUser" /\ Looking(r) /\ K(r) \in {"statement", "summary"}
  <2>1. pc[r] = "findUser" /\ Looking(r)
    BY Sees DEF FindUser, Statement
  <2> QED BY <2>1 DEF Looking, Serving, Placed
<1>2. CASE Fail(r, "notFound") /\ U(r) \in deleted
  <2>1. Missing(r)
    BY <1>1, <1>2 DEF Missing, OwnAccount
  <2> QED BY <1>1, <1>2, <2>1, Failing
<1>3. CASE Fail(r, "other") \/ Fail(r, "unauthorized")
  BY <1>1, <1>3, Failing
<1>4. ASSUME NEW s, Then(r, s),
             \/ s = "findAccount" /\ K(r) = "statement"
             \/ s \in {"findAccounts", "findTarget"} /\ K(r) = "summary"
      PROVE  Serving(r)' /\ Turn(r)
  <2>1. pc' = [pc EXCEPT ![r] = s]
    BY <1>4 DEF Then, Go
  <2>2. Placed(r)'
    BY <1>1, <1>4, <2>1, PlacedNext
  <2>3. pc'[r] = s
    BY <2>1, <1>1 DEF Looking, LocalsOK
  <2>4. Authorized(r)'
    BY <1>1, <1>4, <2>3, SameTables DEF Authorized, Answered, Metering, OwnAccount
  <2>5. s \notin Metering /\ pc[r] \notin Metering /\ s \notin {"idle", "done", "insert"}
    BY <1>1, <1>4 DEF Metering
  <2> QED BY <1>1, <1>4, <2>2, <2>4, <2>5, Passing
<1> QED BY <1>1, <1>2, <1>3, <1>4 DEF FindUser, Statement

LEMMA FindTargetStep ==
  ASSUME ReportsInv, NEW r \in Requests, FindTarget(r)
  PROVE  Serving(r)' /\ Turn(r)
<1>1. pc[r] = "findTarget" /\ Looking(r) /\ K(r) = "summary"
  <2>1. pc[r] = "findTarget" /\ Looking(r)
    BY Sees DEF FindTarget, Statement
  <2> QED BY <2>1 DEF Looking, Serving, Placed
<1>2. CASE Fail(r, "notFound") /\ call[r].target \in deleted
  <2>1. Missing(r)
    BY <1>1, <1>2 DEF Missing, OwnAccount
  <2> QED BY <1>1, <1>2, <2>1, Failing
<1>3. CASE Fail(r, "other")
  BY <1>1, <1>3, Failing
<1>4. CASE Then(r, "findAccounts")
  <2>1. pc' = [pc EXCEPT ![r] = "findAccounts"]
    BY <1>4 DEF Then, Go
  <2>2. Placed(r)'
    BY <1>1, <2>1, PlacedNext
  <2>3. Authorized(r)'
    BY <1>1, SameTables DEF Authorized, OwnAccount, AccountReports
  <2>4. "findAccounts" \notin Metering /\ pc[r] \notin Metering
    BY <1>1 DEF Metering
  <2> QED BY <1>1, <1>4, <2>2, <2>3, <2>4, Passing
<1> QED BY <1>2, <1>3, <1>4 DEF FindTarget, Statement

LEMMA FindAccountsStep ==
  ASSUME ReportsInv, NEW r \in Requests, FindAccounts(r)
  PROVE  Serving(r)' /\ Turn(r)
<1>1. pc[r] = "findAccounts" /\ Looking(r) /\ K(r) = "summary"
  <2>1. pc[r] = "findAccounts" /\ Looking(r)
    BY Sees DEF FindAccounts, Statement
  <2> QED BY <2>1 DEF Looking, Serving, Placed
<1>2. CanAnswer(r)
  BY <1>1 DEF CanAnswer
<1> QED BY <1>1, <1>2, Failing DEF FindAccounts, Statement

\* What the services say of an account is true.
LEMMA Authorizing ==
  ASSUME NEW r \in Requests
  PROVE  /\ GetAndAuthorizeAccount(r) \in {"other", "unauthorized", "none"}
         /\ GetAndAuthorizeAccount(r) = "none" => Owner[A(r)] = U(r) \/ U(r) \in Admins
  BY DEF GetAndAuthorizeAccount

LEMMA MetricsErrorStep ==
  ASSUME NEW r \in Requests, Looking(r), K(r) \in AccountReports, pc[r] \in Metering, NEW err,
         MetricsError(r, err),
         err \in {"other", "unauthorized"} \/ (err = "notFound" /\ U(r) \in deleted)
  PROVE  Serving(r)' /\ Turn(r)
<1>1. CASE K(r) = "statement"
  <2>1. RowsKnown(r)
    BY <1>1 DEF Looking, Serving, Dated
  <2>2. Owner[A(r)] = U(r) \/ U(r) \in Admins
    BY <1>1 DEF Looking, Serving, Authorized, AccountReports
  <2>3. CanAnswer(r)
    BY <1>1, <2>1, <2>2 DEF CanAnswer
  <2> QED BY <1>1, <2>3, Failing DEF MetricsError
<1>2. CASE K(r) # "statement"
  <2>1. err = "notFound" => Missing(r)
    BY <1>2 DEF Missing, OwnAccount, AccountReports
  <2> QED BY <1>2, <2>1, Failing DEF MetricsError
<1> QED BY <1>1, <1>2

LEMMA MetricsUserStep ==
  ASSUME ReportsInv, NEW r \in Requests, MetricsUser(r)
  PROVE  Serving(r)' /\ Turn(r)
<1>1. pc[r] = "metricsUser" /\ Looking(r) /\ K(r) \in AccountReports /\ pc[r] \in Metering
  <2>1. pc[r] = "metricsUser" /\ Looking(r)
    BY Sees DEF MetricsUser, MetricsStatement
  <2> QED BY <2>1 DEF Looking, Serving, Placed, Metering
<1>2. CASE MetricsError(r, "other") \/ (MetricsError(r, "notFound") /\ U(r) \in deleted)
  BY <1>1, <1>2, MetricsErrorStep
<1>3. CASE Then(r, "metricsAccount")
  <2>1. pc' = [pc EXCEPT ![r] = "metricsAccount"]
    BY <1>3 DEF Then, Go
  <2>2. Placed(r)'
    BY <1>1, <2>1, PlacedNext DEF Metering
  <2>3. pc'[r] = "metricsAccount"
    BY <2>1, <1>1 DEF Looking, LocalsOK
  <2>4. Authorized(r)'
    BY <1>1, <2>3, SameTables DEF Authorized, Answered, Metering, OwnAccount, AccountReports, Looking, Serving
  <2>5. "metricsAccount" \in Metering
    BY DEF Metering
  <2>6. "metricsAccount" \notin {"idle", "done", "insert"} /\ pc[r] # "insert"
    BY <1>1
  <2> QED BY <1>1, <1>3, <2>2, <2>4, <2>5, <2>6, Passing, Zenon
<1> QED BY <1>2, <1>3 DEF MetricsUser, MetricsStatement

LEMMA MetricsAccountStep ==
  ASSUME ReportsInv, NEW r \in Requests, MetricsAccount(r)
  PROVE  Serving(r)' /\ Turn(r)
<1>1. pc[r] = "metricsAccount" /\ Looking(r) /\ K(r) \in AccountReports /\ pc[r] \in Metering
  <2>1. pc[r] = "metricsAccount" /\ Looking(r)
    BY Sees DEF MetricsAccount, MetricsStatement
  <2> QED BY <2>1 DEF Looking, Serving, Placed, Metering
<1>2. ASSUME NEW err \in {"other", "unauthorized"}, MetricsError(r, err)
      PROVE  Serving(r)' /\ Turn(r)
  BY <1>1, <1>2, MetricsErrorStep
<1>3. CASE Then(r, "metricsRows") /\ GetAndAuthorizeAccount(r) = "none"
  <2>1. pc' = [pc EXCEPT ![r] = "metricsRows"]
    BY <1>3 DEF Then, Go
  <2>2. Placed(r)'
    BY <1>1, <2>1, PlacedNext DEF Metering
  <2>3. Authorized(r)'
    BY <1>1, <1>3, Authorizing, SameTables DEF Authorized, OwnAccount, AccountReports
  <2>4. "metricsRows" \in Metering
    BY DEF Metering
  <2> QED BY <1>1, <1>3, <2>2, <2>3, <2>4, Passing
<1> QED BY <1>2, <1>3, Authorizing DEF MetricsAccount, MetricsStatement

-----------------------------------------------------------------------------
(* Reading the rows of a period *)

LEMMA SequenceOfMore ==
  ASSUME NEW S, NEW T, S \subseteq T, NEW s \in Seq(S)
  PROVE  s \in Seq(T)
<1>1. \A k \in 1..Len(s) : s[k] \in T
  OBVIOUS
<1>2. s = [k \in 1..Len(s) |-> s[k]] /\ Len(s) \in Nat
  OBVIOUS
<1> QED BY <1>1, <1>2

LEMMA RangeRead ==
  ASSUME TablesOK, NEW r \in Requests, NEW rows \in GetByDateRange(A(r), Period(r))
  PROVE  /\ rows \in Seq(Lines) /\ Ids(rows) \subseteq DOMAIN ledger
         /\ \A i \in DOMAIN ledger : i \in Ids(rows) <=> InPeriod(r, i)
         /\ Completed(rows) = {i \in Ids(rows) : ledger[i].status = "completed"}
         /\ \A k \in DOMAIN rows : rows[k].status = ledger[rows[k].id].status
         /\ \A k \in DOMAIN rows : rows[k].id \in Ids(rows)
<1> DEFINE ids == {i \in DOMAIN ledger : InPeriod(r, i)}
<1>1. rows \in Read(ids)
  BY DEF GetByDateRange, InPeriod
<1>2. ids \in SUBSET DOMAIN ledger /\ ledger \in Seq(LedgerRow)
  BY DEF TablesOK, LedgerOK
<1>3. DOMAIN ledger \subseteq Nat
  BY <1>2
<1> HIDE DEF ids
<1>4. /\ rows \in Seq([id : ids, status : {"pending", "completed"}])
      /\ Ids(rows) = ids
      /\ Completed(rows) = {i \in ids : ledger[i].status = "completed"}
      /\ \A k \in DOMAIN rows : rows[k].status = ledger[rows[k].id].status
  BY <1>1, <1>2, RowsRead
<1>5. rows \in Seq(Lines)
  <2>1. [id : ids, status : {"pending", "completed"}] \subseteq Lines
    BY <1>2, <1>3 DEF Lines
  <2> QED BY <1>4, <2>1, SequenceOfMore
<1>6. \A k \in DOMAIN rows : rows[k].id \in Ids(rows)
  BY DEF Ids
<1> QED BY <1>4, <1>5, <1>6 DEF ids

LEMMA ReadRowsStep ==
  ASSUME ReportsInv, NEW r \in Requests, ReadRows(r)
  PROVE  Serving(r)' /\ Turn(r)
<1>1. pc[r] = "readRows" /\ Looking(r) /\ K(r) = "statement"
  <2>1. pc[r] = "readRows" /\ Looking(r)
    BY Sees DEF ReadRows, Statement
  <2> QED BY <2>1 DEF Looking, Serving, Placed
<1>2. CASE Fail(r, "other")
  BY <1>1, <1>2, FailingOther
<1>3. ASSUME NEW rows \in GetByDateRange(A(r), Period(r)),
             view' = [view EXCEPT ![r] = rows], Go(r, "metricsUser"),
             UNCHANGED <<metrics, history, out>>
      PROVE  Serving(r)' /\ Turn(r)
  <2> USE <1>1, SameTables
  <2>1. /\ pc'[r] = "metricsUser" /\ view'[r] = rows /\ metrics'[r] = metrics[r]
        /\ out'[r] = out[r]
    BY <1>1, <1>3 DEF Looking, LocalsOK, Go
  <2>2. Turn(r)
    BY <1>1, <1>3 DEF Looking, LocalsOK, Turn, StaysPut, Go
  <2>3. /\ rows \in Seq(Lines) /\ Ids(rows) \subseteq DOMAIN ledger
        /\ \A i \in DOMAIN ledger : i \in Ids(rows) <=> InPeriod(r, i)
        /\ \A k \in DOMAIN rows : rows[k].status = ledger[rows[k].id].status
    BY <1>3, RangeRead DEF ReportsInv
  <2>4. Placed(r)'
    <3>1. pc' = [pc EXCEPT ![r] = "metricsUser"]
      BY <1>3 DEF Go
    <3>2. "metricsUser" \in Metering /\ K(r) \in AccountReports
      BY <1>1 DEF Metering, AccountReports
    <3> QED BY <1>1, <3>1, <3>2, PlacedNext
  <2>5. Authorized(r)'
    BY <1>1, <2>1 DEF Authorized, Answered, OwnAccount, AccountReports, Metering,
       Looking, Serving
  <2>6. Told(r)'
    BY <1>1, <2>1 DEF Told, Looking, Serving
  <2>7. Ids(view[r])' = Ids(rows) /\ ~Answered(r)' /\ (view[r])' = rows
    BY <2>1 DEF Ids, Answered
  <2>8. Shown(r)'
    BY <1>1, <2>1, <2>3, <2>7 DEF Shown, Metering
  <2>9. RowsKnown(r)'
    BY <1>1, <2>3, <2>7 DEF RowsKnown
  <2>10. Dated(r)'
    BY <1>1, <2>1, <2>9 DEF Dated, Looking, Serving
  <2>11. Counted(r)'
    BY <1>1, <2>1, <2>7 DEF Counted, Looking, Serving
  <2>12. Made(r)'
    BY <1>1 DEF Made
  <2> QED BY <2>2, <2>4, <2>5, <2>6, <2>8, <2>10, <2>11, <2>12 DEF Serving
<1> QED BY <1>1, <1>2, <1>3 DEF ReadRows, Statement

LEMMA Succeeded == Response(Succeed) = [status |-> 200, bodies |-> <<"ok">>]
  BY ResponseToOne DEF Succeed

\* A success says no account is missing, and its body is "ok".
LEMMA Succeeding ==
  ASSUME NEW r \in Requests, Looking(r), Send(r, Succeed)
  PROVE  pc'[r] = "done" /\ out'[r].status = 200 /\ Told(r)' /\ Placed(r)'
<1>1. pc'[r] = "done" /\ out'[r] = [status |-> 200, bodies |-> <<"ok">>]
  BY Succeeded DEF Send, Go, Looking, LocalsOK
<1>2. Told(r)'
  BY <1>1 DEF Told, Explained, StatusesSent
<1>3. Placed(r)'
  BY PlacedNext DEF Send, Go
<1> QED BY <1>1, <1>2, <1>3

LEMMA MetricsRowsStep ==
  ASSUME ReportsInv, NEW r \in Requests, MetricsRows(r)
  PROVE  Serving(r)' /\ Turn(r)
<1>1. pc[r] = "metricsRows" /\ Looking(r) /\ K(r) \in AccountReports /\ pc[r] \in Metering
  <2>1. pc[r] = "metricsRows" /\ Looking(r)
    BY Sees DEF MetricsRows, MetricsStatement
  <2> QED BY <2>1 DEF Looking, Serving, Placed, Metering
<1>2. CASE MetricsError(r, "other")
  BY <1>1, <1>2, MetricsErrorStep
<1>3. ASSUME NEW rows \in GetByDateRange(A(r), Period(r)),
             metrics' = [metrics EXCEPT ![r] = CalculateAccountMetrics(rows)],
             Send(r, Succeed), UNCHANGED <<view, history>>
      PROVE  Serving(r)' /\ Turn(r)
  <2> USE <1>1, SameTables
  <2>1. /\ pc'[r] = "done" /\ out'[r].status = 200 /\ Told(r)' /\ Placed(r)'
        /\ view'[r] = view[r] /\ metrics'[r] = Completed(rows)
    BY <1>1, <1>3, Succeeding DEF Looking, LocalsOK, CalculateAccountMetrics
  <2>2. Turn(r)
    BY <1>1, <1>3 DEF Looking, LocalsOK, Turn, StaysPut, Send, Go
  <2>3. /\ Ids(rows) \subseteq DOMAIN ledger
        /\ \A i \in DOMAIN ledger : i \in Ids(rows) <=> InPeriod(r, i)
        /\ Completed(rows) = {i \in Ids(rows) : ledger[i].status = "completed"}
    BY <1>3, RangeRead DEF ReportsInv
  <2>4. Authorized(r)'
    BY <1>1, <2>1 DEF Authorized, OwnAccount, AccountReports, Looking, Serving
  <2>5. Shown(r)'
    BY <1>1, <2>1 DEF Shown, AccountReports, Looking, Serving
  <2>6. K(r) = "statement" => RowsKnown(r) /\ PeriodOver(r)
    BY <1>1 DEF Dated, Looking, Serving
  <2>7. Ids(view[r])' = Ids(view[r]) /\ Completed(view[r])' = Completed(view[r])
    BY <2>1 DEF Ids, Completed
  <2>8. Dated(r)'
    <3>1. RowsKnown(r) => RowsKnown(r)'
      BY <2>1 DEF RowsKnown
    <3> QED BY <2>6, <3>1 DEF Dated
  <2>9. Counted(r)'
    <3>1. ASSUME K(r) = "statement"
          PROVE  RowsCounted(r)'
      <4>1. Ids(view[r]) \subseteq DOMAIN ledger
        BY <1>1 DEF Shown, AccountReports, Looking, Serving
      <4>2. Completed(view[r]) \subseteq Completed(rows)
        <5> SUFFICES ASSUME NEW i \in Completed(view[r])
                     PROVE  i \in Completed(rows)
          OBVIOUS
        <5>1. PICK k \in DOMAIN view[r] : view[r][k].status = "completed" /\ i = view[r][k].id
          BY DEF Completed
        <5>2. i \in Ids(view[r])
          BY <5>1 DEF Ids
        <5>3. InPeriod(r, i) /\ ledger[i].status = "completed" /\ i \in DOMAIN ledger
          BY <2>6, <3>1, <4>1, <5>1, <5>2 DEF RowsKnown
        <5> QED BY <2>3, <5>3
      <4>3. ASSUME NEW i \in Completed(rows) \ Completed(view[r])
            PROVE  i \in DOMAIN ledger /\ (i \in Ids(view[r]) \/ ledger[i].kept >= Period(r).to)
        <5>1. i \in DOMAIN ledger /\ InPeriod(r, i)
          BY <2>3
        <5> QED BY <2>6, <3>1, <5>1 DEF RowsKnown
      <4> QED BY <2>1, <2>7, <4>2, <4>3 DEF RowsCounted
    <3> QED BY <2>1, <3>1 DEF Counted
  <2>10. Made(r)'
    BY <1>1 DEF Made, AccountReports
  <2> QED BY <2>1, <2>2, <2>4, <2>5, <2>8, <2>9, <2>10 DEF Serving
<1> QED BY <1>1, <1>2, <1>3 DEF MetricsRows, MetricsStatement

-----------------------------------------------------------------------------
(* The listings *)

LEMMA Showing ==
  ASSUME NEW r \in Requests, Looking(r), NEW rows, Show(r, rows),
         K(r) \in {"activity", "myActivity", "transactions", "transaction"},
         K(r) \in {"transactions", "transaction"} =>
           /\ rows \in Seq(Lines)
           /\ \A i \in Ids(rows) : i \in DOMAIN ledger /\ ledger[i].account = A(r),
         pc[r] \in {"findActivity", "transactions", "transaction"}
  PROVE  Serving(r)' /\ Turn(r)
<1> USE SameTables
<1>1. /\ view' = [view EXCEPT ![r] = rows] /\ Send(r, Succeed)
      /\ UNCHANGED <<metrics, history>>
  BY DEF Show
<1>2. /\ pc'[r] = "done" /\ out'[r].status = 200 /\ Told(r)' /\ Placed(r)'
  BY <1>1, Succeeding
<1>3. view'[r] = rows /\ metrics'[r] = metrics[r] /\ Ids(view[r])' = Ids(rows)
  BY <1>1 DEF Looking, LocalsOK, Ids
<1>4. Turn(r)
  BY <1>1 DEF Looking, LocalsOK, Turn, StaysPut, Send, Go
<1>5. Authorized(r)'
  BY <1>2 DEF Authorized, OwnAccount, AccountReports, Looking, Serving, Placed
<1>6. Shown(r)'
  BY <1>2, <1>3 DEF Shown
<1>7. Dated(r)' /\ Counted(r)' /\ Made(r)'
  BY <1>2, <1>3 DEF Dated, Counted, Made
<1> QED BY <1>2, <1>4, <1>5, <1>6, <1>7 DEF Serving

LEMMA FindActivityStep ==
  ASSUME ReportsInv, NEW r \in Requests, FindActivity(r)
  PROVE  Serving(r)' /\ Turn(r)
<1>1. pc[r] = "findActivity" /\ Looking(r) /\ K(r) \in {"activity", "myActivity"}
  <2>1. pc[r] = "findActivity" /\ Looking(r)
    BY Sees DEF FindActivity, Statement
  <2> QED BY <2>1 DEF Looking, Serving, Placed
<1>2. CASE Fail(r, "other")
  BY <1>1, <1>2, FailingOther
<1>3. ASSUME NEW rows, Show(r, rows)
      PROVE  Serving(r)' /\ Turn(r)
  BY <1>1, <1>3, Showing
<1> QED BY <1>2, <1>3 DEF FindActivity, Statement

LEMMA Prefix ==
  ASSUME NEW S, NEW s \in Seq(S), NEW n \in Int
  PROVE  SubSeq(s, 1, AtMost(Len(s), n)) \in Seq(S)
<1> DEFINE m == AtMost(Len(s), n)
<1>1. m \in Int /\ m <= Len(s)
  BY DEF AtMost
<1>2. CASE m < 1
  <2>1. SubSeq(s, 1, m) = <<>>
    BY <1>1, <1>2
  <2>2. <<>> \in Seq(S)
    OBVIOUS
  <2> QED BY <2>1, <2>2, Zenon
<1>3. CASE m >= 1
  BY <1>1, <1>3
<1> QED BY <1>1, <1>2, <1>3

LEMMA PageRead ==
  ASSUME NEW c \in Call, ledger \in Seq(LedgerRow), NEW rows \in GetWithFilters(c)
  PROVE  /\ Page(c, rows) \in Seq(Lines)
         /\ \A i \in Ids(Page(c, rows)) :
              i \in DOMAIN ledger /\ ledger[i].account = c.account
<1> DEFINE from == IF c.row # 0 THEN ledger[c.row].at ELSE c.from
           ids == {i \in DOMAIN ledger :
                     /\ ledger[i].account = c.account
                     /\ c.type \in {"any", ledger[i].type}
                     /\ ledger[i].at >= from
                     /\ c.to = NoDate \/ ledger[i].at <= c.to + Day - Second}
           S == [id : ids, status : {"pending", "completed"}]
<1>1. PICK all \in Read(ids) :
        rows = SubSeq(all, 1, AtMost(Len(all), DefaultPageLimit + 1))
  BY DEF GetWithFilters
<1>2. ids \in SUBSET DOMAIN ledger /\ \A i \in ids : ledger[i].account = c.account
  OBVIOUS
<1>3. DOMAIN ledger \subseteq Nat
  OBVIOUS
<1> HIDE DEF ids
<1>4. all \in Seq(S)
  BY <1>1, <1>2, RowsRead
<1>5. rows \in Seq(S)
  <2>1. DefaultPageLimit + 1 \in Int
    BY ReportsAssumption
  <2> HIDE DEF S
  <2> QED BY <1>1, <1>4, <2>1, Prefix
<1> DEFINE rest == IF rows # <<>> /\ rows[1].id = c.row THEN Tail(rows) ELSE rows
<1>6. rest \in Seq(S)
  <2> HIDE DEF S
  <2> QED BY <1>5
<1>7. Page(c, rows) \in Seq(S)
  <2>1. c.number \in Int
    BY DEF Call
  <2>2. Page(c, rows) = SubSeq(rest, 1, AtMost(Len(rest), c.number))
    BY DEF Page
  <2> HIDE DEF S, rest
  <2> QED BY <1>6, <2>1, <2>2, Prefix
<1>8. S \subseteq Lines
  BY <1>2, <1>3 DEF Lines
<1>9. Page(c, rows) \in Seq(Lines)
  <2> HIDE DEF S
  <2> QED BY <1>7, <1>8, SequenceOfMore
<1>10. \A i \in Ids(Page(c, rows)) : i \in ids
  <2> DEFINE page == Page(c, rows)
  <2> HIDE DEF page
  <2>1. ASSUME page \in Seq(S)
        PROVE  \A i \in Ids(page) : i \in ids
    <3>1. \A k \in DOMAIN page : page[k] \in S
      <4> HIDE DEF S
      <4> QED BY <2>1
    <3> QED BY <3>1 DEF Ids
  <2> QED BY <1>7, <2>1 DEF page
<1> QED BY <1>2, <1>9, <1>10

LEMMA ListTransactionsStep ==
  ASSUME ReportsInv, NEW r \in Requests, ListTransactions(r)
  PROVE  Serving(r)' /\ Turn(r)
<1>1. pc[r] = "transactions" /\ Looking(r) /\ K(r) = "transactions" /\ call[r] \in Call
  <2>1. pc[r] = "transactions" /\ Looking(r)
    BY Sees DEF ListTransactions, Statement
  <2> QED BY <2>1 DEF Looking, Serving, Placed
<1>2. CASE Fail(r, "other")
  BY <1>1, <1>2, FailingOther
<1>3. ASSUME NEW rows \in GetWithFilters(call[r]), Show(r, Page(call[r], rows))
      PROVE  Serving(r)' /\ Turn(r)
  <2>1. /\ Page(call[r], rows) \in Seq(Lines)
        /\ \A i \in Ids(Page(call[r], rows)) :
             i \in DOMAIN ledger /\ ledger[i].account = A(r)
    BY <1>1, <1>3, PageRead DEF ReportsInv, TablesOK, LedgerOK, A
  <2> QED BY <1>1, <1>3, <2>1, Showing
<1> QED BY <1>2, <1>3 DEF ListTransactions, Statement

LEMMA GetTransactionStep ==
  ASSUME ReportsInv, NEW r \in Requests, GetTransaction(r)
  PROVE  Serving(r)' /\ Turn(r)
<1> DEFINE id == call[r].row
<1>1. pc[r] = "transaction" /\ Looking(r) /\ K(r) = "transaction"
  <2>1. pc[r] = "transaction" /\ Looking(r)
    BY Sees DEF GetTransaction, Statement
  <2> QED BY <2>1 DEF Looking, Serving, Placed
<1>2. CASE Fail(r, "other") \/ Fail(r, "transactionNotFound") \/ Fail(r, "otherAccount")
  BY <1>1, <1>2, Failing
<1>3. ASSUME id \in DOMAIN ledger, ledger[id].account = A(r),
             Show(r, <<[id |-> id, status |-> ledger[id].status]>>)
      PROVE  Serving(r)' /\ Turn(r)
  <2> DEFINE line == [id |-> id, status |-> ledger[id].status]
  <2>1. line \in Lines
    <3>1. ledger \in Seq(LedgerRow)
      BY DEF ReportsInv, TablesOK, LedgerOK
    <3>2. id \in Nat /\ ledger[id] \in LedgerRow
      BY <1>3, <3>1
    <3> QED BY <3>2 DEF Lines, LedgerRow
  <2>2. line.id = id
    OBVIOUS
  <2> HIDE DEF line
  <2>3. <<line>> \in Seq(Lines)
    BY <2>1
  <2>4. Ids(<<line>>) = {id}
    BY <2>2 DEF Ids
  <2>5. \A i \in Ids(<<line>>) : i \in DOMAIN ledger /\ ledger[i].account = A(r)
    BY <1>3, <2>4
  <2>6. Show(r, <<line>>)
    BY <1>3 DEF line
  <2> QED BY <1>1, <2>3, <2>5, <2>6, Showing
<1> QED BY <1>2, <1>3 DEF GetTransaction, Statement

-----------------------------------------------------------------------------
(* The account, and the test data generated for it *)

LEMMA AskedIs ==
  ASSUME NEW r \in Requests, call[r] \in Call
  PROVE  Asked(r) \in Nat \ {0}
<1>1. call[r].number \in Int /\ MaxTestRows \in Nat \ {0}
  BY ReportsAssumption DEF Call
<1> QED BY <1>1 DEF Asked, AtLeast, AtMost

LEMMA FirstDay ==
  ASSUME now \in Instants, NEW days \in Nat, days <= MaxTestDays
  PROVE  now - days * Day \in Nat
<1>1. now \in Nat /\ now >= MaxTestDays * Day /\ MaxTestDays \in Nat /\ Day \in Nat
  BY ReportsAssumption, DayIs
<1>2. PICK d \in Nat : MaxTestDays = days + d
  <2>1. MaxTestDays - days \in Nat
    BY <1>1
  <2> QED BY <1>1, <2>1
<1>3. MaxTestDays * Day = days * Day + d * Day
  BY <1>1, <1>2, Z3
<1>4. days * Day \in Nat /\ d * Day \in Nat
  BY <1>1
<1> QED BY <1>1, <1>3, <1>4

LEMMA GenerateStep ==
  ASSUME ReportsInv, NEW r \in Requests, Looking(r), pc[r] = "findAccount",
         K(r) = "testData", Owner[A(r)] = U(r), GenerateTestData(r)
  PROVE  Serving(r)' /\ Turn(r)
<1> DEFINE days == AtLeast(1, AtMost(call[r].span, MaxTestDays))
           histories == GenerateHistoricalTransactions(now - days * Day, now, balance[A(r)], Asked(r))
<1>1. call[r] \in Call /\ now \in Instants
  BY DEF Looking, Serving, Placed, TablesOK
<1>2. Asked(r) \in Nat \ {0}
  BY <1>1, AskedIs
<1>3. now - days * Day \in Nat /\ now \in Nat
  <2>1. call[r].span \in Int /\ MaxTestDays \in Nat \ {0} /\ now \in Nat
    BY <1>1, ReportsAssumption DEF Call
  <2>2. days \in Nat /\ days <= MaxTestDays
    BY <2>1 DEF AtLeast, AtMost
  <2> HIDE DEF days
  <2> QED BY <1>1, <2>1, <2>2, FirstDay
<1>4. balance[A(r)] \in Int
  <2>1. A(r) \in Accounts /\ balance \in [Accounts -> Nat]
    BY <1>1 DEF A, Call, Looking, TablesOK
  <2> QED BY <2>1
<1>5. CASE Fail(r, "panic")
  BY <1>5, Failing
<1>6. ASSUME NEW h \in histories, history' = [history EXCEPT ![r] = h], Go(r, "insert"),
             UNCHANGED <<view, metrics, out>>
      PROVE  Serving(r)' /\ Turn(r)
  <2> USE SameTables
  <2>1. IsHistory(h) /\ Len(h) = Asked(r)
    <3> HIDE DEF days
    <3>1. IsHistoryOf(h, Asked(r))
      BY <1>2, <1>3, <1>4, <1>6, HistoriesAre
    <3> QED BY <3>1 DEF IsHistoryOf
  <2>2. /\ pc'[r] = "insert" /\ history'[r] = h /\ view'[r] = view[r]
        /\ metrics'[r] = metrics[r] /\ out'[r] = out[r]
    BY <1>6 DEF Looking, LocalsOK, Go
  <2>3. Turn(r)
    BY <1>6 DEF Looking, LocalsOK, Turn, StaysPut, Go
  <2>4. Placed(r)'
    <3>1. pc' = [pc EXCEPT ![r] = "insert"]
      BY <1>6 DEF Go
    <3> QED BY <3>1, PlacedNext
  <2>5. Authorized(r)'
    BY <2>2 DEF Authorized, Answered, AccountReports
  <2>6. Told(r)'
    BY <2>2 DEF Told, Looking, Serving
  <2>7. view[r] = <<>> /\ Shown(r)'
    BY <2>2 DEF Shown, Ids, Answered, Looking, Serving, Metering
  <2>8. Dated(r)' /\ Counted(r)'
    BY <2>2 DEF Dated, Counted, Looking, Serving
  <2>9. Len(view[r])' = 0 /\ (DOMAIN view[r])' = {} /\ history'[r] = h /\ Asked(r)' = Asked(r)
    BY <2>2, <2>7
  <2>10. RowsMade(r)'
    BY <1>2, <2>9 DEF RowsMade
  <2>11. RowsToCome(r)'
    <3>1. Len(h) \in Nat /\ Len(h) >= 1
      BY <1>2, <2>1
    <3> QED BY <1>2, <2>1, <2>9, <3>1 DEF RowsToCome
  <2>12. Made(r)'
    BY <2>10, <2>11 DEF Made
  <2> QED BY <2>3, <2>4, <2>5, <2>6, <2>7, <2>8, <2>12 DEF Serving
<1> QED BY <1>5, <1>6 DEF GenerateTestData, Asked

LEMMA FindAccountStep ==
  ASSUME ReportsInv, NEW r \in Requests, FindAccount(r)
  PROVE  Serving(r)' /\ Turn(r)
<1>1. pc[r] = "findAccount" /\ Looking(r) /\ K(r) \in OwnAccount \union {"statement"}
  <2>1. pc[r] = "findAccount" /\ Looking(r)
    BY Sees DEF FindAccount, Statement
  <2> QED BY <2>1 DEF Looking, Serving, Placed
<1>2. CASE Fail(r, "other") \/ Fail(r, "unauthorized")
  BY <1>1, <1>2, Failing
<1>3. CASE K(r) = "statement" /\ Then(r, "readRows") /\ GetAndAuthorizeAccount(r) = "none"
  <2>1. pc' = [pc EXCEPT ![r] = "readRows"]
    BY <1>3 DEF Then, Go
  <2>2. Placed(r)'
    BY <1>1, <1>3, <2>1, PlacedNext
  <2>3. Authorized(r)'
    BY <1>1, <1>3, Authorizing, SameTables DEF Authorized, OwnAccount, AccountReports
  <2>4. "readRows" \notin Metering /\ pc[r] \notin Metering
    BY <1>1 DEF Metering
  <2>5. "readRows" \notin {"idle", "done", "insert"} /\ pc[r] # "insert"
    BY <1>1
  <2> QED BY <1>1, <1>3, <2>2, <2>3, <2>4, <2>5, Passing, Zenon
<1>4. CASE Fail(r, "accountNotFound") /\ A(r) \in deleted /\ K(r) \in OwnAccount
  <2>1. Missing(r)
    BY <1>4 DEF Missing, OwnAccount, AccountReports
  <2> QED BY <1>1, <1>4, <2>1, Failing
<1>5. ASSUME NEW e \in LateFlaws, Fail(r, e)
      PROVE  Serving(r)' /\ Turn(r)
  <2>1. e \notin {"ok", "accountNotFound", "notFound"}
    BY DEF LateFlaws
  <2> QED BY <1>1, <1>5, <2>1, Failing
<1>6. CASE K(r) = "clear" /\ Fail(r, "ok") /\ Owner[A(r)] = U(r)
  <2>1. CanAnswer(r)
    BY <1>6 DEF CanAnswer
  <2> QED BY <1>1, <1>6, <2>1, Failing
<1>7. CASE K(r) = "testData" /\ GenerateTestData(r) /\ Owner[A(r)] = U(r)
  BY <1>1, <1>7, GenerateStep
<1>8. CASE K(r) \in {"transactions", "transaction"} /\ Then(r, K(r)) /\ Owner[A(r)] = U(r)
  <2>1. pc' = [pc EXCEPT ![r] = K(r)]
    BY <1>8 DEF Then, Go
  <2>2. Placed(r)'
    BY <1>1, <1>8, <2>1, PlacedNext
  <2>3. Authorized(r)'
    BY <1>1, <1>8, SameTables DEF Authorized, OwnAccount, AccountReports
  <2>4. K(r) \notin Metering /\ pc[r] \notin Metering
    BY <1>1, <1>8 DEF Metering
  <2>5. K(r) \notin {"idle", "done", "insert"} /\ pc[r] # "insert"
    BY <1>1, <1>8
  <2> QED BY <1>1, <1>8, <2>2, <2>3, <2>4, <2>5, Passing, Zenon
<1>9. CASE K(r) = "statement"
  <2>1. \/ Then(r, "readRows") /\ GetAndAuthorizeAccount(r) = "none"
        \/ Fail(r, "other") \/ Fail(r, "unauthorized")
    BY <1>9, Authorizing DEF FindAccount, Statement
  <2> QED BY <1>2, <1>3, <1>9, <2>1
<1>10. CASE K(r) # "statement"
  <2>1. K(r) \in {"transactions", "transaction", "testData", "clear"}
    BY <1>1, <1>10 DEF OwnAccount
  <2>2. \/ Fail(r, "other") \/ Fail(r, "unauthorized")
        \/ Fail(r, "accountNotFound") /\ A(r) \in deleted
        \/ call[r].flaw \in LateFlaws /\ Fail(r, call[r].flaw)
        \/ K(r) = "clear" /\ Fail(r, "ok") /\ Owner[A(r)] = U(r)
        \/ K(r) = "testData" /\ GenerateTestData(r) /\ Owner[A(r)] = U(r)
        \/ K(r) \notin {"clear", "testData"} /\ Then(r, K(r)) /\ Owner[A(r)] = U(r)
    BY <1>10 DEF FindAccount, Statement
  <2> QED BY <1>1, <1>10, <1>2, <1>4, <1>5, <1>6, <1>7, <1>8, <2>1, <2>2
<1> QED BY <1>9, <1>10

-----------------------------------------------------------------------------
(* Inserting *)

LEMMA Appended ==
  ASSUME TablesOK, NEW row \in LedgerRow, row.kept = now,
         row.after = CalculateNewBalance(row.before, row.type, row.amount),
         ledger' = Append(ledger, row), UNCHANGED <<now, deleted>>
  PROVE  /\ LedgerOK' /\ Evolves /\ Len(ledger) \in Nat
         /\ DOMAIN ledger' = DOMAIN ledger \union {Len(ledger) + 1}
         /\ DOMAIN ledger = 1..Len(ledger)
         /\ \A i \in DOMAIN ledger : ledger'[i] = ledger[i]
         /\ ledger'[Len(ledger) + 1] = row
<1>1. ledger \in Seq(LedgerRow) /\ now \in Int
  BY ReportsAssumption DEF TablesOK, LedgerOK
<1> DEFINE n == Len(ledger)
<1>2. /\ n \in Nat /\ DOMAIN ledger = 1..n /\ DOMAIN ledger' = 1..(n + 1)
      /\ ledger' \in Seq(LedgerRow)
      /\ \A i \in 1..n : ledger'[i] = ledger[i]
      /\ ledger'[n + 1] = row
  BY <1>1
<1> HIDE DEF n
<1>3. DOMAIN ledger' = DOMAIN ledger \union {n + 1}
  BY <1>2
<1>4. LedgerOK'
  <2>1. \A i \in DOMAIN ledger' :
          ledger'[i].after = CalculateNewBalance(ledger'[i].before, ledger'[i].type,
                                                 ledger'[i].amount)
    BY <1>2, <1>3 DEF TablesOK, LedgerOK
  <2> QED BY <1>2, <2>1 DEF LedgerOK
<1>5. Evolves
  BY <1>1, <1>2, <1>3 DEF Evolves, SameRow
<1> QED BY <1>2, <1>3, <1>4, <1>5 DEF n

\* What is left of a history without its first row goes on from it.
LEMMA RestOfHistory ==
  ASSUME NEW h, IsHistory(h), Len(h) >= 2
  PROVE  /\ IsHistory(Tail(h)) /\ Len(Tail(h)) = Len(h) - 1
         /\ h[1].at <= Tail(h)[1].at /\ h[1].after = Tail(h)[1].before
<1> DEFINE t == Tail(h)
           n == Len(h)
<1>1. h \in Seq(Movement) /\ n \in Nat /\ n >= 2 /\ DOMAIN h = 1..n
  BY DEF IsHistory
<1>2. /\ t \in Seq(Movement) /\ Len(t) = n - 1 /\ DOMAIN t = 1..(n - 1)
      /\ \A i \in 1..(n - 1) : t[i] = h[i + 1]
  BY <1>1
<1> HIDE DEF t, n
<1>3. \A i \in 1..(n - 1) : i + 1 \in DOMAIN h /\ i \in 1..(n - 1)
  BY <1>1
<1>4. ASSUME NEW i \in DOMAIN t
      PROVE  /\ t[i].after = CalculateNewBalance(t[i].before, t[i].type, t[i].amount)
             /\ t[i].type = "debit" => t[i].after >= Threshold
  BY <1>2, <1>3 DEF IsHistory
<1>5. ASSUME NEW i \in 1..(Len(t) - 1)
      PROVE  t[i].at <= t[i + 1].at /\ t[i].after = t[i + 1].before
  <2>1. i \in 1..(n - 1) /\ i + 1 \in 1..(n - 1)
    BY <1>1, <1>2
  <2> QED BY <1>2, <2>1 DEF IsHistory, n
<1>6. h[1].at <= t[1].at /\ h[1].after = t[1].before
  <2>1. 1 \in 1..(n - 1) /\ t[1] = h[2]
    BY <1>1, <1>2
  <2> QED BY <2>1 DEF IsHistory, n
<1> QED BY <1>2, <1>4, <1>5, <1>6 DEF IsHistory, t, n

\* The rows inserted so far and those to come, when the next one is inserted.
Inserted(r, row) ==
  /\ K(r) = "testData" /\ pc[r] = "insert"
  /\ row.at = history[r][1].at /\ row.type = history[r][1].type
  /\ row.before = history[r][1].before /\ row.after = history[r][1].after
  /\ row.status = "completed" /\ row.by = r
  /\ \A i \in DOMAIN ledger : ledger'[i] = ledger[i]
  /\ ledger'[Len(ledger) + 1] = row /\ Len(ledger) \in Nat
  /\ view'[r] = Append(view[r], [id |-> Len(ledger) + 1, status |-> "completed"])
  /\ history'[r] = Tail(history[r]) /\ call'[r] = call[r]

LEMMA InsertMade ==
  ASSUME TablesOK, NEW r \in Requests, Serving(r), NEW row \in LedgerRow, Inserted(r, row)
  PROVE  RowsMade(r)' /\ (Len(history[r]) # 1 => RowsToCome(r)')
<1>n. PICK n : n = Len(view[r])
  OBVIOUS
<1>h. PICK h : h = history[r]
  OBVIOUS
<1> DEFINE line == [id |-> Len(ledger) + 1, status |-> "completed"]
<1>1. /\ RowsMade(r) /\ RowsToCome(r) /\ Asked(r)' = Asked(r)
      /\ view[r] \in Seq(Lines) /\ Ids(view[r]) \subseteq DOMAIN ledger
  BY DEF Serving, Made, Shown, Asked, Inserted
<1>2. IsHistory(h) /\ Len(h) >= 1 /\ h \in Seq(Movement) /\ Len(h) \in Nat
  BY <1>1, <1>h DEF RowsToCome, IsHistory
<1>3. Asked(r) \in Nat
  BY AskedIs DEF Serving, Placed
<1>a. /\ row.at = h[1].at /\ row.type = h[1].type /\ row.before = h[1].before
      /\ row.after = h[1].after /\ history'[r] = Tail(h) /\ row.status = "completed"
      /\ row.by = r
  BY <1>h DEF Inserted
<1>4. /\ n \in Nat /\ Len(view[r])' = n + 1 /\ (DOMAIN view[r])' = 1..(n + 1)
      /\ DOMAIN view[r] = 1..n
      /\ \A k \in 1..n : view'[r][k] = view[r][k]
      /\ view'[r][n + 1] = line
  <2>1. view'[r] = Append(view[r], line)
    BY DEF Inserted
  <2> HIDE DEF line
  <2> QED BY <1>1, <1>n, <2>1
<1>b. RowsToCome(r) =>
        /\ n + Len(h) <= Asked(r)
        /\ n # 0 => RowOf(r, n).at <= h[1].at
        /\ n + Len(h) = Asked(r) =>
             /\ \A k \in 1..(n - 1) : RowOf(r, k).after = RowOf(r, k + 1).before
             /\ n # 0 => RowOf(r, n).after = h[1].before
  BY <1>n, <1>h DEF RowsToCome
<1>c. RowsMade(r) =>
        /\ \A k \in 1..(n - 1) : RowOf(r, k).at <= RowOf(r, k + 1).at
        /\ \A k \in DOMAIN view[r] :
             /\ RowOf(r, k).by = r
             /\ RowOf(r, k).type = "debit" => RowOf(r, k).after >= Threshold
             /\ RowOf(r, k).status = "completed"
  BY <1>n DEF RowsMade
<1>d. IsHistory(h) /\ Len(h) >= 1 /\ h \in Seq(Movement) /\ Len(h) \in Nat /\ 1 \in DOMAIN h
  BY <1>2
<1>e. n \in Nat /\ Len(view[r])' = n + 1
  BY <1>4
<1>5. \A k \in 1..n : RowOf(r, k)' = RowOf(r, k)
  <2>1. \A k \in 1..n : view[r][k].id \in DOMAIN ledger
    BY <1>1, <1>4 DEF Ids
  <2>2. \A i \in DOMAIN ledger : ledger'[i] = ledger[i]
    BY DEF Inserted
  <2> QED BY <1>4, <2>1, <2>2 DEF RowOf
<1>6. RowOf(r, n + 1)' = row
  <2>1. view'[r][n + 1].id = Len(ledger) + 1
    BY <1>4
  <2>2. ledger'[Len(ledger) + 1] = row
    BY DEF Inserted
  <2> QED BY <2>1, <2>2 DEF RowOf
<1>7. row.type = "debit" => row.after >= Threshold
  BY <1>a, <1>d DEF IsHistory
<1>8. n # 0 => RowOf(r, n).at <= row.at
  BY <1>1, <1>a, <1>b
<1>9. ASSUME n + Len(h) = Asked(r)
      PROVE  /\ \A k \in 1..(n - 1) : RowOf(r, k).after = RowOf(r, k + 1).before
             /\ n # 0 => RowOf(r, n).after = row.before
  BY <1>1, <1>9, <1>a, <1>b
<1>10. ASSUME NEW k \in 1..n
       PROVE  /\ RowOf(r, k)'.at <= RowOf(r, k + 1)'.at
              /\ n + Len(h) = Asked(r) => RowOf(r, k)'.after = RowOf(r, k + 1)'.before
  <2>1. CASE k = n
    BY <1>4, <1>5, <1>6, <1>8, <1>9, <2>1
  <2>2. CASE k # n
    <3>1. k \in 1..(n - 1) /\ k + 1 \in 1..n
      BY <1>4, <2>2
    <3>2. RowOf(r, k).at <= RowOf(r, k + 1).at
      BY <1>1, <3>1, <1>c
    <3> QED BY <1>5, <1>9, <3>1, <3>2
  <2> QED BY <2>1, <2>2
<1>11. n + Len(h) <= Asked(r)
  BY <1>1, <1>b
<1>12. RowsMade(r)'
  <2>1. ASSUME NEW k \in 1..(n + 1)
        PROVE  /\ RowOf(r, k)'.by = r
               /\ RowOf(r, k)'.type = "debit" => RowOf(r, k)'.after >= Threshold
               /\ RowOf(r, k)'.status = "completed"
    <3>1. CASE k = n + 1
      BY <1>6, <1>7, <1>a, <3>1
    <3>2. CASE k # n + 1
      <4>1. k \in 1..n
        BY <1>4, <3>2
      <4> QED BY <1>1, <1>4, <1>5, <4>1, <1>c
    <3> QED BY <3>1, <3>2
  <2>2. Len(view[r])' - 1 = n
    BY <1>e
  <2>3. Len(view[r])' = Asked(r) => n + Len(h) = Asked(r)
    BY <1>3, <1>11, <1>d, <1>e
  <2>4. Len(view[r])' <= Asked(r)
    <3>1. PICK m \in Nat : m = Len(h) /\ m >= 1
      BY <1>d
    <3> QED BY <1>3, <1>e, <1>11, <3>1
  <2> QED BY <1>1, <1>4, <1>10, <2>1, <2>2, <2>3, <2>4 DEF RowsMade
<1>13. ASSUME Len(h) # 1
       PROVE  RowsToCome(r)'
  <2>m. PICK m \in Nat : m = Len(h) /\ m >= 1 /\ m # 1
    BY <1>d, <1>13
  <2>1. Len(h) >= 2
    BY <2>m
  <2>2. /\ IsHistory(Tail(h)) /\ Len(Tail(h)) = Len(h) - 1
        /\ h[1].at <= Tail(h)[1].at /\ h[1].after = Tail(h)[1].before
    BY <1>d, <2>1, RestOfHistory
  <2>3. Len(view[r])' # 0 /\ Len(view[r])' - 1 = n
    BY <1>e
  <2>4. Len(Tail(h)) >= 1 /\ Len(view[r])' + Len(Tail(h)) = n + Len(h)
    BY <1>e, <2>m, <2>1, <2>2
  <2>5. RowOf(r, Len(view[r]))' = row
    BY <1>6, <1>e DEF RowOf
  <2>6. (history[r])' = Tail(h)
    BY <1>a
  <2>7. row.at <= Tail(h)[1].at /\ row.after = Tail(h)[1].before
    BY <1>a, <2>2
  <2>8. Len(view[r])' + Len(Tail(h)) <= Asked(r)
    BY <1>11, <2>4
  <2>9. Len(view[r])' + Len(Tail(h)) = Asked(r) =>
          \A k \in 1..n : RowOf(r, k)'.after = RowOf(r, k + 1)'.before
    BY <1>10, <2>4
  <2> QED BY <1>1, <2>2, <2>3, <2>4, <2>5, <2>6, <2>7, <2>8, <2>9 DEF RowsToCome
<1> QED BY <1>12, <1>13, <1>h

LEMMA SkippedMade ==
  ASSUME TablesOK, NEW r \in Requests, Serving(r), K(r) = "testData", pc[r] = "insert",
         UNCHANGED <<ledger, call>>, view'[r] = view[r], history'[r] = Tail(history[r])
  PROVE  RowsMade(r)' /\ (Len(history[r]) # 1 => RowsToCome(r)')
<1>n. PICK n : n = Len(view[r])
  OBVIOUS
<1>h. PICK h : h = history[r]
  OBVIOUS
<1>1. RowsMade(r) /\ RowsToCome(r) /\ Asked(r)' = Asked(r) /\ Asked(r) \in Nat
  BY AskedIs DEF Serving, Made, Asked, Placed
<1>2. \A k : RowOf(r, k)' = RowOf(r, k)
  BY DEF RowOf
<1>3. RowsMade(r)'
  BY <1>1, <1>2 DEF RowsMade
<1>4. Len(view[r])' = n /\ n \in Nat
  BY <1>n DEF Serving, Shown
<1>5. IsHistory(h) /\ Len(h) \in Nat /\ Len(h) >= 1
  BY <1>1, <1>h DEF RowsToCome, IsHistory
<1>6. n + Len(h) <= Asked(r) /\ (n # 0 => RowOf(r, n).at <= h[1].at)
  BY <1>1, <1>n, <1>h DEF RowsToCome
<1>7. n # 0 => RowOf(r, n).at \in Nat
  <2>1. n # 0 => view[r][n].id \in DOMAIN ledger
    BY <1>n DEF Serving, Shown, Ids
  <2>2. \A i \in DOMAIN ledger : ledger[i].at \in Nat
    <3>1. \A i \in DOMAIN ledger : ledger[i] \in LedgerRow
      BY DEF TablesOK, LedgerOK
    <3> QED BY <3>1 DEF LedgerRow
  <2> QED BY <2>1, <2>2 DEF RowOf
<1>8. ASSUME Len(h) # 1
      PROVE  RowsToCome(r)'
  <2>m. PICK m \in Nat : m = Len(h) /\ m >= 1 /\ m # 1
    BY <1>5, <1>8
  <2>1. Len(h) >= 2
    BY <2>m
  <2>2. /\ IsHistory(Tail(h)) /\ Len(Tail(h)) = Len(h) - 1 /\ h[1].at <= Tail(h)[1].at
    BY <1>5, <2>1, RestOfHistory
  <2>3. Len(Tail(h)) >= 1 /\ n + Len(Tail(h)) < Asked(r)
    BY <1>1, <1>4, <1>6, <2>m, <2>2
  <2>4. n # 0 => RowOf(r, n)'.at <= Tail(h)[1].at
    <3>1. h[1].at \in Nat /\ Tail(h)[1].at \in Nat
      <4>1. h \in Seq(Movement) /\ Tail(h) \in Seq(Movement)
        BY <1>5, <2>2 DEF IsHistory
      <4>2. h[1] \in Movement /\ Tail(h)[1] \in Movement
        BY <2>m, <2>2, <4>1
      <4> QED BY <4>2 DEF Movement
    <3>2. RowOf(r, n)' = RowOf(r, n)
      BY <1>2
    <3>3. h[1].at <= Tail(h)[1].at
      BY <2>2
    <3>4. \A x, y, z \in Nat : x <= y /\ y <= z => x <= z
      OBVIOUS
    <3> QED BY <1>6, <1>7, <3>1, <3>2, <3>3, <3>4, Zenon
  <2>5. (history[r])' = Tail(h)
    BY <1>h
  <2>6. Len(view[r])' # 0 => RowOf(r, Len(view[r]))'.at <= Tail(h)[1].at
    BY <1>4, <2>4 DEF RowOf
  <2>8. Len(view[r])' + Len(Tail(h)) <= Asked(r) /\ Len(view[r])' + Len(Tail(h)) # Asked(r)
    <3>1. \A x, y \in Nat : x < y => x <= y /\ x # y
      OBVIOUS
    <3>2. n + Len(Tail(h)) \in Nat
      BY <1>4, <2>m, <2>2
    <3> QED BY <1>1, <1>4, <2>3, <3>1, <3>2, Zenon
  <2>9. IsHistory(Tail(h)) /\ Len(Tail(h)) >= 1
    BY <2>2, <2>3
  <2> QED BY <1>1, <2>5, <2>6, <2>8, <2>9 DEF RowsToCome
<1> QED BY <1>3, <1>8, <1>h

\* What an insert leaves, but for the rows
LEMMA Inserting ==
  ASSUME LocalsOK, NEW r \in Requests, Serving(r), InsertTestData(r), DOMAIN view' = Requests,
         \A q \in Requests \ {r} : view'[q] = view[q],
         RowsMade(r)', Len(history[r]) # 1 => RowsToCome(r)',
         view'[r] \in Seq(Lines), Ids(view'[r]) \subseteq DOMAIN ledger'
  PROVE  Serving(r)' /\ Turn(r)
<1>1. /\ pc[r] = "insert" /\ K(r) = "testData" /\ call' = call /\ K(r)' = K(r)
      /\ call[r] \in Call /\ A(r)' = A(r) /\ U(r)' = U(r)
      /\ history' = [history EXCEPT ![r] = Tail(@)] /\ metrics' = metrics
      /\ \/ Len(history[r]) = 1 /\ Send(r, Succeed)
         \/ Len(history[r]) # 1 /\ UNCHANGED <<pc, out>>
  BY DEF InsertTestData, Serving, Placed, K, A, U
<1>2. Turn(r)
  BY <1>1 DEF LocalsOK, Turn, StaysPut, Send, Go
<1>3. Owner[A(r)] = U(r) /\ metrics[r] = NoMetrics /\ out[r] = Unanswered
  BY <1>1 DEF Serving, Authorized, OwnAccount, Counted, Told
<1>4. \/ pc'[r] = "done" /\ out'[r] = [status |-> 200, bodies |-> <<"ok">>]
      \/ pc'[r] = "insert" /\ Len(history[r]) # 1 /\ out'[r] = out[r]
  BY <1>1, Succeeded DEF LocalsOK, Send, Go
<1>5. Placed(r)'
  BY <1>1, <1>4 DEF Placed, Metering
<1>6. Authorized(r)'
  BY <1>1, <1>3 DEF Authorized, AccountReports
<1>7. Told(r)'
  BY <1>3, <1>4 DEF Told, Explained, StatusesSent
<1>8. Shown(r)'
  BY <1>1, <1>4 DEF Shown
<1>9. Dated(r)' /\ Counted(r)'
  BY <1>1, <1>3, <1>4 DEF Dated, Counted
<1>10. Made(r)'
  BY <1>4 DEF Made
<1> QED BY <1>2, <1>5, <1>6, <1>7, <1>8, <1>9, <1>10 DEF Serving

LEMMA InsertStep ==
  ASSUME ReportsInv, NEW r \in Requests, InsertTestData(r)
  PROVE  Serving(r)' /\ Turn(r) /\ Evolves /\ TablesOK'
<1>1. /\ LocalsOK /\ TablesOK /\ Serving(r) /\ call[r] \in Call
      /\ pc[r] = "insert" /\ K(r) = "testData"
      /\ UNCHANGED <<now, deleted, balance, posting, events, call>>
      /\ history' = [history EXCEPT ![r] = Tail(@)]
  BY DEF ReportsInv, InsertTestData, Serving, Placed
<1>2. now \in Nat /\ A(r) \in Accounts
  BY <1>1, ReportsAssumption DEF TablesOK, A, Call
<1>3. view[r] \in Seq(Lines) /\ Ids(view[r]) \subseteq DOMAIN ledger
  BY <1>1 DEF Serving, Shown
<1>4. history'[r] = Tail(history[r])
  BY <1>1 DEF LocalsOK
<1>5. CASE UNCHANGED <<ledger, view>>
  <2>1. view'[r] = view[r]
    BY <1>5
  <2>2. RowsMade(r)' /\ (Len(history[r]) # 1 => RowsToCome(r)')
    BY <1>1, <1>4, <1>5, <2>1, SkippedMade
  <2>3. /\ DOMAIN view' = Requests /\ \A q \in Requests \ {r} : view'[q] = view[q]
        /\ view'[r] \in Seq(Lines) /\ Ids(view'[r]) \subseteq DOMAIN ledger'
    BY <1>1, <1>3, <1>5 DEF LocalsOK
  <2>4. Evolves
    BY <1>1, <1>2, <1>5 DEF Evolves, SameRow
  <2>5. TablesOK'
    BY <1>1, <1>5 DEF TablesOK, LedgerOK, PostingOK
  <2> QED BY <1>1, <2>2, <2>3, <2>4, <2>5, Inserting
<1> DEFINE next == Head(history[r])
           line == [id |-> Len(ledger) + 1, status |-> "completed"]
           row == [account |-> A(r), at |-> next.at, type |-> next.type,
                   amount |-> next.amount, before |-> next.before, after |-> next.after,
                   status |-> "completed", kept |-> now, by |-> r]
<1>6. CASE ledger' = Append(ledger, row) /\ view' = [view EXCEPT ![r] = Append(@, line)]
  <2>1. IsHistory(history[r]) /\ Len(history[r]) >= 1
    BY <1>1 DEF Serving, Made, RowsToCome
  <2>2. /\ next = history[r][1] /\ next \in Movement
        /\ next.after = CalculateNewBalance(next.before, next.type, next.amount)
    <3>1. /\ history[r] \in Seq(Movement) /\ Len(history[r]) \in Nat
      BY <2>1 DEF IsHistory
    <3>2. 1 \in DOMAIN history[r] /\ next = history[r][1]
      BY <2>1, <3>1
    <3> QED BY <2>1, <3>1, <3>2 DEF IsHistory
  <2> HIDE DEF next
  <2>3. row \in LedgerRow /\ row.kept = now
    BY <1>2, <2>2 DEF LedgerRow, Movement
  <2>4. /\ row.after = CalculateNewBalance(row.before, row.type, row.amount)
        /\ row.at = next.at /\ row.type = next.type /\ row.before = next.before
        /\ row.after = next.after /\ row.status = "completed" /\ row.by = r
    BY <2>2
  <2> HIDE DEF row
  <2>5. /\ LedgerOK' /\ Evolves /\ Len(ledger) \in Nat
        /\ DOMAIN ledger' = DOMAIN ledger \union {Len(ledger) + 1}
        /\ \A i \in DOMAIN ledger : ledger'[i] = ledger[i]
        /\ ledger'[Len(ledger) + 1] = row
    BY <1>1, <1>6, <2>3, <2>4, Appended
  <2>6. TablesOK'
    BY <1>1, <2>5 DEF TablesOK, PostingOK
  <2>7. /\ DOMAIN view' = Requests /\ \A q \in Requests \ {r} : view'[q] = view[q]
        /\ view'[r] = Append(view[r], line)
    BY <1>1, <1>6 DEF LocalsOK
  <2>8. Inserted(r, row)
    BY <1>1, <1>4, <2>2, <2>4, <2>5, <2>7 DEF Inserted
  <2>9. RowsMade(r)' /\ (Len(history[r]) # 1 => RowsToCome(r)')
    BY <1>1, <2>3, <2>8, InsertMade
  <2>10. line \in Lines /\ line.id \in DOMAIN ledger'
    BY <2>5 DEF Lines
  <2> HIDE DEF line
  <2>11. view'[r] \in Seq(Lines)
    BY <1>3, <2>7, <2>10
  <2>12. Ids(view'[r]) \subseteq DOMAIN ledger'
    <3>1. \A k \in DOMAIN view'[r] : view'[r][k] = line \/ \E j \in DOMAIN view[r] : view'[r][k] = view[r][j]
      BY <1>3, <2>7
    <3>2. \A k \in DOMAIN view'[r] : view'[r][k].id \in DOMAIN ledger'
      BY <1>3, <2>5, <2>10, <3>1 DEF Ids
    <3> QED BY <3>2 DEF Ids
  <2> QED BY <1>1, <2>5, <2>6, <2>7, <2>9, <2>11, <2>12, Inserting
<1> QED BY <1>5, <1>6 DEF InsertTestData

-----------------------------------------------------------------------------
(* A call begins and ends *)

LEMMA AsCalled ==
  ASSUME now \in Instants, NEW c \in Call
  PROVE  [c EXCEPT !.from = EffectiveStart(c), !.to = EffectiveEnd(c)] \in Call
<1>1. now \in Int /\ c.from \in Int /\ c.to \in Int
  BY ReportsAssumption DEF Call
<1>2. EffectiveEnd(c) \in Int
  BY <1>1 DEF EffectiveEnd
<1>3. EffectiveStart(c) \in Int
  <2>1. 14 * Day \in Int
    BY DayIs
  <2> QED BY <1>1, <1>2, <2>1 DEF EffectiveStart, DefaultMetricsPeriodDays
<1> QED BY <1>2, <1>3 DEF Call

LEMMA Refusals ==
  ASSUME NEW c \in Call, Refusal(c) # "none"
  PROVE  Refusal(c) \notin {"ok", "accountNotFound", "notFound"}
  BY DEF Refusal, Call, Flaws, LateFlaws, PeriodError, ValidateAndNormalizeDateRange

LEMMA FirstPlaced ==
  ASSUME NEW kind \in Kinds
  PROVE  LET s == FirstStatement(kind)
         IN /\ s \in {"findUser", "metricsUser", "findAccount", "findActivity", "service"}
            /\ s = "findUser" => kind \in {"statement", "summary"}
            /\ s = "findAccount" => kind \in OwnAccount
            /\ s = "metricsUser" => kind = "metrics"
            /\ s = "findActivity" => kind \in {"activity", "myActivity"}
            /\ s = "service" =>
                 kind \notin AccountReports \union OwnAccount \union {"summary", "activity", "myActivity"}
  BY DEF FirstStatement, AccountReports

\* A request that holds nothing, and has not been answered with success.
Empty(r) ==
  /\ call[r] \in Call /\ view[r] = <<>> /\ metrics[r] = NoMetrics
  /\ ~Answered(r) /\ Told(r)

LEMMA Fresh ==
  ASSUME NEW r \in Requests, Empty(r)',
         \/ pc'[r] \in {"idle", "done"}
         \/ /\ pc'[r] = FirstStatement(K(r)')
            /\ K(r)' = "statement" => PeriodOver(r)'
  PROVE  Serving(r)'
<1>1. K(r)' \in Kinds /\ call'[r] \in Call /\ Told(r)' /\ ~Answered(r)'
      /\ view'[r] = <<>> /\ metrics'[r] = NoMetrics
  BY DEF Empty, Call, K
<1>2. CASE pc'[r] \in {"idle", "done"}
  <2>1. Placed(r)'
    BY <1>1, <1>2 DEF Placed, Metering
  <2>2. Authorized(r)'
    BY <1>1, <1>2 DEF Authorized, Metering
  <2>3. Shown(r)'
    BY <1>1, <1>2 DEF Shown, Ids
  <2>4. Dated(r)' /\ Counted(r)' /\ Made(r)'
    BY <1>1, <1>2 DEF Dated, Counted, Made, Metering
  <2> QED BY <1>1, <2>1, <2>2, <2>3, <2>4 DEF Serving
<1>3. CASE /\ pc'[r] = FirstStatement(K(r)')
           /\ K(r)' = "statement" => PeriodOver(r)'
  <2>0. /\ pc'[r] \in {"findUser", "metricsUser", "findAccount", "findActivity", "service"}
        /\ pc'[r] = "findUser" => K(r)' \in {"statement", "summary"}
        /\ pc'[r] = "findAccount" => K(r)' \in OwnAccount
        /\ pc'[r] = "metricsUser" => K(r)' = "metrics"
        /\ pc'[r] = "findActivity" => K(r)' \in {"activity", "myActivity"}
        /\ pc'[r] = "service" =>
             K(r)' \notin AccountReports \union OwnAccount \union {"summary", "activity", "myActivity"}
    BY <1>1, <1>3, FirstPlaced
  <2>1. Placed(r)'
    BY <1>1, <2>0 DEF Placed, Metering, AccountReports
  <2>2. Authorized(r)'
    BY <1>1, <2>0 DEF Authorized, Metering
  <2>3. Shown(r)'
    BY <1>1, <2>0 DEF Shown, Ids
  <2>4. Dated(r)' /\ Counted(r)' /\ Made(r)'
    BY <1>1, <1>3, <2>0 DEF Dated, Counted, Made, Metering
  <2> QED BY <1>1, <2>1, <2>2, <2>3, <2>4 DEF Serving
<1> QED BY <1>2, <1>3

LEMMA StartStep ==
  ASSUME ReportsInv, NEW r \in Requests, NEW c \in CallsNow(r), NEW ip \in Addresses,
         Start(r, c, ip)
  PROVE  ReportsInv'
<1>1. LocalsOK /\ TablesOK /\ Serving(r) /\ LimiterInv /\ pc[r] = "idle"
  BY DEF ReportsInv, Start
<1>2. c \in Call
  BY ReportsAssumption DEF CallsNow
<1>3. DOMAIN call' = Requests /\ call'[r] \in Call /\ call'[r].kind = c.kind
      /\ (c.kind # "metrics" => call'[r] = c)
      /\ \A q \in Requests \ {r} : call'[q] = call[q]
  <2>1. [c EXCEPT !.from = EffectiveStart(c), !.to = EffectiveEnd(c)] \in Call
    BY <1>1, <1>2, AsCalled DEF TablesOK
  <2>2. [c EXCEPT !.from = EffectiveStart(c), !.to = EffectiveEnd(c)].kind = c.kind
    BY <1>2 DEF Call
  <2> QED BY <1>1, <1>2, <2>1, <2>2 DEF Start, LocalsOK
<1>4. view[r] = <<>> /\ metrics[r] = NoMetrics /\ out[r] = Unanswered
  BY <1>1 DEF Serving, Shown, Counted, Told, Metering
<1>5. UNCHANGED <<tables, view, metrics, history>>
  BY DEF Start
<1>6. LimiterInv'
  BY <1>1, LimiterKept DEF Start, LimiterNext
<1>7. events' \in 0..MaxEvents
  BY <1>1, ReportsAssumption DEF Start, TablesOK
<1>8. ASSUME NEW w, Send(r, w), Response(w).status \in StatusesSent \ {200},
             Explained(c.kind, Response(w)), Response(w).bodies # <<"AccountNotFound">>
      PROVE  Serving(r)' /\ Turn(r)
  <2>1. pc'[r] = "done" /\ out'[r] = Response(w) /\ Turn(r)
    BY <1>1, <1>3, <1>5, <1>8 DEF Send, Go, LocalsOK, Turn, StaysPut
  <2>2. Told(r)' /\ ~Answered(r)'
    BY <1>3, <1>8, <2>1 DEF Told, Answered, K
  <2>3. Empty(r)'
    BY <1>3, <1>4, <1>5, <2>2 DEF Empty
  <2> QED BY <2>1, <2>3, Fresh
<1>9. CASE Deny(ip) /\ Send(r, SendError("SystemRateLimitExceeded"))
  <2>1. LET o == Response(SendError("SystemRateLimitExceeded"))
        IN /\ o.status \in StatusesSent \ {200} /\ Explained(c.kind, o)
           /\ o.bodies # <<"AccountNotFound">>
    BY RateLimited, Zenon
  <2> QED BY <1>8, <1>9, <2>1, <1>5, <1>6, <1>7, Alone
<1>10. CASE Refusal(c) # "none" /\ Send(r, Writes(Handlers[c.kind], Refusal(c)))
  <2> DEFINE w == Writes(Handlers[c.kind], Refusal(c))
  <2>1. Refusal(c) \notin {"ok", "accountNotFound", "notFound"}
    BY <1>2, <1>10, Refusals
  <2>2. c.kind \in Kinds
    BY <1>2 DEF Call
  <2>3. LET o == Response(w)
        IN /\ o.status \in StatusesSent /\ Explained(c.kind, o)
           /\ o.status = 200 => Refusal(c) = "ok"
           /\ o.bodies = <<"AccountNotFound">> => Refusal(c) \in {"accountNotFound", "notFound"}
    BY <2>1, <2>2, Replies, Zenon
  <2>4. Send(r, w)
    BY <1>10
  <2> HIDE DEF w
  <2> QED BY <1>8, <2>1, <2>3, <2>4, <1>5, <1>6, <1>7, Alone
<1>11. CASE Refusal(c) = "none" /\ Go(r, FirstStatement(c.kind)) /\ UNCHANGED out
  <2>1. pc'[r] = FirstStatement(c.kind) /\ out'[r] = Unanswered /\ Turn(r)
    BY <1>1, <1>3, <1>4, <1>5, <1>11 DEF Go, LocalsOK, Turn, StaysPut
  <2>2. K(r)' = c.kind
    BY <1>3 DEF K
  <2>3. FirstStatement(c.kind) \in {"findUser", "metricsUser", "findAccount", "findActivity", "service"}
    BY <1>2, FirstPlaced DEF Call
  <2>4. Told(r)' /\ ~Answered(r)'
    BY <2>1, <2>3 DEF Told, Answered
  <2>5. Empty(r)'
    BY <1>3, <1>4, <1>5, <2>4 DEF Empty
  <2>6. c.kind = "statement" => PeriodOver(r)'
    <3>1. SUFFICES ASSUME c.kind = "statement"
                   PROVE  PeriodOver(r)'
      OBVIOUS
    <3>2. PeriodError(c) = "none"
      BY <1>11 DEF Refusal
    <3>3. CalculateDateRange(c.type, c.number).to <= now
      BY <3>1, <3>2 DEF PeriodError, ValidateNotFuture
    <3>4. Period(r)' = CalculateDateRange(c.type, c.number)
      BY <1>3, <2>2, <3>1 DEF Period, CalculateDateRange
    <3>5. now' = now
      BY <1>5 DEF tables
    <3> QED BY <3>3, <3>4, <3>5 DEF PeriodOver
  <2>7. Serving(r)'
    BY <2>1, <2>2, <2>5, <2>6, Fresh
  <2> QED BY <2>1, <2>7, <1>5, <1>6, <1>7, Alone
<1> QED BY <1>9, <1>10, <1>11 DEF Start

LEMMA FinishStep ==
  ASSUME ReportsInv, NEW r \in Requests, Finish(r)
  PROVE  Serving(r)' /\ Turn(r)
<1>1. LocalsOK /\ Serving(r)
  BY DEF ReportsInv
<1>2. NoCall(r) \in Call
  BY ReportsAssumption DEF NoCall
<1>3. /\ pc'[r] = "idle" /\ call'[r] = NoCall(r) /\ view'[r] = <<>>
      /\ metrics'[r] = NoMetrics /\ out'[r] = Unanswered
  BY <1>1 DEF Finish, Go, LocalsOK
<1>4. Turn(r)
  BY <1>1 DEF Finish, Go, LocalsOK, Turn, StaysPut
<1>5. Empty(r)'
  BY <1>2, <1>3 DEF Empty, Answered, Told
<1> QED BY <1>3, <1>4, <1>5, Fresh

-----------------------------------------------------------------------------
(* The rest of the program *)

LEMMA Others ==
  ASSUME ReportsInv, UNCHANGED <<pc, locals>>, Evolves, TablesOK', LimiterInv'
  PROVE  ReportsInv'
<1>1. now' \in Int
  BY ReportsAssumption DEF TablesOK
<1>2. LocalsOK' /\ \A r \in Requests : StaysPut(r)
  BY DEF ReportsInv, LocalsOK, StaysPut, locals
<1>3. \A r \in Requests : Serving(r)'
  BY <1>1, <1>2, Undisturbed DEF ReportsInv
<1> QED BY <1>2, <1>3 DEF ReportsInv

LEMMA StillLimited == ReportsInv /\ UNCHANGED limiter => LimiterInv'
  BY LimiterKept DEF ReportsInv

LEMMA NowIs == TablesOK => now \in Nat
  BY ReportsAssumption DEF TablesOK

LEMMA AdvanceStep == ReportsInv /\ Advance => ReportsInv'
<1> SUFFICES ASSUME ReportsInv, Advance
             PROVE  ReportsInv'
  OBVIOUS
<1>1. TablesOK /\ now \in Nat
  BY NowIs DEF ReportsInv
<1>2. now' \in Instants /\ now' \in Nat /\ now' > now
  BY ReportsAssumption DEF Advance
<1>3. TablesOK'
  BY <1>1, <1>2 DEF Advance, TablesOK, LedgerOK, PostingOK
<1>4. Evolves
  BY <1>1, <1>2 DEF Advance, Evolves, SameRow
<1> QED BY <1>3, <1>4, StillLimited, Others DEF Advance

LEMMA DeleteStep == ReportsInv /\ Delete => ReportsInv'
<1> SUFFICES ASSUME ReportsInv, Delete
             PROVE  ReportsInv'
  OBVIOUS
<1>1. TablesOK /\ now \in Nat
  BY NowIs DEF ReportsInv
<1>2. deleted \subseteq deleted' /\ deleted' \subseteq Deletable
  BY <1>1 DEF Delete, TablesOK
<1>3. TablesOK'
  BY <1>1, <1>2, ReportsAssumption DEF Delete, TablesOK, LedgerOK, PostingOK
<1>4. Evolves
  BY <1>1, <1>2 DEF Delete, Evolves, SameRow
<1> QED BY <1>3, <1>4, StillLimited, Others DEF Delete

LEMMA PostStep == ReportsInv /\ Post => ReportsInv'
<1> SUFFICES ASSUME ReportsInv, Post
             PROVE  ReportsInv'
  OBVIOUS
<1>1. TablesOK /\ now \in Nat
  BY NowIs DEF ReportsInv
<1>2. PostingOK'
  <2>1. PICK a \in Accounts, amount \in Amounts :
          /\ balance[a] >= amount
          /\ posting' = [account |-> a, at |-> now, type |-> "debit", amount |-> amount,
                         before |-> balance[a], after |-> balance[a] - amount]
    BY DEF Post
  <2>2. amount \in Nat /\ balance[a] \in Nat /\ balance[a] - amount \in Nat
    BY <1>1, <2>1, GeneratorAssumption DEF TablesOK
  <2> QED BY <1>1, <2>1, <2>2 DEF PostingOK
<1>3. events' \in 0..MaxEvents
  BY <1>1, ReportsAssumption DEF Post, TablesOK
<1>4. TablesOK'
  BY <1>1, <1>2, <1>3 DEF Post, TablesOK, LedgerOK
<1>5. Evolves
  BY <1>1 DEF Post, Evolves, SameRow
<1> QED BY <1>4, <1>5, StillLimited, Others DEF Post

LEMMA CommitStep == ReportsInv /\ Commit => ReportsInv'
<1> SUFFICES ASSUME ReportsInv, Commit
             PROVE  ReportsInv'
  OBVIOUS
<1>1. TablesOK /\ now \in Nat
  BY NowIs DEF ReportsInv
<1> DEFINE row == [account |-> posting.account, at |-> posting.at, type |-> posting.type,
                   amount |-> posting.amount, before |-> posting.before,
                   after |-> posting.after, status |-> "completed", kept |-> now,
                   by |-> "posting"]
<1>2. /\ posting \in [account : Accounts, at : Nat, type : {"debit"}, amount : Nat,
                      before : Nat, after : Nat]
      /\ posting.after = posting.before - posting.amount
  BY <1>1 DEF Commit, TablesOK, PostingOK
<1>3. row \in LedgerRow /\ row.kept = now
  BY <1>1, <1>2 DEF LedgerRow
<1>4. row.after = CalculateNewBalance(row.before, row.type, row.amount)
  BY <1>2 DEF CalculateNewBalance
<1>5. ledger' = Append(ledger, row) /\ UNCHANGED <<now, deleted>>
  BY DEF Commit
<1> HIDE DEF row
<1>6. LedgerOK' /\ Evolves
  BY <1>1, <1>3, <1>4, <1>5, Appended
<1>7. balance' \in [Accounts -> Nat] /\ PostingOK'
  BY <1>1, <1>2 DEF Commit, TablesOK, PostingOK
<1>8. TablesOK'
  BY <1>1, <1>6, <1>7 DEF Commit, TablesOK
<1> QED BY <1>6, <1>8, StillLimited, Others DEF Commit

LEMMA SettleStep == ReportsInv /\ Settle => ReportsInv'
<1> SUFFICES ASSUME ReportsInv, Settle
             PROVE  ReportsInv'
  OBVIOUS
<1>1. TablesOK /\ now \in Nat
  BY NowIs DEF ReportsInv
<1>2. PICK i \in DOMAIN ledger : ledger' = [ledger EXCEPT ![i].status = "completed"]
  BY DEF Settle
<1>3. ledger \in Seq(LedgerRow) /\ ledger[i] \in LedgerRow
  BY <1>1, <1>2 DEF TablesOK, LedgerOK
<1>4. PICK settled : settled = [ledger[i] EXCEPT !.status = "completed"]
  OBVIOUS
<1>5. /\ settled \in LedgerRow /\ settled.account = ledger[i].account
      /\ settled.at = ledger[i].at /\ settled.type = ledger[i].type
      /\ settled.amount = ledger[i].amount /\ settled.before = ledger[i].before
      /\ settled.after = ledger[i].after /\ settled.kept = ledger[i].kept
      /\ settled.by = ledger[i].by /\ settled.status = "completed"
  BY <1>3, <1>4 DEF LedgerRow
<1>6. ledger' = [ledger EXCEPT ![i] = settled]
  BY <1>2, <1>4
<1>7. /\ DOMAIN ledger' = DOMAIN ledger /\ ledger'[i] = settled
      /\ \A j \in DOMAIN ledger \ {i} : ledger'[j] = ledger[j]
  BY <1>6
<1>8. ledger' \in Seq(LedgerRow)
  BY <1>3, <1>5, <1>6
<1>9. Evolves
  BY <1>1, <1>5, <1>7 DEF Settle, Evolves, SameRow
<1>10. LedgerOK'
  BY <1>1, <1>5, <1>7, <1>8 DEF TablesOK, LedgerOK
<1>11. events' \in 0..MaxEvents
  BY <1>1, ReportsAssumption DEF Settle, TablesOK
<1>12. TablesOK'
  BY <1>1, <1>10, <1>11 DEF Settle, TablesOK, PostingOK
<1> QED BY <1>9, <1>12, StillLimited, Others DEF Settle

LEMMA LimiterStepKept == ReportsInv /\ LimiterStep => ReportsInv'
<1> SUFFICES ASSUME ReportsInv, LimiterStep
             PROVE  ReportsInv'
  OBVIOUS
<1>1. TablesOK /\ now \in Nat
  BY NowIs DEF ReportsInv
<1>2. LimiterInv'
  BY LimiterKept DEF ReportsInv, LimiterStep, LimiterNext
<1>3. TablesOK' /\ Evolves
  BY <1>1 DEF LimiterStep, tables, TablesOK, LedgerOK, PostingOK, Evolves, SameRow
<1> QED BY <1>2, <1>3, Others DEF LimiterStep

LEMMA ReportsStart == Init => ReportsInv
<1> SUFFICES ASSUME Init
             PROVE  ReportsInv
  OBVIOUS
<1>1. LimiterInv
  BY LimiterStart DEF Init
<1>2. TablesOK
  BY ReportsAssumption DEF Init, TablesOK, LedgerOK, PostingOK
<1>3. LocalsOK
  BY DEF Init, LocalsOK
<1>4. ASSUME NEW r \in Requests
      PROVE  Serving(r)
  <2>1. NoCall(r) \in Call
    BY ReportsAssumption DEF NoCall
  <2>2. /\ pc[r] = "idle" /\ call[r] \in Call /\ view[r] = <<>> /\ metrics[r] = NoMetrics
        /\ out[r] = Unanswered
    BY <1>4, <2>1 DEF Init
  <2>3. Placed(r) /\ Authorized(r) /\ Told(r)
    BY <2>2 DEF Placed, Authorized, Told, Answered, Metering
  <2>4. Shown(r)
    BY <2>2 DEF Shown, Ids, Answered
  <2>5. Dated(r) /\ Counted(r) /\ Made(r)
    BY <2>2 DEF Dated, Counted, Made, Answered, Metering
  <2> QED BY <2>3, <2>4, <2>5 DEF Serving
<1> QED BY <1>1, <1>2, <1>3, <1>4 DEF ReportsInv

\* A statement of one request is one step of it alone.
LEMMA OneStatement ==
  ASSUME ReportsInv, NEW r \in Requests, UNCHANGED <<limiter, tables, events>>,
         Serving(r)' /\ Turn(r)
  PROVE  ReportsInv'
<1>1. events' \in 0..MaxEvents
  BY DEF ReportsInv, TablesOK
<1> QED BY <1>1, StillLimited, Alone

LEMMA ReportsStep == ReportsInv /\ [Next]_vars => ReportsInv'
<1> SUFFICES ASSUME ReportsInv, [Next]_vars
             PROVE  ReportsInv'
  OBVIOUS
<1>1. ASSUME NEW r \in Requests, Step(r)
      PROVE  ReportsInv'
  <2>1. CASE \E c \in CallsNow(r), ip \in Addresses : Start(r, c, ip)
    BY <2>1, StartStep
  <2>2. CASE CallService(r) \/ FindActivity(r) \/ ListTransactions(r) \/ GetTransaction(r)
    <3>1. Serving(r)' /\ Turn(r)
      BY <2>2, CallServiceStep, FindActivityStep, ListTransactionsStep, GetTransactionStep
    <3>2. UNCHANGED <<limiter, tables, events>>
      BY <2>2 DEF CallService, FindActivity, ListTransactions, GetTransaction, Statement
    <3> QED BY <3>1, <3>2, OneStatement
  <2>3. CASE FindUser(r) \/ FindTarget(r) \/ FindAccounts(r) \/ FindAccount(r)
    <3>1. Serving(r)' /\ Turn(r)
      BY <2>3, FindUserStep, FindTargetStep, FindAccountsStep, FindAccountStep
    <3>2. UNCHANGED <<limiter, tables, events>>
      BY <2>3 DEF FindUser, FindTarget, FindAccounts, FindAccount, Statement
    <3> QED BY <3>1, <3>2, OneStatement
  <2>4. CASE ReadRows(r) \/ MetricsUser(r) \/ MetricsAccount(r) \/ MetricsRows(r)
    <3>1. Serving(r)' /\ Turn(r)
      BY <2>4, ReadRowsStep, MetricsUserStep, MetricsAccountStep, MetricsRowsStep
    <3>2. UNCHANGED <<limiter, tables, events>>
      BY <2>4 DEF ReadRows, MetricsUser, MetricsAccount, MetricsRows, Statement,
         MetricsStatement
    <3> QED BY <3>1, <3>2, OneStatement
  <2>5. CASE InsertTestData(r)
    <3>1. Serving(r)' /\ Turn(r) /\ Evolves /\ TablesOK'
      BY <2>5, InsertStep
    <3>2. now' \in Int
      BY <3>1, ReportsAssumption DEF TablesOK
    <3>3. \A q \in Requests \ {r} : Serving(q)'
      BY <3>1, <3>2, Undisturbed DEF ReportsInv, Turn
    <3>4. LimiterInv'
      BY <2>5, StillLimited DEF InsertTestData
    <3> QED BY <3>1, <3>3, <3>4 DEF ReportsInv, Turn
  <2>6. CASE Finish(r)
    <3>1. UNCHANGED <<limiter, tables, events>>
      BY <2>6 DEF Finish
    <3> QED BY <2>6, <3>1, FinishStep, OneStatement
  <2> QED BY <1>1, <2>1, <2>2, <2>3, <2>4, <2>5, <2>6 DEF Step
<1>2. CASE Advance \/ Post \/ Commit \/ Settle \/ Delete \/ LimiterStep
  BY <1>2, AdvanceStep, PostStep, CommitStep, SettleStep, DeleteStep, LimiterStepKept
<1>3. CASE UNCHANGED vars
  <2>1. UNCHANGED <<pc, locals>> /\ UNCHANGED limiter /\ UNCHANGED <<tables, events>>
    BY <1>3 DEF vars
  <2>2. TablesOK /\ now \in Nat
    BY NowIs DEF ReportsInv
  <2>3. TablesOK' /\ Evolves
    BY <2>1, <2>2 DEF tables, TablesOK, LedgerOK, PostingOK, Evolves, SameRow
  <2> QED BY <2>1, <2>3, StillLimited, Others
<1> QED BY <1>1, <1>2, <1>3 DEF Next

-----------------------------------------------------------------------------
(* What the invariant says of the answers *)

LEMMA RowsSumIs ==
  ASSUME NEW rows, NEW type, NEW S, S = {i \in Completed(rows) : ledger[i].type = type},
         IsFiniteSet(S)
  PROVE  SumOf(rows, type) = Total([i \in S |-> ledger[i].amount])
<1> DEFINE e == [i \in S |-> ledger[i].amount]
           P(g) == g = [s \in SUBSET S |->
                          IF s = {} THEN 0
                          ELSE ledger[CHOOSE x \in s : TRUE].amount + g[s \ {CHOOSE x \in s : TRUE}]]
           iter == CHOOSE g : P(g)
<1>1. SumOf(rows, type) = iter[S]
  BY DEF SumOf, MapThenSumSet, MapThenFoldSet
<1>2. ASSUME NEW g PROVE P(g) <=> IsSum(g, e, S)
  <2>1. ASSUME NEW s \in SUBSET S, s # {}
        PROVE  e[Pick(s)] = ledger[CHOOSE x \in s : TRUE].amount
    <3>1. Pick(s) \in S
      BY <2>1, PickIn
    <3> QED BY <3>1 DEF Pick
  <2> QED BY <2>1 DEF IsSum, Pick
<1>3. P(iter)
  <2> HIDE DEF e, P
  <2>1. \E g : P(g)
    BY <1>2, SumExists
  <2> QED BY <2>1 DEF iter
<1>4. IsSum(iter, e, S)
  BY <1>2, <1>3
<1> HIDE DEF iter, P
<1>5. Total(e) = iter[S]
  BY <1>4, TotalIs
<1> QED BY <1>1, <1>5

LEMMA SumOfOne ==
  ASSUME NEW rows, NEW type, NEW i, Completed(rows) = {i}, ledger[i].amount \in Nat
  PROVE  SumOf(rows, type) = IF ledger[i].type = type THEN ledger[i].amount ELSE 0
<1>1. PICK S : S = {j \in Completed(rows) : ledger[j].type = type}
  OBVIOUS
<1> DEFINE f == [j \in S |-> ledger[j].amount]
<1>2. CASE ledger[i].type # type
  <2>1. S = {} /\ IsFiniteSet(S)
    BY <1>1, <1>2, FS_EmptySet
  <2>2. SumOf(rows, type) = Total(f)
    BY <1>1, <2>1, RowsSumIs
  <2>3. Total(f) = 0
    BY <2>1, TotalEmpty
  <2> QED BY <1>2, <2>2, <2>3
<1>3. CASE ledger[i].type = type
  <2>1. S = {} \union {i} /\ IsFiniteSet(S) /\ IsFiniteSet({})
    BY <1>1, <1>3, FS_EmptySet, FS_Singleton
  <2>2. SumOf(rows, type) = Total(f)
    BY <1>1, <2>1, RowsSumIs
  <2> DEFINE e == [j \in {} |-> 0]
  <2>3. DOMAIN e = {} /\ DOMAIN f = {} \union {i} /\ f[i] = ledger[i].amount /\ f[i] \in Int
    BY <2>1
  <2>4. Total(e) = 0
    BY <2>3, TotalEmpty
  <2> HIDE DEF e, f
  <2>5. Total(f) = f[i] + Total(e)
    <3>1. PICK none : none = {}
      OBVIOUS
    <3>2. /\ i \notin none /\ \A y \in none : f[y] = e[y]
          /\ \A y \in none : f[y] \in Int
      BY <3>1
    <3>3. IsFiniteSet(none) /\ DOMAIN e = none /\ DOMAIN f = none \union {i} /\ f[i] \in Int
      BY <2>1, <2>3, <3>1
    <3> QED BY <3>2, <3>3, TotalAdded
  <2> QED BY <1>3, <2>2, <2>3, <2>4, <2>5
<1> QED BY <1>2, <1>3

\* Two periods of the same length do not meet.
LEMMA PeriodsApart ==
  ASSUME NEW w \in Nat, NEW n \in Int, NEW k \in Int, n < k
  PROVE  (n - 1) * w + w <= (k - 1) * w
<1>1. PICK d \in Nat : k = n + 1 + d
  <2>1. k - n - 1 \in Nat
    OBVIOUS
  <2> QED BY <2>1
<1>2. (k - 1) * w = (n - 1) * w + w + d * w
  BY <1>1, Z3
<1>3. d * w \in Nat /\ (n - 1) * w \in Int
  OBVIOUS
<1> QED BY <1>2, <1>3

LEMMA MonthsApart ==
  ASSUME NEW type, NEW n \in Int, NEW k \in Int, n < k
  PROVE  /\ CalculateDateRange(type, n).to \in Int /\ CalculateDateRange(type, k).from \in Int
         /\ CalculateDateRange(type, n).to < CalculateDateRange(type, k).from
<1>1. Month \in Nat /\ Second \in Int /\ Second >= 1
  BY ReportsAssumption, DayIs
<1>2. PICK m \in {1, 3} : m = IF type = "monthly" THEN 1 ELSE 3
  OBVIOUS
<1>3. PICK w \in Nat : w = m * Month
  BY <1>1, <1>2
<1>4. (n - 1) * w + w <= (k - 1) * w
  BY <1>3, PeriodsApart
<1>5. (n - 1) * m * Month = (n - 1) * w /\ (k - 1) * m * Month = (k - 1) * w
  BY <1>1, <1>2, <1>3
<1>6. /\ CalculateDateRange(type, n).to = (n - 1) * w + w - Second
      /\ CalculateDateRange(type, k).from = (k - 1) * w
  BY <1>2, <1>3, <1>5 DEF CalculateDateRange
<1>7. (n - 1) * w \in Int /\ (k - 1) * w \in Int
  BY <1>3
<1> QED BY <1>1, <1>3, <1>4, <1>6, <1>7

LEMMA TypesFollow == ReportsInv => TypeOK
<1> SUFFICES ASSUME ReportsInv
             PROVE  TypeOK
  OBVIOUS
<1>1. LimiterTypeOK
  BY DEF ReportsInv, LimiterInv
<1>2. \A i \in DOMAIN ledger : ledger[i] \in LedgerRow
  BY DEF ReportsInv, TablesOK, LedgerOK
<1>3. ASSUME NEW r \in Requests
      PROVE  /\ call[r].kind \in Kinds
             /\ K(r) \notin {"activity", "myActivity"} => Ids(view[r]) \subseteq DOMAIN ledger
             /\ out[r].status \in {0, 200, 400, 401, 403, 404, 405, 409, 422, 429, 500, 503}
  <2>1. Placed(r) /\ Shown(r) /\ Told(r)
    BY DEF ReportsInv, Serving
  <2> QED BY <2>1 DEF Placed, Shown, Told, Call, Unanswered, StatusesSent
<1> QED BY <1>1, <1>2, <1>3 DEF TypeOK, ReportsInv, TablesOK

LEMMA StatementFacts ==
  ASSUME ReportsInv, NEW r \in Statements
  PROVE  /\ r \in Requests /\ K(r) = "statement" /\ Answered(r) /\ RowsKnown(r)
         /\ Serving(r) /\ Ids(view[r]) \subseteq DOMAIN ledger /\ view[r] \in Seq(Lines)
<1>1. r \in Requests /\ K(r) = "statement" /\ Answered(r) /\ Serving(r)
  BY DEF Statements, ReportsInv
<1> QED BY <1>1 DEF Serving, Dated, Shown

LEMMA DisjointFollows == ReportsInv => StatementsDisjoint
<1> SUFFICES ASSUME ReportsInv
             PROVE  StatementsDisjoint
  OBVIOUS
<1> SUFFICES ASSUME NEW r \in Statements, NEW q \in Statements,
                    call[r].type = call[q].type, call[r].number < call[q].number,
                    NEW i \in Ids(view[r]) \intersect Ids(view[q])
             PROVE  FALSE
  <2>1. \A r \in Statements : call[r].number \in Int
    <3>1. ASSUME NEW x \in Statements
          PROVE  call[x].number \in Int
      <4>1. Placed(x)
        BY StatementFacts DEF Serving
      <4> QED BY <4>1 DEF Placed, Call
    <3> QED BY <3>1
  <2>2. \A x, y \in Int : x # y => x < y \/ y < x
    OBVIOUS
  <2> QED BY <2>1, <2>2 DEF StatementsDisjoint
<1>1. /\ call[r].number \in Int /\ call[q].number \in Int
      /\ K(r) = "statement" /\ K(q) = "statement" /\ i \in DOMAIN ledger
      /\ InPeriod(r, i) /\ InPeriod(q, i)
  BY StatementFacts DEF Serving, Placed, Call, RowsKnown
<1>2. /\ Period(r) = CalculateDateRange(call[r].type, call[r].number)
      /\ Period(q) = CalculateDateRange(call[r].type, call[q].number)
  BY <1>1 DEF Period
<1>3. /\ Period(r).to \in Int /\ Period(q).from \in Int /\ Period(r).to < Period(q).from
  BY <1>1, <1>2, MonthsApart
<1>4. ledger[i].at \in Nat
  <2>1. ledger[i] \in LedgerRow
    BY <1>1 DEF ReportsInv, TablesOK, LedgerOK
  <2> QED BY <2>1 DEF LedgerRow
<1>5. ledger[i].at <= Period(r).to /\ Period(q).from <= ledger[i].at
  BY <1>1 DEF InPeriod
<1> QED BY <1>3, <1>4, <1>5

LEMMA OneRowFollows == ReportsInv => OneRowAddsUp
<1> SUFFICES ASSUME ReportsInv, NEW r \in Statements, Len(view[r]) = 1, Completed(view[r]) # {}
             PROVE  LET b0 == CalculateBalances(view[r], 0)
                    IN b0.closing - b0.opening = CalculateSummary(view[r]).netChange
  BY DEF OneRowAddsUp
<1>1. PICK i : i = view[r][1].id
  OBVIOUS
<1>2. view[r] \in Seq(Lines) /\ DOMAIN view[r] = {1} /\ view[r] # <<>> /\ i \in DOMAIN ledger
  BY <1>1, StatementFacts DEF Ids
<1>3. Completed(view[r]) = {i}
  BY <1>1, <1>2 DEF Completed
<1>4. /\ ledger[i] \in LedgerRow
      /\ ledger[i].after = CalculateNewBalance(ledger[i].before, ledger[i].type, ledger[i].amount)
  BY <1>2 DEF ReportsInv, TablesOK, LedgerOK
<1>5. /\ ledger[i].amount \in Nat /\ ledger[i].before \in Int
      /\ ledger[i].type \in {"credit", "debit"}
  BY <1>4 DEF LedgerRow
<1>6. /\ SumOf(view[r], "credit") = IF ledger[i].type = "credit" THEN ledger[i].amount ELSE 0
      /\ SumOf(view[r], "debit") = IF ledger[i].type = "debit" THEN ledger[i].amount ELSE 0
  BY <1>3, <1>5, SumOfOne
<1>7. CalculateSummary(view[r]).netChange = SumOf(view[r], "credit") - SumOf(view[r], "debit")
  BY DEF CalculateSummary
<1>8. CalculateBalances(view[r], 0) = [opening |-> ledger[i].before, closing |-> ledger[i].after]
  BY <1>1, <1>2 DEF CalculateBalances
<1> QED BY <1>4, <1>5, <1>6, <1>7, <1>8 DEF CalculateNewBalance

LEMMA AnswersFollow == ReportsInv => AnswersAreTrue
<1> SUFFICES ASSUME ReportsInv
             PROVE  AnswersAreTrue
  OBVIOUS
<1>1. StatementComplete
  BY StatementFacts DEF StatementComplete, RowsKnown
<1>2. SummaryMatchesMetrics
  <2>1. ASSUME NEW r \in Statements, metrics[r] # NoMetrics
        PROVE  RowsCounted(r)
    BY <2>1, StatementFacts DEF Serving, Counted
  <2> QED BY <2>1 DEF SummaryMatchesMetrics, RowsCounted
<1>3. OwnersOnly
  <2> SUFFICES ASSUME NEW r \in Requests, Answered(r)
               PROVE  /\ K(r) \in OwnAccount => Owner[A(r)] = U(r)
                      /\ K(r) \in AccountReports => Owner[A(r)] = U(r) \/ U(r) \in Admins
                      /\ K(r) \in {"transactions", "transaction"} =>
                           \A i \in Ids(view[r]) : ledger[i].account = A(r)
    BY DEF OwnersOnly
  <2> QED BY DEF ReportsInv, Serving, Authorized, Shown
<1>4. NotFoundIsTrue
  BY DEF NotFoundIsTrue, ReportsInv, Serving, Told, Missing
<1> QED BY <1>1, <1>2, <1>3, <1>4, DisjointFollows, OneRowFollows DEF AnswersAreTrue

LEMMA HistoryFollows == ReportsInv => HistoryIsKept
<1> SUFFICES ASSUME ReportsInv, NEW r \in Requests, K(r) = "testData", Answered(r)
             PROVE  LET row == [i \in DOMAIN view[r] |-> ledger[view[r][i].id]]
                    IN \A i \in DOMAIN row :
                         /\ row[i].by = r
                         /\ row[i].after = CalculateNewBalance(row[i].before, row[i].type, row[i].amount)
                         /\ row[i].type = "debit" => row[i].after >= Threshold
                         /\ i > 1 => /\ row[i - 1].at <= row[i].at
                                     /\ Len(row) = call[r].number => row[i - 1].after = row[i].before
  BY DEF HistoryIsKept
<1>1. RowsMade(r) /\ view[r] \in Seq(Lines) /\ Ids(view[r]) \subseteq DOMAIN ledger
      /\ call[r] \in Call
  BY DEF ReportsInv, Serving, Made, Shown, Placed
<1> DEFINE row == [i \in DOMAIN view[r] |-> ledger[view[r][i].id]]
<1>n. PICK n \in Nat : n = Len(view[r]) /\ DOMAIN view[r] = 1..n
  BY <1>1
<1>2. Len(row) = n /\ DOMAIN row = 1..n /\ \A i \in 1..n : row[i] = RowOf(r, i)
  BY <1>n DEF RowOf
<1> HIDE DEF row
<1>3. ASSUME NEW i \in 1..n
      PROVE  /\ row[i].by = r
             /\ row[i].after = CalculateNewBalance(row[i].before, row[i].type, row[i].amount)
             /\ row[i].type = "debit" => row[i].after >= Threshold
  <2>1. view[r][i].id \in DOMAIN ledger
    BY <1>1, <1>n DEF Ids
  <2>2. row[i].after = CalculateNewBalance(row[i].before, row[i].type, row[i].amount)
    BY <1>2, <2>1 DEF RowOf, ReportsInv, TablesOK, LedgerOK
  <2> QED BY <1>1, <1>2, <1>n, <2>2 DEF RowsMade
<1>4. ASSUME NEW i \in 1..n, i > 1
      PROVE  /\ row[i - 1].at <= row[i].at
             /\ n = call[r].number => row[i - 1].after = row[i].before
  <2>1. PICK k \in 1..(n - 1) : k = i - 1 /\ k + 1 = i /\ k \in 1..n
    BY <1>4
  <2>2. RowOf(r, k).at <= RowOf(r, k + 1).at
    BY <1>1, <1>n, <2>1 DEF RowsMade
  <2>3. ASSUME n = call[r].number
        PROVE  RowOf(r, k).after = RowOf(r, k + 1).before
    <3>1. n <= Asked(r)
      BY <1>1, <1>n DEF RowsMade
    <3>2. n >= 1 /\ call[r].number = n
      BY <1>4, <2>3
    <3>3. Asked(r) = n
      BY <3>1, <3>2, ReportsAssumption DEF Asked, AtLeast, AtMost
    <3> QED BY <1>1, <1>n, <2>1, <3>3 DEF RowsMade
  <2> QED BY <1>2, <2>1, <2>2, <2>3
<1> QED BY <1>2, <1>3, <1>4 DEF row

-----------------------------------------------------------------------------
(* The theorems *)

(* The middleware never lets an address exceed its rate: in any stretch of  *)
(* d ticks at most Burst + Rate * d of its requests reach a handler, for    *)
(* every set of addresses, rate, burst and clean-up limit in the assumption.*)
THEOREM RateIsKept == LimiterSpec => []WithinRate
<1>1. LimiterInv => WithinRate
  BY DEF LimiterInv, Drained, WithinRate
<1> QED  BY <1>1, LimiterStart, LimiterKept, PTL DEF LimiterSpec

(* In every reachable state the requests, the tables and the limiter are    *)
(* what the statements still to come rely on.                               *)
THEOREM InvariantHolds == Spec => []ReportsInv
  BY ReportsStart, ReportsStep, PTL DEF Spec

(* The variables and what is sent keep their types: rows shown are rows of  *)
(* the ledger, and the status of a response is one the handlers have.       *)
THEOREM TypesAreKept == Spec => []TypeOK
  BY InvariantHolds, TypesFollow, PTL

(* Of the requests served next to all others, too: the limiter in front of  *)
(* the handlers admits no address above its rate.                           *)
THEOREM CallsWithinRate == Spec => []WithinRate
<1>1. ReportsInv => WithinRate
  BY DEF ReportsInv, LimiterInv, Drained, WithinRate
<1> QED BY <1>1, InvariantHolds, PTL

(* What statements, summaries, metrics and listings say is true although    *)
(* others write between their statements: a statement shows the rows of its *)
(* period and misses only what was committed when it was over, its metrics  *)
(* count what its summary does or what came in between, two periods share   *)
(* no row, one row adds up, only owners and admins are answered, and who is *)
(* told that an account is missing is told so because something was deleted.*)
THEOREM AnswersTrue == Spec => []AnswersAreTrue
  BY InvariantHolds, AnswersFollow, PTL

(* The rows test data leave in the ledger are one history: in order of      *)
(* date, each the movement between its balances, debits above the threshold *)
(* and, unless an insert failed, each starting where the last one ended,    *)
(* whatever the generator draws and whoever writes meanwhile.               *)
THEOREM HistoryKept == Spec => []HistoryIsKept
  BY InvariantHolds, HistoryFollows, PTL
=============================================================================
