--------------------------- MODULE RequestGuards ---------------------------
(***************************************************************************)
(* What stands before a handler: the guard of suspended wallets, the three *)
(* middlewares that say who calls, those that say who may, and two that    *)
(* count (middleware/*.ts, lib/auth-failure.ts, and getCurrentUser of      *)
(* services/auth.service.ts without its sharing of lookups: WalletLogin).  *)
(*                                                                         *)
(* A request has a header - absent, of another scheme, empty, too long, or *)
(* bearing - and a token: what verifying it says, and its claims.  A row   *)
(* of the users is what the database says of a wallet now.                 *)
(***************************************************************************)
EXTENDS Integers, Sequences, FiniteSets, TLC

None == "none"
Passed(user) == [status |-> 200, user |-> user]
Refused(status, reason) == [status |-> status, reason |-> reason]

\* extractBearerToken: a reason, or nothing when there is a token.
NotBearing(header) ==
    CASE header \in {"absent", "other", "empty"} -> {"missing_token"}
      [] header = "oversized" -> {"unparseable_token"}
      [] OTHER -> {}

\* classifyJwtError.
ReasonOf(verdict) ==
    CASE verdict = "expired" -> "expired_token"
      [] verdict = "signature" -> "invalid_signature"
      [] verdict = "malformed" -> "unparseable_token"
      [] OTHER -> "invalid_token"

FirstKnown(values) ==
    LET known == SelectSeq(values, LAMBDA v : v # None) IN IF known = <<>> THEN None ELSE Head(known)

-----------------------------------------------------------------------------
(* Who calls.  The database answers, fails, or hangs.                      *)

\* createSuspendedWalletGuard: the token is decoded, not verified (a database that
\* hangs it waits for).
SuspendedGuard(request, rows, database) ==
    LET wallet == FirstKnown(<<request.claims.stellarAddress, request.claims.sub>>)
    IN  IF NotBearing(request.header) # {} \/ request.verdict = "malformed" \/ wallet = None
        THEN Passed(None)
        ELSE IF database = "fails" THEN Refused(503, "AUTH_UNAVAILABLE")
        ELSE IF wallet \in DOMAIN rows /\ rows[wallet].suspended THEN Refused(403, "ACCOUNT_SUSPENDED")
        ELSE Passed(None)

CurrentUser(request, rows, database) ==
    LET sub == request.claims.sub
    IN  CASE request.verdict # "valid" -> Refused(401, ReasonOf(request.verdict))
          [] request.verdict = "valid" /\ sub = None -> Refused(401, "invalid_token")
          [] OTHER -> IF database = "fails" THEN Refused(500, "INTERNAL")
                      ELSE IF sub \notin DOMAIN rows THEN Refused(401, "invalid_token")
                      ELSE Passed([id |-> sub] @@ rows[sub])

\* createAuthMiddleware: the user as the database has it, within a time limit.
Authenticated(request, rows, database) ==
    LET user == CurrentUser(request, rows, database)
        asks == request.verdict = "valid" /\ request.claims.sub # None
    IN  IF NotBearing(request.header) # {} THEN Refused(401, CHOOSE r \in NotBearing(request.header) : TRUE)
        ELSE IF database = "hangs" /\ asks THEN Refused(503, "AUTH_UNAVAILABLE")
        ELSE IF user.status = 200 /\ user.user.suspended THEN Refused(403, "ACCOUNT_SUSPENDED")
        ELSE user

\* authenticateJWT: the user as the token has it; `marked` are the wallets this
\* process has been told of.
AuthenticatedByToken(request, hasSecret, marked) ==
    LET claims == request.claims
        wallet == FirstKnown(<<claims.wallet, claims.stellarAddress, claims.sub>>)
    IN  IF NotBearing(request.header) # {} THEN Refused(401, CHOOSE r \in NotBearing(request.header) : TRUE)
        ELSE IF request.verdict = "malformed" THEN Refused(401, "unparseable_token")
        ELSE IF ~hasSecret THEN Refused(500, "AUTH_MISCONFIGURED")
        ELSE IF request.verdict # "valid" THEN Refused(401, ReasonOf(request.verdict))
        ELSE IF claims.sub = None THEN Refused(401, "invalid_token")
        ELSE IF wallet \in marked THEN Refused(403, "wallet_suspended")
        ELSE Passed([id |-> FirstKnown(<<claims.userId, claims.sub>>), type |-> claims.userType,
                     kyc |-> claims.kycStatus, suspended |-> FALSE])

\* authenticateAdminJWT: without a secret, as with a bad token, 401.
AuthenticatedAdmin(request, hasSecret) ==
    IF request.header \in {"absent", "other"} THEN Refused(401, "missing_token")
    ELSE IF ~hasSecret \/ request.verdict # "valid"
         THEN Refused(401, IF hasSecret THEN ReasonOf(request.verdict) ELSE "invalid_token")
    ELSE IF request.claims.role # "admin" THEN Refused(403, "insufficient_role")
    ELSE Passed([id |-> request.claims.sub, type |-> "both", kyc |-> "approved", suspended |-> FALSE])

-----------------------------------------------------------------------------
(* Who may.                                                                *)

HasRole(user, roles) == user.type # None /\ user.type \in roles \cup {"both"}
IsSeller(user) == user.type \in {"seller", "both"}
IsInvestor(user) == user.type \in {"investor", "both"}
IsAdmin(user, wallets) == user.type = "admin" \/ user.id \in wallets
HasKYC(user, skip) == skip \/ user.kyc = "approved"

-----------------------------------------------------------------------------
(* Those that count: createWalletRateLimiter, whose window opens with the  *)
(* first request after the last has closed, and the settling of a limiter  *)
(* whose store may be slow.                                                *)

Unseen == [count |-> 0, start |-> None]
Counted(entry, now, window, max) ==
    IF entry = Unseen \/ now - entry.start >= window
    THEN [entry |-> [count |-> 1, start |-> now], passes |-> TRUE]
    ELSE IF entry.count >= max
    THEN [entry |-> entry, passes |-> FALSE, retryAfter |-> window - (now - entry.start)]
    ELSE [entry |-> [entry EXCEPT !.count = @ + 1], passes |-> TRUE]

\* The store's answers and its time limit in the order they come: the first one
\* is the request's.
Settled(events, failOpen) ==
    LET first == Head(events)
    IN  CASE first = "within" -> "passed"
          [] first = "exceeded" -> "429"
          [] first \in {"error", "timeout"} -> IF failOpen THEN "passed" ELSE "503"
=============================================================================
