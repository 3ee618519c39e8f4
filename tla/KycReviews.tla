----------------------------- MODULE KycReviews -----------------------------
(***************************************************************************)
(* The verification of a seller (services/kyc.service.ts): submissions,    *)
(* the provider's webhook and the administrator's review of one user.      *)
(*                                                                         *)
(* A call is a transaction that takes no lock: it finds its row in one     *)
(* step and writes in another.  save() compares the row it read with the   *)
(* database and writes what differs, so it writes the documents it read.   *)
(* A row is [status, at, documents]; documents are the number of the       *)
(* submission that brought them, and a row never decided has no date.      *)
(***************************************************************************)
EXTENDS Integers, Sequences

Undecided == -1
Open == {"pending", "approved"}
Idle == [at |-> "idle"]

Unsubmitted(calls) ==
    [now |-> 0, rows |-> <<>>, user |-> "pending", submissions |-> 0, call |-> [p \in calls |-> Idle]]

\* order: verifiedAt DESC, where PostgreSQL puts those without a date first.
Newest(s) ==
    {i \in DOMAIN s.rows : \A j \in DOMAIN s.rows :
        s.rows[i].at = Undecided \/ (s.rows[j].at # Undecided /\ s.rows[j].at <= s.rows[i].at)}

Doing(s, p, work) == [s EXCEPT !.call[p] = work]
Decision(s, i, d) == [at |-> "deciding", row |-> i, read |-> s.rows[i], decision |-> d]

-----------------------------------------------------------------------------
(* What a call finds.                                                      *)

\* submitKyc: the newest row, if any, must have been rejected (or have expired).
Submit(s, p) ==
    IF s.call[p] # Idle THEN {}
    ELSE IF s.rows = <<>> THEN {Doing(s, p, [at |-> "submitting"])}
    ELSE {Doing(s, p, [at |-> "resubmitting", row |-> i]) : i \in {i \in Newest(s) : s.rows[i].status \notin Open}}

\* submitKycVerificationByWallet: no row may be open, and a new one is made.
SubmitByWallet(s, p) ==
    IF s.call[p] # Idle \/ \E i \in DOMAIN s.rows : s.rows[i].status \in Open THEN {}
    ELSE {Doing(s, p, [at |-> "submitting"])}

\* processWebhook: the row it names, whatever its status, or one that is pending.
Webhook(s, p, named, d) ==
    LET rows == IF named # 0 THEN {named} \cap DOMAIN s.rows
                ELSE {i \in DOMAIN s.rows : s.rows[i].status = "pending"}
    IN  IF s.call[p] # Idle THEN {} ELSE {Doing(s, p, Decision(s, i, d)) : i \in rows}

\* reviewKyc: the row it names, or the user's newest, or, if there is none, a new one.
Review(s, p, named, d) ==
    LET rows == IF named # 0 THEN {named} \cap DOMAIN s.rows ELSE Newest(s)
    IN  IF s.call[p] # Idle THEN {}
        ELSE IF s.rows = <<>> /\ named = 0 THEN {Doing(s, p, [at |-> "creating", decision |-> d])}
        ELSE {Doing(s, p, Decision(s, i, d)) : i \in rows}

-----------------------------------------------------------------------------
(* What it writes: the row, and the user's status with it.                 *)

Saved(s, p, i, row) ==
    [s EXCEPT !.now = @ + 1, !.user = row.status, !.call[p] = Idle,
              !.rows = IF i \in DOMAIN s.rows THEN [@ EXCEPT ![i] = row] ELSE Append(@, row)]

Write(s, p) ==
    LET call == s.call[p]
        next == Len(s.rows) + 1
        submitted == [status |-> "pending", at |-> Undecided, documents |-> s.submissions + 1]
        decided(row) == [row EXCEPT !.status = call.decision, !.at = s.now]
        sentTo(i) == [Saved(s, p, i, submitted) EXCEPT !.submissions = @ + 1]
    IN  CASE call.at = "submitting" -> {sentTo(next)}
          [] call.at = "resubmitting" -> {sentTo(call.row)}
          [] call.at = "deciding" -> {Saved(s, p, call.row, decided(call.read))}
          [] call.at = "creating" ->
                {Saved(s, p, next, decided([status |-> "pending", at |-> Undecided, documents |-> 0]))}
          [] OTHER -> {}

\* getKycStatus: the status of the newest row, or else the user's.
Told(s) == IF s.rows = <<>> THEN {s.user} ELSE {s.rows[i].status : i \in Newest(s)}
=============================================================================
