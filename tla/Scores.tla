------------------------------- MODULE Scores -------------------------------
(***************************************************************************)
(* What the program thinks of its users: the reputation of an issuer       *)
(* (services/issuer-reputation.service.ts), its share of repayments on     *)
(* time (services/issuer-analytics.service.ts), and the risk an investor   *)
(* may take (services/investor-risk-profile.service.ts and the first check *)
(* of services/investment.service.ts).                                     *)
(*                                                                         *)
(* A settlement is the time from midnight of the due date to the           *)
(* settlement, in units of which a day has `day`.  Quotients are exact     *)
(* here; the code's are doubles.                                           *)
(***************************************************************************)
EXTENDS Integers, FiniteSets

LOCAL INSTANCE FiniteSetsExt

\* Math.round of a / b, for b > 0.
Rounded(a, b) == (2 * a + b) \div (2 * b)
AtMost(n, cap) == Min({n, cap})

-----------------------------------------------------------------------------
(* The reputation of an issuer.                                            *)

DaysAfter(settled, day) == settled \div day
IsOnTime(settled, day) == DaysAfter(settled, day) <= 0

\* The two other judgements of the same settlement: the analytics', and the one
\* the settlement hands to the history of the reputation.
IsRepaidOnTime(settled, day) == settled <= day - 1
WasOnTime(settled) == settled <= 0

\* computeScore of n settlements, c of them on time, with so many days late and
\* early in all: 40% for the share on time, 0.3 a settlement up to 100 of them,
\* half a point off for each day late up to 30, and 1.5 for each day early up to 10.
Score(n, c, late, early) ==
    LET points == 400 * c + 3 * n * AtMost(n, 100) - 5 * AtMost(late, 30 * n) + 15 * AtMost(early, 10 * n)
    IN  Max({0, AtMost(Rounded(points, 10 * n), 100)})

Tier(score) ==
    CASE score >= 80 -> "excellent" [] score >= 60 -> "good" [] score >= 40 -> "fair" [] OTHER -> "poor"

Unknown == [score |-> 0, tier |-> "poor", total |-> 0]

\* computeReputation of a history, from the index of a settlement to its time.
\* The query selects the due date, not updatedAt, which is asked for its time.
Failed == [error |-> "TypeError"]
Reputation(history, selected, day) ==
    LET onTime == {i \in DOMAIN history : IsOnTime(history[i], day)}
        n == Cardinality(DOMAIN history)
        late == SumFunction([i \in DOMAIN history \ onTime |-> DaysAfter(history[i], day)])
        early == SumFunction([i \in onTime |-> -DaysAfter(history[i], day)])
        score == Score(n, Cardinality(onTime), late, early)
    IN  IF n = 0 THEN Unknown
        ELSE IF "updatedAt" \notin selected THEN Failed
        ELSE [score |-> score, tier |-> Tier(score), total |-> n]

Selected == {"id", "dueDate", "createdAt"}

\* A settlement stores what is computed, and a row of history if it differs; an
\* error undoes the transaction, and the settlement goes on.
Updated(stored, computed, wasOnTime) ==
    IF computed = Failed THEN stored
    ELSE [reputation |-> computed,
          history |-> IF <<computed.score, computed.tier>> = <<stored.reputation.score, stored.reputation.tier>>
                      THEN stored.history ELSE stored.history \cup {wasOnTime}]

\* A recomputation by hand always adds a row, and fails aloud.
Recomputed(stored, computed) ==
    IF computed = Failed THEN stored
    ELSE [reputation |-> computed, history |-> stored.history \cup {"manual"}]

-----------------------------------------------------------------------------
(* The risk of an investor and of an invoice.                              *)

ExperiencePoints == [none |-> 0, limited |-> 15, experienced |-> 30]
HorizonPoints == [short |-> 0, medium |-> 12, long |-> 25]
TolerancePoints == [low |-> 0, medium |-> 12, high |-> 25]

\* Points times five: a loss of so many percent counts a fifth of it, up to 20.
FivePoints(answers) ==
    5 * (ExperiencePoints[answers.experience] + HorizonPoints[answers.horizon]
            + TolerancePoints[answers.tolerance]) + AtMost(answers.loss, 100)

IsValid(answers) == answers.loss \in 0 .. 100

RiskTier(answers) ==
    LET points == FivePoints(answers)
    IN  CASE points <= 5 * 33 -> "conservative" [] points <= 5 * 66 -> "moderate" [] OTHER -> "aggressive"

\* saveRiskProfile: the new answers replace the old, unless they are refused.
SavedProfile(profile, answers) == IF IsValid(answers) THEN {RiskTier(answers)} ELSE profile

Allowed(tier) ==
    CASE tier = "conservative" -> {"low"}
      [] tier = "moderate" -> {"low", "medium"}
      [] tier = "aggressive" -> {"low", "medium", "high"}

\* The invoice's risk; one without a score counts as 50.
NoScore == -1
RiskCategory(score) ==
    LET known == IF score = NoScore THEN 50 ELSE score
    IN  CASE known < 33 -> "low" [] known > 66 -> "high" [] OTHER -> "medium"

\* createInvestment: `profile` holds the tier of the investor, or nothing.  A
\* check that fails for another reason than its answer refuses nobody.
MayInvest(profile, score, invoiceFound, readsFail) ==
    \/ readsFail \/ ~invoiceFound
    \/ \E tier \in profile : RiskCategory(score) \in Allowed(tier)
=============================================================================
