---------------------------- MODULE PhyDecision ----------------------------
(***************************************************************************)
(* One decision of the limiter: a proposed operating point goes through    *)
(* safety_clamp once.  The properties say what may be relied on of the     *)
(* limiter and of the policy engine that feeds it.  safety_clamp takes the *)
(* limits and the error rate as arguments, so a request carries them.      *)
(***************************************************************************)
EXTENDS PhyPolicy

CONSTANTS
  Requests,    \* Arbitrary proposals: records of p, l, rate and sec.
  Phases,      \* The phase ids looked up, known and unknown ones.
  Priorities   \* The priorities looked up.

Request == [p : phy_config, l : {l \in jedec_limits : LimitsOK(l)},
            rate : Nat, sec : Byte]

ASSUME RequestsAssumption == Requests \subseteq Request
ASSUME LookupAssumption   == Phases \subseteq Byte /\ Priorities \subseteq Byte

\* The policy engine's proposal for a phase; ecc_state is never written, so that
\* the error rate is 0.
Asked(phase_id, priority) ==
  [p |-> phase_to_phy_config(phase_id, priority), l |-> platform_limits,
   rate |-> 0, sec |-> 0]

\* The proposal of a test of the self-test.
Tried(test) == [p |-> test.p, l |-> platform_limits, rate |-> test.rate, sec |-> test.sec]

Proposals == Requests \cup {Asked(ph, q) : ph \in Phases, q \in Priorities}
                      \cup {Tried(test) : test \in Selftest}

VARIABLES
  request,     \* The proposal under decision.
  point,       \* The operating point: as proposed, then as limited.
  limited      \* Whether the limiter has run.

vars == <<request, point, limited>>

Init == /\ request \in Proposals
        /\ point = request.p
        /\ limited = FALSE

Limit == /\ ~limited
         /\ point' = safety_clamp(point, request.l, request.rate, request.sec)
         /\ limited' = TRUE
         /\ UNCHANGED request

Next == Limit

Spec == Init /\ [][Next]_vars

-----------------------------------------------------------------------------

\* Type invariant: stored values fit the fields of struct phy_config.
TypeOK == /\ request \in Proposals
          /\ point \in phy_config
          /\ limited \in BOOLEAN

\* No order of clamp, ECC relaxation and security floor leaves the module's
\* limits, and the floor is in force whenever security was asked for: the last
\* two stages of the limiter never undo what the first one established.
LimitedIsSafe ==
  limited => /\ Within(point, request.l)
             /\ request.sec > 0 => Floored(point)

\* The limiter is no stricter than it has to be: with healthy ECC a proposal
\* that is already safe comes out unchanged.
SafeIsUnchanged ==
  (/\ limited
   /\ request.rate <= EccThreshold
   /\ Within(request.p, request.l)
   /\ request.sec > 0 => Floored(request.p))
    => point = request.p

\* A slower proposal never yields a faster operating point, in spite of the
\* u8 arithmetic of the ECC stage: compared with the same proposal one clock
\* slower in every timing.
LimiterIsMonotone ==
  LET slower == [f \in Fields |-> IF f \in Timings THEN Smaller(request.p[f] + 1, U8Max)
                                                   ELSE request.p[f]]
  IN  limited => \A f \in Fields :
        point[f] <= safety_clamp(slower, request.l, request.rate, request.sec)[f]

\* Errors only ever slow the module down, and do so while there is room: a
\* relaxed timing moves, unless it is at its limit or held by the floor.
ErrorsRelax ==
  LET healthy == safety_clamp(request.p, request.l, 0, request.sec)
  IN  (limited /\ request.rate > EccThreshold) =>
        \A f \in Fields :
          /\ healthy[f] <= point[f]
          /\ (f \in Relaxable /\ request.sec = 0 /\ healthy[f] < request.l.max[f])
               => healthy[f] < point[f]

\* The policy engine deviates from nominal step by step: priority 0 is nominal
\* timing, a higher priority is never closer to nominal than a lower one nor on
\* its other side, and 7 and everything above is the table's row.
PriorityScales ==
  \A ph \in Phases, q \in Priorities : request = Asked(ph, q) =>
    LET c(k) == phase_to_phy_config(ph, k)
    IN  \A f \in Timings :
          /\ c(0)[f] = NominalRow[f]
          /\ q >= 7 => request.p[f] = BestMode(ph)[f]
          /\ \A k \in 0..Smaller(q, 7) :
               \/ NominalRow[f] <= c(k)[f] /\ c(k)[f] <= request.p[f]
               \/ request.p[f] <= c(k)[f] /\ c(k)[f] <= NominalRow[f]

\* Every row of the phase table, at every priority, already respects the
\* hard-coded platform limits: without errors or security the limiter changes
\* nothing the policy engine asks for.
TableNeedsNoLimiting ==
  \A ph \in Phases, q \in Priorities : request = Asked(ph, q) =>
    /\ Within(request.p, request.l)
    /\ limited => point = request.p

\* The five checks that the module makes of the limiter when it loads succeed.
SelftestPasses ==
  \A test \in Selftest :
    limited /\ request = Tried(test) => point[test.field] = test.want
=============================================================================
