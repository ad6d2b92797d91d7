----------------------------- MODULE FeatureFlags -----------------------------
(***************************************************************************)
(* Feature flags (app/feature_flags) and the filter the verification job   *)
(* builds on them (app/purchases/clients/feature_flags.py).                *)
(*                                                                         *)
(* Every query selects on the key first, so one key is enough.  A flag is  *)
(* for everyone (scope_type "global", scope_id NULL), for a merchant or    *)
(* for a user.  PUT /feature-flags/{key} reads the row of its scope and,   *)
(* after an await, updates it or inserts one.                              *)
(***************************************************************************)
EXTENDS Integers, Sequences

CONSTANTS
  Merchants, Users,
  Null,      \* SQL NULL: the scope_id of the global flag
  Requests   \* PUT requests that may be served at the same time

ASSUME FlagsAssumption == Null \notin Merchants \cup Users

\* validate_scope_id_required only asks for a scope_id where one is needed, so a
\* global flag may come with one.
Scopes ==
  ({"merchant"} \X Merchants) \cup ({"user"} \X Users)
    \cup ({"global"} \X (Merchants \cup {Null}))

GlobalScope == <<"global", Null>>

VARIABLES
  rows,    \* table feature_flags: the enabled column of each scope's rows
  request  \* per request: its step, its body and the row it has read

vars == <<rows, request>>

NoRequest == [pc |-> "idle", scope |-> GlobalScope, enabled |-> TRUE, read |-> <<>>]

Init ==
  /\ rows = [sc \in Scopes |-> <<>>]
  /\ request = [q \in Requests |-> NoRequest]

-----------------------------------------------------------------------------
(* Setting a flag.                                                          *)

\* set_flag up to get_by_key_and_scope.
ReadFlag(q, sc, enabled) ==
  /\ request[q].pc = "idle"
  /\ request' = [request EXCEPT ![q] =
       [pc |-> "write", scope |-> sc, enabled |-> enabled, read |-> rows[sc]]]
  /\ UNCHANGED rows

\* PUT /feature-flags/{key}; a body whose scope_id is missing is refused.
SetFeatureFlag(q) == \E sc \in Scopes, enabled \in BOOLEAN : ReadFlag(q, sc, enabled)

\* Mutant: a plain unique constraint, for which no two NULLs are equal.
UniqueIndexAllows_plain(sc) == sc[2] = Null \/ rows[sc] = <<>>

\* uq_feature_flags_key_scope: COALESCE makes two NULL scope ids equal.
UniqueIndexAllows(sc) == rows[sc] = <<>>

\* Mutant: a flag that exists keeps its value.
WriteFlag_insertOnly(q) ==
  LET r == request[q] IN
  /\ r.pc = "write"
  /\ rows' = IF r.read = <<>> /\ UniqueIndexAllows(r.scope)
               THEN [rows EXCEPT ![r.scope] = Append(@, r.enabled)] ELSE rows
  /\ request' = [request EXCEPT ![q] = NoRequest]

\* upsert and commit.  A row that was read is updated, and only if the value
\* differs from the one read; otherwise a row is inserted, or refused by the index.
WriteFlag(q) ==
  LET r == request[q] IN
  /\ r.pc = "write"
  /\ rows' = IF r.read # <<>>
               THEN IF r.read = <<r.enabled>> THEN rows
                                              ELSE [rows EXCEPT ![r.scope] = <<r.enabled>>]
               ELSE IF UniqueIndexAllows(r.scope)
                      THEN [rows EXCEPT ![r.scope] = Append(@, r.enabled)] ELSE rows
  /\ request' = [request EXCEPT ![q] = NoRequest]

Next ==
  \E q \in Requests :
    \/ SetFeatureFlag(q)
    \/ WriteFlag(q)

Spec == Init /\ [][Next]_vars

-----------------------------------------------------------------------------
(* Evaluating flags.                                                        *)

Found(sc) == rows[sc] # <<>>
Enabled(sc) == rows[sc][1]

\* FeatureFlagService.is_enabled: scoped flag, global flag, TRUE.
IsEnabled(sc) ==
  IF sc[1] # "global" /\ Found(sc) THEN Enabled(sc)
  ELSE IF Found(GlobalScope) THEN Enabled(GlobalScope) ELSE TRUE

\* get_multiple_by_key_and_scopes returns the rows of the scopes asked for.  The
\* condition meant to add the global flag holds "FeatureFlag.scope_id is None", which
\* Python evaluates to False: it selects nothing.
FetchedScopes(scopes) == {sc \in scopes : Found(sc)}

\* FeatureFlagService.evaluate_scopes over what was fetched.
EvaluateScopes(scopes) ==
  LET fetched == FetchedScopes(scopes) IN
  [sc \in scopes |->
     IF sc \in fetched /\ sc[1] # "global" THEN Enabled(sc)
     ELSE IF GlobalScope \in fetched THEN Enabled(GlobalScope) ELSE TRUE]

\* Mutant: only the user's flag counts.
FilterEligible_userOnly(purchases) ==
  LET results == EvaluateScopes({<<"user", x[1]>> : x \in purchases})
  IN {x \in purchases : results[<<"user", x[1]>>]}

\* filter_eligible_purchases for the purchases of the given (user, merchant) pairs:
\* one batch for all, both scopes of a purchase must be enabled.
FilterEligible(purchases) ==
  LET results == EvaluateScopes(UNION {{<<"user", x[1]>>, <<"merchant", x[2]>>} : x \in purchases})
  IN {x \in purchases : results[<<"user", x[1]>>] /\ results[<<"merchant", x[2]>>]}

-----------------------------------------------------------------------------
(* Properties.                                                              *)

\* However many admins set the same flag at once there is one row per scope, the
\* global scope included; a second row would make every later scalar_one_or_none
\* raise, and with it the API and the job.
OneRowPerScope == \A sc \in Scopes : Len(rows[sc]) <= 1

\* A PUT that ends leaves the flag at the value of its body, whether the row was there or
\* not, unless another request has changed that row since it was read.  Then either may
\* prevail, also the one that was committed first: the UPDATE is left out when the
\* body repeats the value that was read, and an INSERT that comes second is refused.
SetTakesEffectUnlessRaced ==
  [][\A q \in Requests : request[q].pc = "write" /\ request'[q].pc = "idle" =>
       LET r == request[q] IN rows'[r.scope] = <<r.enabled>> \/ rows[r.scope] # r.read]_vars

\* The job's batch filter and the evaluate endpoint agree about every purchase as
\* long as nobody has set the global flag, whichever purchases are in the same batch.
FilterAgreesWithoutGlobal ==
  ~Found(GlobalScope) =>
    \A batch \in SUBSET (Users \X Merchants) :
      FilterEligible(batch) =
        {x \in batch : IsEnabled(<<"user", x[1]>>) /\ IsEnabled(<<"merchant", x[2]>>)}
=============================================================================
