------------------------- MODULE FeatureFlags_proofs -------------------------
(***************************************************************************)
(* What FeatureFlags promises for every set of merchants, users and        *)
(* requests: one row per scope, a PUT that takes effect, and a batch       *)
(* filter that agrees with is_enabled.                                     *)
(***************************************************************************)
EXTENDS FeatureFlags, TLAPS

\* What scalar_one_or_none can answer without raising: no row, or the enabled column of
\* one.
RowOrNone == {<<>>} \cup {<<b>> : b \in BOOLEAN}

RequestStates ==
  [pc : {"idle", "write"}, scope : Scopes, enabled : BOOLEAN, read : RowOrNone]

\* The inductive invariant: no scope has two rows, and no request has read two.
IInv ==
  /\ rows \in [Scopes -> RowOrNone]
  /\ request \in [Requests -> RequestStates]

\* A row that was inserted where there was none is the only one.
LEMMA FirstRow ==
  ASSUME NEW b \in BOOLEAN
  PROVE  Append(<<>>, b) = <<b>> /\ <<b>> \in RowOrNone
  BY DEF RowOrNone

\* At the start there are neither flags nor requests.
LEMMA InitIInv == Init => IInv
  <1>1. GlobalScope \in Scopes
    BY DEF GlobalScope, Scopes
  <1>2. <<>> \in RowOrNone
    BY DEF RowOrNone
  <1> QED
    BY <1>1, <1>2 DEF Init, IInv, NoRequest, RequestStates

\* Reading and writing a flag keep the invariant: the index refuses the second INSERT,
\* and an UPDATE leaves one row.
LEMMA NextIInv == IInv /\ [Next]_vars => IInv'
  <1> SUFFICES ASSUME IInv, [Next]_vars PROVE IInv'
    OBVIOUS
  <1>n. NoRequest \in RequestStates
    <2>1. GlobalScope \in Scopes /\ <<>> \in RowOrNone
      BY DEF GlobalScope, Scopes, RowOrNone
    <2> QED BY <2>1 DEF NoRequest, RequestStates
  <1>1. ASSUME NEW q \in Requests, SetFeatureFlag(q) PROVE IInv'
    <2>1. PICK sc \in Scopes, enabled \in BOOLEAN : ReadFlag(q, sc, enabled)
      BY <1>1 DEF SetFeatureFlag
    <2>2. [pc |-> "write", scope |-> sc, enabled |-> enabled, read |-> rows[sc]] \in RequestStates
      BY DEF IInv, RequestStates
    <2> QED BY <2>1, <2>2 DEF ReadFlag, IInv
  <1>2. ASSUME NEW q \in Requests, WriteFlag(q) PROVE IInv'
    <2> DEFINE r == request[q]
    <2>1. r.scope \in Scopes /\ r.enabled \in BOOLEAN
      BY DEF IInv, RequestStates
    <2>2. <<r.enabled>> \in RowOrNone
      BY <2>1, FirstRow
    <2>3. rows[r.scope] = <<>> => Append(rows[r.scope], r.enabled) \in RowOrNone
      BY <2>1, FirstRow
    <2>4. rows' \in [Scopes -> RowOrNone]
      BY <1>2, <2>1, <2>2, <2>3 DEF WriteFlag, UniqueIndexAllows, IInv
    <2> QED BY <1>2, <1>n, <2>4 DEF WriteFlag, IInv
  <1>3. CASE UNCHANGED vars
    BY <1>3 DEF vars, IInv
  <1> QED BY <1>1, <1>2, <1>3 DEF Next

\* However many requests set one flag, each after a read that may be stale, a scope never
\* has two rows.
THEOREM OneRowAlways == Spec => []OneRowPerScope
  <1>1. Init => IInv BY InitIInv
  <1>2. IInv /\ [Next]_vars => IInv' BY NextIInv
  <1>3. IInv => OneRowPerScope
    <2> SUFFICES ASSUME IInv, NEW sc \in Scopes PROVE Len(rows[sc]) <= 1
      BY DEF OneRowPerScope
    <2>1. rows[sc] \in RowOrNone BY DEF IInv
    <2>2. CASE rows[sc] = <<>> BY <2>2
    <2>3. ASSUME NEW b \in BOOLEAN, rows[sc] = <<b>> PROVE Len(rows[sc]) <= 1
      BY <2>3
    <2> QED BY <2>1, <2>2, <2>3 DEF RowOrNone
  <1> QED BY <1>1, <1>2, <1>3, PTL DEF Spec

\* A PUT that ends has set its flag, unless the row is no longer the one it has read.
THEOREM SetTakesEffect == Spec => SetTakesEffectUnlessRaced
  <1> DEFINE Effect ==
        \A q \in Requests : request[q].pc = "write" /\ request'[q].pc = "idle" =>
          LET r == request[q] IN rows'[r.scope] = <<r.enabled>> \/ rows[r.scope] # r.read
  <1>1. IInv /\ [Next]_vars => [Effect]_vars
    <2> SUFFICES ASSUME IInv, Next,
                        NEW q \in Requests, request[q].pc = "write", request'[q].pc = "idle",
                        rows[request[q].scope] = request[q].read
                 PROVE  rows'[request[q].scope] = <<request[q].enabled>>
      OBVIOUS
    <2>0. /\ request[q].scope \in Scopes /\ request[q].enabled \in BOOLEAN
          /\ rows[request[q].scope] \in RowOrNone
      BY DEF IInv, RequestStates
    <2>1. ASSUME NEW p \in Requests, SetFeatureFlag(p) PROVE FALSE
      <3>1. PICK sc \in Scopes, enabled \in BOOLEAN : ReadFlag(p, sc, enabled)
        BY <2>1 DEF SetFeatureFlag
      <3> QED BY <3>1 DEF ReadFlag, IInv
    <2>2. PICK p \in Requests : WriteFlag(p)
      BY <2>1 DEF Next
    <2>3. p = q
      BY <2>2 DEF WriteFlag, IInv
    <2>4. CASE request[q].read # <<>>
      BY <2>0, <2>2, <2>3, <2>4 DEF WriteFlag, IInv
    <2>5. CASE request[q].read = <<>>
      <3>1. Append(<<>>, request[q].enabled) = <<request[q].enabled>>
        BY <2>0, FirstRow
      <3> QED BY <2>0, <2>2, <2>3, <2>5, <3>1 DEF WriteFlag, UniqueIndexAllows, IInv
    <2> QED BY <2>4, <2>5
  <1>2. Init => IInv BY InitIInv
  <1>3. IInv /\ [Next]_vars => IInv' BY NextIInv
  <1> QED BY <1>1, <1>2, <1>3, PTL DEF Spec, SetTakesEffectUnlessRaced

\* Without a global flag the answer of evaluate_scopes for a scope in the batch is that of
\* is_enabled, whatever else is in the batch.
LEMMA BatchAgrees ==
  ASSUME ~Found(GlobalScope), NEW scopes, NEW sc \in scopes, sc[1] # "global"
  PROVE  EvaluateScopes(scopes)[sc] = IsEnabled(sc)
  BY DEF EvaluateScopes, FetchedScopes, IsEnabled

\* The batch filter of the job agrees with is_enabled as long as there is no global flag.
\* The statement is about every table of flags, reachable or not.
THEOREM FilterAgreesAlways == Spec => []FilterAgreesWithoutGlobal
  <1>1. FilterAgreesWithoutGlobal
    <2> SUFFICES ASSUME ~Found(GlobalScope), NEW batch \in SUBSET (Users \X Merchants)
                 PROVE  FilterEligible(batch) =
                          {x \in batch : IsEnabled(<<"user", x[1]>>) /\ IsEnabled(<<"merchant", x[2]>>)}
      BY DEF FilterAgreesWithoutGlobal
    <2> DEFINE scopes == UNION {{<<"user", x[1]>>, <<"merchant", x[2]>>} : x \in batch}
               results == EvaluateScopes(scopes)
    <2>1. ASSUME NEW x \in batch
          PROVE  /\ results[<<"user", x[1]>>] = IsEnabled(<<"user", x[1]>>)
                 /\ results[<<"merchant", x[2]>>] = IsEnabled(<<"merchant", x[2]>>)
      <3>1. <<"user", x[1]>> \in scopes /\ <<"merchant", x[2]>> \in scopes
        OBVIOUS
      <3> HIDE DEF scopes
      <3> QED BY <3>1, BatchAgrees
    <2>2. FilterEligible(batch) =
            {x \in batch : results[<<"user", x[1]>>] /\ results[<<"merchant", x[2]>>]}
      BY DEF FilterEligible
    <2> HIDE DEF results
    <2> QED BY <2>1, <2>2
  <1> QED BY <1>1, PTL
=============================================================================
