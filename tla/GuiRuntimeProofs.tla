--------------------------- MODULE GuiRuntimeProofs ---------------------------
(***************************************************************************)
(* The promises of GuiRuntime about tabs, close requests and quitting, for *)
(* any number of tabs.  They rest on target ids being given out once.      *)
(***************************************************************************)
EXTENDS GuiRuntime, Integers, SequenceTheorems, TLAPS

Ids == 1 .. next_tab_id - 1

\* Every id in use has been given out, and no two tabs have the same.
IdsGivenOnce ==
  /\ ToSet(tabs) \subseteq Ids /\ ToSet(posted) \subseteq Ids
  /\ \A i, j \in DOMAIN tabs : tabs[i] = tabs[j] => i = j

\* Before Initialize there is nothing.
NothingYet == phase = "new" => tabs = <<>> /\ next_tab_id = 1 /\ ~shown

IInv ==
  /\ TypeOK
  /\ IdsGivenOnce
  /\ NothingYet
  /\ PostedNamesTheAsker
  /\ ZeroTabsAsConfigured
  /\ QuitsOnce

-----------------------------------------------------------------------------
(* Sequences.                                                              *)

\* The sequence without its element i, which vector::erase leaves.
LEMMA RemoveAtElements ==
  ASSUME NEW S, NEW s \in Seq(S), NEW i \in DOMAIN s
  PROVE  /\ RemoveAt(s, i) \in Seq(S)
         /\ Len(RemoveAt(s, i)) = Len(s) - 1
         /\ \A j \in 1 .. Len(s) - 1 :
              RemoveAt(s, i)[j] = IF j < i THEN s[j] ELSE s[j + 1]
<1> DEFINE a == SubSeq(s, 1, i - 1)
           b == SubSeq(s, i + 1, Len(s))
<1>1. a \in Seq(S) /\ Len(a) = i - 1 /\ \A j \in 1 .. i - 1 : a[j] = s[j]
  OBVIOUS
<1>2. b \in Seq(S) /\ Len(b) = Len(s) - i /\ \A j \in 1 .. Len(s) - i : b[j] = s[j + i]
  OBVIOUS
<1> HIDE DEF a, b
<1>3. RemoveAt(s, i) = a \o b
  BY DEF a, b, RemoveAt
<1>4. i \in 1 .. Len(s)
  OBVIOUS
<1>5. a \o b \in Seq(S) /\ Len(a \o b) = Len(s) - 1
  BY <1>1, <1>2, <1>4
<1>6. ASSUME NEW j \in 1 .. Len(s) - 1
      PROVE  (a \o b)[j] = IF j < i THEN s[j] ELSE s[j + 1]
  <2>1. CASE j < i
    BY <1>1, <1>2, <1>4, <2>1
  <2>2. CASE ~(j < i)
    <3>1. (a \o b)[j] = b[j - (i - 1)] /\ j - (i - 1) \in 1 .. Len(s) - i
      BY <1>1, <1>2, <1>4, <2>2
    <3>2. i + (j - (i - 1)) = j + 1
      BY <1>4
    <3> QED BY <1>2, <2>2, <3>1, <3>2
  <2> QED BY <2>1, <2>2
<1> QED BY <1>3, <1>5, <1>6

\* A tab that is found is erased, and only that one.
LEMMA ErasedOne ==
  ASSUME TypeOK, IdsGivenOnce, NEW id \in ToSet(tabs)
  PROVE  LET left == RemoveAt(tabs, Position(id))
         IN  /\ left \in Seq(1 .. MaxTabs)
             /\ Len(left) = Len(tabs) - 1
             /\ ToSet(left) = ToSet(tabs) \ {id}
             /\ \A i, j \in DOMAIN left : left[i] = left[j] => i = j
<1> DEFINE p == Position(id)
           left == RemoveAt(tabs, p)
<1>1. p \in DOMAIN tabs /\ tabs[p] = id
  BY DEF Position, ToSet
<1> HIDE DEF p
<1>2. /\ left \in Seq(1 .. MaxTabs)
      /\ Len(left) = Len(tabs) - 1
      /\ \A j \in 1 .. Len(tabs) - 1 :
           left[j] = IF j < p THEN tabs[j] ELSE tabs[j + 1]
  BY <1>1, RemoveAtElements DEF TypeOK
<1> HIDE DEF left
<1>3. /\ tabs \in Seq(1 .. MaxTabs) /\ p \in 1 .. Len(tabs)
      /\ \A i, j \in 1 .. Len(tabs) : tabs[i] = tabs[j] => i = j
  BY <1>1 DEF TypeOK, IdsGivenOnce
<1>4. DOMAIN left = 1 .. Len(tabs) - 1 /\ DOMAIN tabs = 1 .. Len(tabs)
  BY <1>2, <1>3
<1>5. \A i, j \in DOMAIN left : left[i] = left[j] => i = j
  BY <1>2, <1>3, <1>4
<1>6. \A j \in DOMAIN left : left[j] \in ToSet(tabs) /\ left[j] # id
  BY <1>1, <1>2, <1>3, <1>4 DEF ToSet
<1>7. ASSUME NEW k \in DOMAIN tabs, tabs[k] # id
      PROVE  \E j \in DOMAIN left : left[j] = tabs[k]
  <2>1. CASE k < p
    BY <1>2, <1>3, <1>4, <2>1
  <2>2. CASE k > p
    <3>1. k - 1 \in DOMAIN left /\ left[k - 1] = tabs[k]
      BY <1>2, <1>3, <1>4, <2>2
    <3> QED BY <3>1
  <2> QED BY <1>1, <1>3, <1>4, <1>7, <2>1, <2>2
<1>8. ToSet(left) = ToSet(tabs) \ {id}
  BY <1>6, <1>7 DEF ToSet
<1> QED BY <1>2, <1>5, <1>8 DEF left, p

LEMMA AppendElements ==
  ASSUME NEW S, NEW s \in Seq(S), NEW e \in S
  PROVE  /\ Append(s, e) \in Seq(S) /\ Append(s, e) # <<>>
         /\ Len(Append(s, e)) = Len(s) + 1
         /\ ToSet(Append(s, e)) = ToSet(s) \cup {e}
<1>1. /\ Append(s, e) \in Seq(S) /\ Len(Append(s, e)) = Len(s) + 1
      /\ \A j \in 1 .. Len(s) : Append(s, e)[j] = s[j]
      /\ Append(s, e)[Len(s) + 1] = e
  OBVIOUS
<1> DEFINE t == Append(s, e)
<1> HIDE DEF t
<1>2. t \in Seq(S) /\ Len(t) = Len(s) + 1 /\ t[Len(s) + 1] = e
      /\ \A j \in 1 .. Len(s) : t[j] = s[j]
  BY <1>1 DEF t
<1>3. DOMAIN t = 1 .. Len(s) + 1 /\ DOMAIN s = 1 .. Len(s)
  BY <1>2
<1>4. ToSet(t) = ToSet(s) \cup {e}
  BY <1>2, <1>3 DEF ToSet
<1>5. t # <<>>
  BY <1>2
<1> QED BY <1>2, <1>4, <1>5 DEF t

LEMMA TailElements ==
  ASSUME NEW S, NEW s \in Seq(S), s # <<>>
  PROVE  Tail(s) \in Seq(S) /\ Head(s) \in ToSet(s) /\ ToSet(Tail(s)) \subseteq ToSet(s)
BY DEF ToSet

LEMMA IntervalGrows ==
  ASSUME NEW a \in Int, NEW b \in Int, a <= b
  PROVE  1 .. a - 1 \subseteq 1 .. b - 1
OBVIOUS

\* PostedNamesTheAsker as a fact of sets.
LEMMA PostedAsSet ==
  PostedNamesTheAsker <=> ToSet(posted) \cap ToSet(tabs) \cap closable = {}
BY DEF PostedNamesTheAsker, ToSet

LEMMA PostedAsSetNext ==
  PostedNamesTheAsker' <=> ToSet(posted') \cap ToSet(tabs') \cap closable' = {}
BY DEF PostedNamesTheAsker, ToSet

-----------------------------------------------------------------------------
(* The steps.                                                              *)

LEMMA InitEstablishes == Init => IInv
<1> SUFFICES ASSUME Init PROVE IInv
  OBVIOUS
<1>1. ToSet(tabs) = {} /\ ToSet(posted) = {} /\ DOMAIN tabs = {}
  BY DEF Init, ToSet
<1>2. TypeOK
  <2>1. tabs \in Seq(1 .. MaxTabs) /\ posted \in Seq(1 .. MaxTabs)
    BY DEF Init
  <2>2. MaxTabs \in Nat /\ 1 \in 1 .. MaxTabs + 1
    BY MaxTabsAssumption
  <2>3. closable \subseteq ToSet(tabs) /\ active_target_id \in 0 .. MaxTabs
        /\ next_tab_id \in 1 .. MaxTabs + 1 /\ quits \in Nat
    BY <2>2 DEF Init
  <2>4. /\ phase \in {"new", "up", "failed", "gone"}
        /\ options \in [create_initial_tab : BOOLEAN, shutdown_on_zero_tabs : BOOLEAN]
        /\ shutdown_started \in BOOLEAN /\ shown \in BOOLEAN /\ asked \in BOOLEAN
    BY DEF Init
  <2> QED BY <2>1, <2>3, <2>4 DEF TypeOK
<1>3. PostedNamesTheAsker
  BY <1>1, PostedAsSet
<1> QED BY <1>1, <1>2, <1>3 DEF Init, IInv, IdsGivenOnce, NothingYet,
           ZeroTabsAsConfigured, QuitsOnce

\* However the quit is asked for, it is asked for once.
LEMMA QuitOnce ==
  ASSUME TypeOK, QuitsOnce, RequestQuit
  PROVE  shutdown_started' = TRUE /\ quits' = 1
BY DEF TypeOK, QuitsOnce, RequestQuit, endVars

\* A tab is added under an id that no tab and no task has.
LEMMA NewTabKeeps ==
  ASSUME IInv, NewTab, next_tab_id <= MaxTabs, phase' = "up",
         UNCHANGED <<options, posted, endVars, asked>>
  PROVE  IInv'
<1> USE DEF IInv
<1>1. next_tab_id \in 1 .. MaxTabs /\ next_tab_id' = next_tab_id + 1
      /\ next_tab_id \notin Ids /\ MaxTabs \in Nat
  BY MaxTabsAssumption DEF NewTab, TypeOK, Ids
<1>2. /\ tabs' \in Seq(1 .. MaxTabs) /\ tabs' # <<>>
      /\ ToSet(tabs') = ToSet(tabs) \cup {next_tab_id}
  <2>1. tabs \in Seq(1 .. MaxTabs) /\ tabs' = Append(tabs, next_tab_id)
    BY DEF TypeOK, NewTab
  <2> QED BY <1>1, <2>1, AppendElements
<1>3. TypeOK'
  BY <1>1, <1>2 DEF TypeOK, NewTab, endVars
<1>4. IdsGivenOnce'
  <2>1. ToSet(tabs') \subseteq Ids' /\ ToSet(posted') \subseteq Ids'
    BY <1>1, <1>2 DEF IdsGivenOnce, Ids, TypeOK
  <2>2. ASSUME NEW i \in DOMAIN tabs', NEW j \in DOMAIN tabs', tabs'[i] = tabs'[j]
        PROVE  i = j
    <3>1. /\ tabs \in Seq(1 .. MaxTabs) /\ tabs' = Append(tabs, next_tab_id)
          /\ \A k \in 1 .. Len(tabs) : tabs[k] # next_tab_id
          /\ \A k, l \in 1 .. Len(tabs) : tabs[k] = tabs[l] => k = l
      <4>1. tabs \in Seq(1 .. MaxTabs) /\ tabs' = Append(tabs, next_tab_id)
        BY DEF TypeOK, NewTab
      <4>2. DOMAIN tabs = 1 .. Len(tabs)
        BY <4>1
      <4>3. \A k \in DOMAIN tabs : tabs[k] \in Ids
        BY DEF IdsGivenOnce, ToSet
      <4>4. \A k, l \in DOMAIN tabs : tabs[k] = tabs[l] => k = l
        BY DEF IdsGivenOnce
      <4> QED BY <1>1, <4>1, <4>2, <4>3, <4>4
    <3>2. /\ i \in 1 .. Len(tabs) + 1 /\ j \in 1 .. Len(tabs) + 1
          /\ tabs'[Len(tabs) + 1] = next_tab_id
          /\ \A k \in 1 .. Len(tabs) : tabs'[k] = tabs[k]
          /\ \A k \in 1 .. Len(tabs) + 1 : k \in 1 .. Len(tabs) \/ k = Len(tabs) + 1
      <4>1. next_tab_id \in 1 .. MaxTabs
        BY <1>1 DEF TypeOK, NewTab
      <4>2. /\ tabs' \in Seq(1 .. MaxTabs) /\ Len(tabs') = Len(tabs) + 1
            /\ tabs'[Len(tabs) + 1] = next_tab_id
            /\ \A k \in 1 .. Len(tabs) : tabs'[k] = tabs[k]
        BY <3>1, <4>1, AppendProperties
      <4>3. DOMAIN tabs' = 1 .. Len(tabs) + 1 /\ Len(tabs) \in Nat
        BY <3>1, <4>2
      <4> QED BY <2>2, <4>2, <4>3
    <3> QED BY <2>2, <3>1, <3>2
  <2> QED BY <2>1, <2>2 DEF IdsGivenOnce
<1>5. PostedNamesTheAsker'
  BY <1>1, <1>2, PostedAsSet, PostedAsSetNext DEF IdsGivenOnce, NewTab
<1> QED BY <1>2, <1>3, <1>4, <1>5 DEF NothingYet, ZeroTabsAsConfigured, QuitsOnce,
           endVars

\* A tab is erased, and the last one may end the runtime.
LEMMA EraseKeeps ==
  ASSUME IInv, NEW id \in ToSet(tabs), Erase(id), phase = "up",
         posted' \in Seq(1 .. MaxTabs), ToSet(posted') \subseteq ToSet(posted),
         UNCHANGED <<phase, options, next_tab_id, shown, asked>>
  PROVE  IInv'
<1> USE DEF IInv
<1>1. /\ tabs' \in Seq(1 .. MaxTabs)
      /\ ToSet(tabs') = ToSet(tabs) \ {id}
      /\ \A i, j \in DOMAIN tabs' : tabs'[i] = tabs'[j] => i = j
  BY ErasedOne DEF Erase
<1>2. active_target_id' \in 0 .. MaxTabs
  <2>1. tabs' # <<>> => tabs'[1] \in 1 .. MaxTabs
    <3> SUFFICES ASSUME tabs' # <<>> PROVE tabs'[1] \in 1 .. MaxTabs
      OBVIOUS
    <3>1. Len(tabs') \in Nat \ {0}
      BY <1>1, EmptySeq
    <3>2. 1 \in 1 .. Len(tabs')
      BY <3>1
    <3> QED BY <1>1, <3>2, ElementOfSeq
  <2> QED BY <2>1, MaxTabsAssumption DEF Erase, Fallback, TypeOK
<1>3. closable' = closable \ {id}
  BY DEF Erase
<1>4. \/ UNCHANGED endVars /\ ~(tabs' = <<>> /\ options.shutdown_on_zero_tabs)
      \/ /\ shutdown_started' = TRUE /\ quits' = 1
         /\ options.shutdown_on_zero_tabs
  BY QuitOnce DEF Erase
<1>5. shutdown_started' \in BOOLEAN /\ quits' \in Nat /\ QuitsOnce'
  <2>1. shutdown_started \in BOOLEAN /\ quits \in Nat /\ QuitsOnce
    BY DEF TypeOK
  <2>2. CASE UNCHANGED endVars
    BY <2>1, <2>2 DEF endVars, QuitsOnce
  <2>3. CASE shutdown_started' = TRUE /\ quits' = 1
    BY <2>3 DEF QuitsOnce
  <2> QED BY <1>4, <2>2, <2>3
<1>6. TypeOK'
  BY <1>1, <1>2, <1>3, <1>5 DEF TypeOK
<1>7. IdsGivenOnce'
  BY <1>1 DEF IdsGivenOnce, Ids
<1>8. PostedNamesTheAsker'
  BY <1>1, <1>3, PostedAsSet, PostedAsSetNext
<1>9. ZeroTabsAsConfigured'
  BY <1>4 DEF endVars, ZeroTabsAsConfigured
<1> QED BY <1>5, <1>6, <1>7, <1>8, <1>9 DEF NothingYet

\* Every tab goes.
LEMMA ClearKeeps ==
  ASSUME IInv, tabs' = <<>>, active_target_id' = 0, closable' = {},
         posted' \in {posted, <<>>}, phase' \in {"up", "gone"},
         shutdown_started' \in BOOLEAN, quits' \in Nat, asked' \in BOOLEAN,
         ZeroTabsAsConfigured', QuitsOnce',
         UNCHANGED <<options, next_tab_id, shown>>
  PROVE  IInv'
<1> USE DEF IInv
<1>1. ToSet(tabs') = {} /\ DOMAIN tabs' = {} /\ tabs' \in Seq(1 .. MaxTabs)
  BY DEF ToSet
<1>2. posted' \in Seq(1 .. MaxTabs) /\ ToSet(posted') \subseteq ToSet(posted)
  <2>1. <<>> \in Seq(1 .. MaxTabs) /\ ToSet(<<>>) = {}
    BY DEF ToSet
  <2> QED BY <2>1 DEF TypeOK
<1>3. TypeOK'
  BY <1>1, <1>2, MaxTabsAssumption DEF TypeOK
<1>4. IdsGivenOnce' /\ PostedNamesTheAsker'
  BY <1>1, <1>2, PostedAsSetNext DEF IdsGivenOnce, Ids
<1> QED BY <1>3, <1>4 DEF NothingYet

\* A call that finds nothing to do, and a window's request to close.
LEMMA NoTabKeeps ==
  ASSUME IInv, NoTab, next_tab_id <= MaxTabs, phase' \in {"up", "failed"},
         UNCHANGED <<options, posted, endVars, asked>>,
         phase = "new" \/ phase' = phase
  PROVE  IInv'
<1> USE DEF IInv
<1>1. /\ UNCHANGED <<tabs, active_target_id, closable, shown, options, posted,
                     shutdown_started, quits, asked>>
      /\ next_tab_id' \in {next_tab_id, next_tab_id + 1}
  BY DEF NoTab, tabVars, endVars
<1>2. next_tab_id' \in 1 .. MaxTabs + 1 /\ Ids \subseteq Ids'
  <2>1. MaxTabs \in Nat /\ next_tab_id \in 1 .. MaxTabs
    BY MaxTabsAssumption DEF TypeOK
  <2>2. next_tab_id' \in 1 .. MaxTabs + 1 /\ next_tab_id <= next_tab_id'
    BY <1>1, <2>1
  <2>3. next_tab_id \in Int /\ next_tab_id' \in Int /\ next_tab_id <= next_tab_id'
    BY <2>1, <2>2
  <2>4. 1 .. next_tab_id - 1 \subseteq 1 .. next_tab_id' - 1
    BY <2>3, IntervalGrows
  <2> QED BY <2>2, <2>4 DEF Ids
<1>3. TypeOK'
  BY <1>1, <1>2 DEF TypeOK
<1>4. IdsGivenOnce'
  BY <1>1, <1>2 DEF IdsGivenOnce
<1>5. PostedNamesTheAsker' /\ QuitsOnce'
  BY <1>1 DEF PostedNamesTheAsker, QuitsOnce
<1>6. ZeroTabsAsConfigured'
  BY <1>1 DEF ZeroTabsAsConfigured, NothingYet
<1> QED BY <1>3, <1>4, <1>5, <1>6 DEF NothingYet

LEMMA InitializeKeeps == ASSUME IInv, Initialize PROVE IInv'
<1>1. next_tab_id <= MaxTabs
  BY MaxTabsAssumption DEF IInv, NothingYet, Initialize
<1>2. CASE NewTab /\ phase' = "up"
  BY <1>1, <1>2, NewTabKeeps DEF Initialize
<1>3. CASE NoTab /\ phase' = "failed"
  BY <1>1, <1>3, NoTabKeeps DEF Initialize
<1>4. CASE phase' = "up" /\ UNCHANGED <<tabVars, next_tab_id, shown>>
  BY <1>1, <1>4, NoTabKeeps DEF Initialize, NoTab
<1> QED BY <1>2, <1>3, <1>4 DEF Initialize

LEMMA CreateTabKeeps == ASSUME IInv, CreateTab PROVE IInv'
BY NewTabKeeps, NoTabKeeps DEF CreateTab

LEMMA CloseTabKeeps == ASSUME IInv, NEW target, CloseTab(target) PROVE IInv'
<1>1. posted' \in Seq(1 .. MaxTabs) /\ ToSet(posted') \subseteq ToSet(posted)
  BY DEF CloseTab, IInv, TypeOK
<1> QED BY <1>1, EraseKeeps DEF CloseTab

\* The window is on its way out, so its id may now be posted.
LEMMA CloseRequestKeeps ==
  ASSUME IInv, NEW id \in 1 .. MaxTabs, OnWindowCloseRequested(id)
  PROVE  IInv'
<1> USE DEF IInv, OnWindowCloseRequested
<1>1. /\ posted' \in Seq(1 .. MaxTabs)
      /\ ToSet(posted') = ToSet(posted) \cup {id}
  <2>1. posted \in Seq(1 .. MaxTabs) /\ posted' = Append(posted, id)
    BY DEF TypeOK
  <2>2. /\ Append(posted, id) \in Seq(1 .. MaxTabs)
        /\ ToSet(Append(posted, id)) = ToSet(posted) \cup {id}
    <3> DEFINE S == 1 .. MaxTabs
    <3>1. posted \in Seq(S) /\ id \in S
      BY <2>1
    <3> HIDE DEF S
    <3>2. Append(posted, id) \in Seq(S)
          /\ ToSet(Append(posted, id)) = ToSet(posted) \cup {id}
      BY <3>1, AppendElements
    <3> QED BY <3>2 DEF S
  <2> QED BY <2>1, <2>2
<1>2. closable' = closable \ {id} /\ id \in ToSet(tabs)
      /\ closable' \subseteq ToSet(tabs')
  BY DEF TypeOK
<1>3. UNCHANGED <<phase, options, tabs, active_target_id, next_tab_id,
                  shutdown_started, quits, shown, asked>>
  BY DEF endVars
<1>4. TypeOK'
  BY <1>1, <1>2, <1>3 DEF TypeOK
<1>5. IdsGivenOnce'
  BY <1>1, <1>2, <1>3 DEF IdsGivenOnce, Ids
<1>6. PostedNamesTheAsker'
  BY <1>1, <1>2, <1>3, PostedAsSet, PostedAsSetNext
<1> QED BY <1>3, <1>4, <1>5, <1>6 DEF NothingYet, ZeroTabsAsConfigured, QuitsOnce

LEMMA RemoveKeeps == ASSUME IInv, RemoveClosedWindow PROVE IInv'
<1> USE DEF IInv, RemoveClosedWindow
<1>1. /\ posted' \in Seq(1 .. MaxTabs)
      /\ ToSet(posted') \subseteq ToSet(posted)
  BY TailElements DEF TypeOK
<1>2. CASE Head(posted) \in ToSet(tabs)
  BY <1>1, <1>2, EraseKeeps
<1>3. CASE Head(posted) \notin ToSet(tabs)
  <2>1. UNCHANGED <<phase, options, tabs, active_target_id, closable, next_tab_id,
                    shutdown_started, quits, shown, asked>>
    BY <1>3 DEF endVars, tabVars
  <2>2. TypeOK'
    BY <1>1, <2>1 DEF TypeOK
  <2>3. IdsGivenOnce'
    BY <1>1, <2>1 DEF IdsGivenOnce, Ids
  <2>4. PostedNamesTheAsker'
    BY <1>1, <2>1, PostedAsSet, PostedAsSetNext
  <2> QED BY <2>1, <2>2, <2>3, <2>4 DEF NothingYet, ZeroTabsAsConfigured, QuitsOnce
<1> QED BY <1>2, <1>3

LEMMA ShutdownKeeps == ASSUME IInv, Shutdown PROVE IInv'
<1> USE DEF IInv, Shutdown
<1>1. shutdown_started' = TRUE /\ quits' = 1 /\ asked' = TRUE
  BY QuitOnce
<1>2. CASE ~shutdown_started
  BY <1>1, <1>2, ClearKeeps DEF ZeroTabsAsConfigured, QuitsOnce
<1>3. CASE shutdown_started
  <2>1. UNCHANGED <<phase, options, tabs, active_target_id, closable, next_tab_id,
                    posted, shutdown_started, shown>>
    BY <1>1, <1>3 DEF tabVars, TypeOK
  <2>2. TypeOK'
    BY <1>1, <2>1 DEF TypeOK
  <2> QED BY <1>1, <2>1, <2>2
          DEF IdsGivenOnce, Ids, PostedNamesTheAsker, NothingYet,
              ZeroTabsAsConfigured, QuitsOnce
<1> QED BY <1>2, <1>3 DEF TypeOK

LEMMA DestroyKeeps == ASSUME IInv, Destroy PROVE IInv'
<1>1. /\ shutdown_started' \in BOOLEAN /\ quits' \in Nat /\ asked' \in BOOLEAN
      /\ ZeroTabsAsConfigured' /\ QuitsOnce'
  BY DEF IInv, TypeOK, Destroy, endVars, ZeroTabsAsConfigured, QuitsOnce
<1> QED BY <1>1, ClearKeeps DEF Destroy

\* Every step keeps the invariant, whatever takes it.
LEMMA NextKeeps == ASSUME IInv, [Next]_vars PROVE IInv'
<1>1. CASE UNCHANGED vars
  BY <1>1 DEF vars, IInv, TypeOK, IdsGivenOnce, Ids, NothingYet,
              PostedNamesTheAsker, ZeroTabsAsConfigured, QuitsOnce
<1>2. CASE Next
  BY <1>2, InitializeKeeps, CreateTabKeeps, CloseTabKeeps, CloseRequestKeeps,
     RemoveKeeps, ShutdownKeeps, DestroyKeeps DEF Next
<1> QED BY <1>1, <1>2

-----------------------------------------------------------------------------
\* The invariant holds of every reachable state, for any number of tabs.
THEOREM Inductive == Spec => []IInv
<1>1. IInv /\ [Next]_vars => IInv'
  BY NextKeeps
<1> QED BY <1>1, InitEstablishes, PTL DEF Spec

\* RemoveClosedWindow never takes a window whose close button was not pressed,
\* however many calls come between the press and the task.
THEOREM PostedIsRight == Spec => []PostedNamesTheAsker
<1>1. IInv => PostedNamesTheAsker
  BY DEF IInv
<1> QED BY <1>1, Inductive, PTL

\* The end of the last tab, by CloseTab or by its window, ends the runtime or
\* leaves it idle, as options_ has it.
THEOREM EndsAsConfigured == Spec => []ZeroTabsAsConfigured
<1>1. IInv => ZeroTabsAsConfigured
  BY DEF IInv
<1> QED BY <1>1, Inductive, PTL

\* quit_callback_ is run once, whoever shuts the runtime down and how often.
THEOREM OneQuit == Spec => []QuitsOnce
<1>1. IInv => QuitsOnce
  BY DEF IInv
<1> QED BY <1>1, Inductive, PTL

\* Whether a step leaves the active tab alone, if it removes another one.
ActiveStays ==
  (active_target_id \in ToSet(tabs) \cap ToSet(tabs') /\ Len(tabs') <= Len(tabs))
    => UNCHANGED active_target_id

\* Every step does.
LEMMA NextLeavesActive == ASSUME IInv, [Next]_vars PROVE ActiveStays
<1> USE DEF ActiveStays
<1>1. ASSUME NEW id \in ToSet(tabs), Erase(id) PROVE ActiveStays
  <2>1. ToSet(tabs') = ToSet(tabs) \ {id}
    BY <1>1, ErasedOne DEF IInv, Erase
  <2> QED BY <1>1, <2>1 DEF Erase
<1>2. ASSUME NewTab, next_tab_id <= MaxTabs PROVE ActiveStays
  <2>1. tabs \in Seq(1 .. MaxTabs) /\ next_tab_id \in 1 .. MaxTabs
        /\ tabs' = Append(tabs, next_tab_id)
    BY <1>2, MaxTabsAssumption DEF IInv, TypeOK, NewTab
  <2>2. Len(tabs') = Len(tabs) + 1 /\ Len(tabs) \in Nat
    BY <2>1, AppendElements, LenProperties
  <2> QED BY <2>2
<1>3. ASSUME tabs' = <<>> PROVE ActiveStays
  BY <1>3 DEF ToSet
<1>4. CASE Initialize
  <2>1. next_tab_id <= MaxTabs
    BY <1>4, MaxTabsAssumption DEF IInv, NothingYet, Initialize
  <2> QED BY <1>2, <1>4, <2>1 DEF Initialize, NoTab, tabVars
<1>5. CASE CreateTab
  BY <1>2, <1>5 DEF CreateTab, NoTab, tabVars
<1>6. ASSUME NEW target \in 0 .. MaxTabs, CloseTab(target) PROVE ActiveStays
  BY <1>1, <1>6 DEF CloseTab
<1>7. ASSUME NEW id \in 1 .. MaxTabs, OnWindowCloseRequested(id) PROVE ActiveStays
  BY <1>7 DEF OnWindowCloseRequested
<1>8. CASE RemoveClosedWindow
  BY <1>1, <1>8 DEF RemoveClosedWindow, tabVars
<1>9. CASE Shutdown
  BY <1>3, <1>9 DEF Shutdown, tabVars
<1>10. CASE Destroy
  BY <1>3, <1>10 DEF Destroy
<1>11. CASE UNCHANGED vars
  BY <1>11 DEF vars
<1> QED BY <1>4, <1>5, <1>6, <1>7, <1>8, <1>9, <1>10, <1>11 DEF Next

\* Neither CloseTab nor RemoveClosedWindow moves the active tab when it is not
\* the one that goes.
THEOREM ActiveIsKept == Spec => ActiveKept
<1>1. IInv /\ [Next]_vars => ActiveStays
  BY NextLeavesActive
<1> QED BY <1>1, Inductive, PTL DEF Spec, ActiveKept, ActiveStays
=============================================================================
