----------------------- MODULE AsyncDebouncer_proofs ------------------------
(***************************************************************************)
(* Lemmas about the debouncer's operators, for every debouncer and every   *)
(* delay; the proofs about its two clients rest on them.                   *)
(***************************************************************************)
EXTENDS AsyncDebouncer, TLAPS

\* The scheduler always has a fresh token for a debouncer whose pending task,
\* if there is one, is the one it remembers (AsyncDebouncer.cxx:10-25).
LEMMA FreshTokenExists ==
    ASSUME NEW d \in Debouncer, d.scheduled \subseteq {d.taskToken}
    PROVE  /\ FreshToken(d) \in TaskTokens
           /\ FreshToken(d) \notin d.scheduled
           /\ FreshToken(d) # d.taskToken
<1>1. \E t \in TaskTokens : t \notin d.scheduled \cup {d.taskToken}
  <2>1. 1 \in TaskTokens /\ 2 \in TaskTokens
    BY DEF TaskTokens
  <2>2. CASE d.taskToken = 1
    BY <2>1, <2>2
  <2>3. CASE d.taskToken # 1
    BY <2>1, <2>3
  <2> QED BY <2>2, <2>3
<1> QED BY <1>1 DEF FreshToken

\* Debounce leaves exactly one task pending, the one the debouncer remembers,
\* and the update flag down, for every delay (AsyncDebouncer.cxx:10-25).
LEMMA DebounceOpensWindow ==
    ASSUME NEW d \in Debouncer, OneTaskPerWindow(d), NEW delay \in Int
    PROVE  /\ Debounce(d, delay) \in Debouncer
           /\ OneTaskPerWindow(Debounce(d, delay))
           /\ ~Debounce(d, delay).updateAllowed
<1> DEFINE dr == IF delay <= 0 THEN Reset(d) ELSE d
<1>1. /\ dr \in Debouncer
      /\ OneTaskPerWindow(dr)
  BY DEF Reset, Unschedule, OneTaskPerWindow, Debouncer
<1> HIDE DEF dr
<1>2. CASE dr.updateAllowed
  <2>1. dr.scheduled = {}
    BY <1>1, <1>2 DEF OneTaskPerWindow
  <2>2. FreshToken(dr) \in TaskTokens
    BY <1>1, <2>1, FreshTokenExists
  <2>3. Debounce(d, delay) = [Schedule(dr) EXCEPT !.updateAllowed = FALSE]
    BY <1>2 DEF Debounce, dr
  <2>4. Debounce(d, delay) = [updateAllowed |-> FALSE,
                              taskToken |-> FreshToken(dr),
                              scheduled |-> {FreshToken(dr)}]
    BY <2>1, <2>3 DEF Schedule
  <2> QED BY <2>2, <2>4 DEF OneTaskPerWindow, Debouncer
<1>3. CASE ~dr.updateAllowed
  <2> DEFINE du == Unschedule(dr)
  <2>1. du \in Debouncer /\ du.scheduled = {} /\ ~du.updateAllowed
    BY <1>1, <1>3 DEF Unschedule, OneTaskPerWindow, Debouncer
  <2>2. FreshToken(du) \in TaskTokens
    BY <2>1, FreshTokenExists
  <2>3. Debounce(d, delay) = Schedule(du)
    BY <1>3 DEF Debounce, dr
  <2>4. Debounce(d, delay) = [updateAllowed |-> FALSE,
                              taskToken |-> FreshToken(du),
                              scheduled |-> {FreshToken(du)}]
    BY <2>1, <2>3 DEF Schedule, Debouncer
  <2> QED BY <2>2, <2>4 DEF OneTaskPerWindow, Debouncer
<1> QED BY <1>2, <1>3

\* The pending task of a window ends it (AsyncDebouncer.cxx:27-34).
LEMMA DebounceTaskEndsWindow ==
    ASSUME NEW d \in Debouncer, OneTaskPerWindow(d), NEW token \in d.scheduled
    PROVE  /\ DebounceUpdateProc(d, token) \in Debouncer
           /\ OneTaskPerWindow(DebounceUpdateProc(d, token))
           /\ DebounceUpdateProc(d, token).updateAllowed
BY DEF DebounceUpdateProc, OneTaskPerWindow, Debouncer

=============================================================================
