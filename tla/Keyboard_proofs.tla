--------------------------- MODULE Keyboard_proofs ---------------------------
(***************************************************************************)
(* The keyboard buffer keeps its keys in order, for every buffer size,     *)
(* every set of make codes and every layout, until a key press loses       *)
(* codes; and it implements KeyQueue.                                      *)
(***************************************************************************)
EXTENDS Keyboard, SequenceTheorems, TLAPS

\* Where the reader is, and what that says of the buffer it reads.
ReaderInv ==
    /\ pc = "compare" => reg = kb_buf_first
    /\ pc = "load" => unread # <<>>
    /\ pc = "advance" => unread # <<>> /\ reg = kb_buf_first
    /\ pc = "fetch" => /\ inflight # 0
                       /\ kb_buf[reg] = inflight
                       /\ kb_buf_first = Index(reg, 1)
                       /\ layout = "first" => reg < BufSize

\* As long as no code was lost there is room for what is unread, and the
\* indices have not wrapped when the byte behind the array is kb_buf_first.
RoomInv ==
    /\ Len(unread) <= BufSize
    /\ layout = "first" => kb_buf_first + Len(unread) <= BufSize
    /\ stale <= Len(unread)

\* No old code survives the clearing loop of wait_any_key.
DrainInv ==
    /\ overrun # "none" => stale = 0 /\ unread = <<>>
    /\ caller = "getch" => stale = 0
    /\ caller = "drain" /\ pc = "return" /\ ret = 0 => stale = 0

IInv ==
    /\ TypeOK
    /\ KeysInOrder
    /\ overrun = "none" => ReaderInv /\ RoomInv
    /\ DrainInv

\* Indices stay in the range of a u8 and add up.
LEMMA IndexType ==
    ASSUME NEW i \in 0 .. BufSize, NEW n \in 0 .. Wrap
    PROVE  Index(i, n) \in 0 .. BufSize
  BY BufSizeAssumption DEF Index, Wrap

LEMMA IndexNext ==
    ASSUME NEW i \in 0 .. BufSize, NEW n \in 0 .. BufSize
    PROVE  /\ Index(Index(i, 1), n) = Index(i, n + 1)
           /\ Index(Index(i, n), 1) = Index(i, n + 1)
  BY BufSizeAssumption DEF Index, Wrap

\* The initial state satisfies the invariant.
LEMMA InitIInv == Init => IInv
  <1> SUFFICES ASSUME Init PROVE IInv
    OBVIOUS
  <1>1. TypeOK
    BY BufSizeAssumption, LayoutsAssumption, KeysAssumption
       DEF Init, TypeOK, Places, Callers
  <1>2. KeysInOrder
    BY BufSizeAssumption DEF Init, KeysInOrder, Index, Wrap
  <1>3. ReaderInv /\ RoomInv /\ DrainInv
    BY BufSizeAssumption DEF Init, ReaderInv, RoomInv, DrainInv
  <1> QED BY <1>1, <1>2, <1>3 DEF IInv

\* A key press: the handler's step preserves the invariant.
LEMMA KeyPressedIInv ==
    ASSUME IInv, NEW k \in Keys, KeyPressed(k)
    PROVE  IInv'
  <1> USE BufSizeAssumption, LayoutsAssumption, KeysAssumption
  <1>1. /\ kb_buf_last \in 0 .. BufSize
        /\ kb_buf_first \in 0 .. BufSize
        /\ kb_buf \in [0 .. BufSize -> Keys \cup {0}]
        /\ unread \in Seq(Keys)
        /\ Len(unread) \in Nat
        /\ k \in 1 .. BufSize
    BY DEF IInv, TypeOK
  <1>2. Index(kb_buf_last, 1) \in 0 .. BufSize
    BY <1>1 DEF Index, Wrap
  <1>3. kb_buf' \in [0 .. BufSize -> Keys \cup {0}]
    BY <1>1 DEF KeyPressed, Store
  <1>4. kb_buf_first' \in 0 .. BufSize /\ kb_buf_last' \in 0 .. BufSize
    BY <1>1, <1>2 DEF KeyPressed, Store
  <1>5. TypeOK'
    <2>1. /\ unread' \in Seq(Keys)
          /\ inflight' \in Keys \cup {0}
          /\ stale' \in Nat
          /\ overrun' \in {"none", "full", "alias"}
      <3>1. /\ inflight \in Keys \cup {0}
            /\ stale \in Nat
            /\ overrun \in {"none", "full", "alias"}
            /\ Append(unread, k) \in Seq(Keys)
            /\ <<>> \in Seq(Keys)
        BY <1>1 DEF IInv, TypeOK
      <3>2. Damage \in {"none", "full", "alias"}
        BY DEF Damage
      <3>3. \/ UNCHANGED <<unread, inflight, stale, overrun>>
            \/ overrun' = Damage /\ unread' = <<>> /\ inflight' = 0 /\ stale' = 0
            \/ unread' = Append(unread, k) /\ UNCHANGED <<inflight, stale, overrun>>
        BY DEF KeyPressed, history
      <3>4. CASE UNCHANGED <<unread, inflight, stale, overrun>>
        BY <3>1, <3>4, <1>1
      <3>5. CASE overrun' = Damage /\ unread' = <<>> /\ inflight' = 0 /\ stale' = 0
        BY <3>1, <3>2, <3>5
      <3>6. CASE unread' = Append(unread, k) /\ UNCHANGED <<inflight, stale, overrun>>
        BY <3>1, <3>6
      <3> QED BY <3>3, <3>4, <3>5, <3>6
    <2>2. UNCHANGED <<layout, pc, reg, ret, caller>> /\ ring3' \in BOOLEAN
      BY DEF KeyPressed, readerVars
    <2> QED BY <1>3, <1>4, <2>1, <2>2 DEF IInv, TypeOK
  <1>6. CASE overrun' # "none"
    <2>1. DrainInv'
      BY <1>6 DEF IInv, DrainInv, KeyPressed, readerVars, history
    <2> QED BY <1>5, <1>6, <2>1 DEF IInv, KeysInOrder
  <1>7. CASE overrun' = "none"
    <2>1. /\ overrun = "none"
          /\ ~(layout = "first" /\ kb_buf_last = BufSize)
          /\ Len(unread) # BufSize
          /\ unread' = Append(unread, k)
          /\ kb_buf_first' = kb_buf_first
          /\ kb_buf_last' = Index(kb_buf_last, 1)
          /\ kb_buf' = [kb_buf EXCEPT ![kb_buf_last] = k]
          /\ UNCHANGED <<layout, pc, reg, ret, caller, inflight, stale, overrun>>
      BY <1>7 DEF KeyPressed, Store, Damage, readerVars, history
    <2>2. Len(unread) \in 0 .. BufSize - 1 /\ Len(unread') = Len(unread) + 1
      BY <1>1, <2>1 DEF IInv, RoomInv
    <2>3. kb_buf_last = Index(kb_buf_first, Len(unread))
      BY <2>1 DEF IInv, KeysInOrder
    <2>4. kb_buf_last' = Index(kb_buf_first', Len(unread'))
      BY <1>1, <2>1, <2>2, <2>3, IndexNext
    <2>5. ASSUME NEW i \in 1 .. Len(unread')
          PROVE  kb_buf'[Index(kb_buf_first', i - 1)] = unread'[i]
      <3>1. CASE i <= Len(unread)
        <4>1. i \in 1 .. Len(unread) /\ i - 1 \in 0 .. BufSize
          BY <1>1, <2>2, <3>1
        <4>2. Index(kb_buf_first, i - 1) # kb_buf_last
          <5>1. Len(unread) \in 0 .. BufSize /\ i - 1 # Len(unread)
            BY <2>2, <4>1
          <5>2. Index(kb_buf_first, i - 1) # Index(kb_buf_first, Len(unread))
            BY <1>1, <4>1, <5>1 DEF Index, Wrap
          <5> QED BY <2>3, <5>2
        <4>3. kb_buf[Index(kb_buf_first, i - 1)] = unread[i]
          BY <2>1, <4>1 DEF IInv, KeysInOrder
        <4>4. Index(kb_buf_first, i - 1) \in 0 .. BufSize
          BY <1>1, <4>1 DEF Index, Wrap
        <4>5. kb_buf'[Index(kb_buf_first', i - 1)] = kb_buf[Index(kb_buf_first, i - 1)]
          BY <1>1, <2>1, <4>2, <4>4
        <4>6. unread'[i] = unread[i]
          BY <1>1, <2>1, <4>1
        <4> QED BY <4>3, <4>5, <4>6
      <3>2. CASE i = Len(unread) + 1
        <4>1. Index(kb_buf_first', i - 1) = kb_buf_last
          BY <1>1, <2>1, <2>3, <3>2
        <4>2. unread'[i] = k
          BY <1>1, <2>1, <3>2
        <4> QED BY <1>1, <2>1, <4>1, <4>2
      <3> QED BY <1>1, <2>2, <3>1, <3>2
    <2>6. KeysInOrder'
      BY <2>4, <2>5 DEF KeysInOrder
    <2>7. RoomInv'
      <3>1. layout' = "first" => kb_buf_first' + Len(unread') <= BufSize
        <4>1. layout = "first" => kb_buf_last = kb_buf_first + Len(unread)
          BY <1>1, <2>1, <2>2, <2>3 DEF IInv, RoomInv, Index, Wrap
        <4>2. layout = "first" => kb_buf_last < BufSize
          BY <1>1, <2>1
        <4> QED BY <1>1, <2>1, <2>2, <4>1, <4>2
      <3>2. stale' <= Len(unread')
        <4>1. stale \in Nat /\ stale <= Len(unread)
          BY <2>1 DEF IInv, RoomInv, TypeOK
        <4> QED BY <1>1, <2>1, <2>2, <4>1
      <3> QED BY <1>1, <2>2, <3>1, <3>2 DEF RoomInv
    <2>8. ReaderInv'
      <3>1. ReaderInv
        BY <2>1 DEF IInv
      <3>2. unread' # <<>>
        BY <1>1, <2>2
      <3>3. ASSUME pc = "fetch" PROVE kb_buf'[reg] = inflight
        <4>1. reg \in 0 .. BufSize /\ kb_buf_first = Index(reg, 1) /\ kb_buf[reg] = inflight
          BY <3>1, <3>3 DEF IInv, TypeOK, ReaderInv
        <4>2. kb_buf_last = Index(reg, Len(unread) + 1)
          BY <2>2, <2>3, <4>1, IndexNext
        <4>3. reg # kb_buf_last
          BY <2>2, <4>1, <4>2 DEF Index, Wrap
        <4> QED BY <1>1, <2>1, <4>1, <4>3
      <3> QED BY <2>1, <3>1, <3>2, <3>3 DEF ReaderInv
    <2>9. DrainInv'
      BY <2>1 DEF IInv, DrainInv
    <2> QED BY <1>5, <2>6, <2>7, <2>8, <2>9 DEF IInv
  <1> QED BY <1>6, <1>7

\* The two steps of the reader that load kb_buf_first.
LEMMA LoadIInv ==
    ASSUME IInv, UNCHANGED ring3, LoadFirst \/ ReloadFirst
    PROVE  IInv'
  <1>1. /\ pc' \in {"compare", "advance"}
        /\ pc' = "advance" => pc = "load"
        /\ reg' = kb_buf_first
        /\ UNCHANGED <<layout, kb_buf, kb_buf_first, kb_buf_last, ret, caller,
                       unread, inflight, stale, overrun>>
    BY DEF LoadFirst, ReloadFirst, bufVars, history
  <1>2. TypeOK'
    BY <1>1 DEF IInv, TypeOK, Places
  <1>3. KeysInOrder'
    BY <1>1 DEF IInv, KeysInOrder
  <1>4. overrun' = "none" => ReaderInv' /\ RoomInv'
    BY <1>1 DEF IInv, ReaderInv, RoomInv
  <1>5. DrainInv'
    BY <1>1 DEF IInv, DrainInv
  <1> QED BY <1>2, <1>3, <1>4, <1>5 DEF IInv

\* The comparison: a reader that finds the indices equal has nothing to read.
LEMMA CompareIInv ==
    ASSUME IInv, UNCHANGED ring3, CompareLast
    PROVE  IInv'
  <1> USE BufSizeAssumption
  <1>1. /\ pc = "compare"
        /\ UNCHANGED <<layout, kb_buf, kb_buf_first, kb_buf_last, reg, caller,
                       unread, inflight, stale, overrun>>
        /\ \/ reg = kb_buf_last /\ pc' = "return" /\ ret' = 0
           \/ reg # kb_buf_last /\ pc' = "load" /\ ret' = ret
    BY DEF CompareLast, bufVars, history
  <1>2. TypeOK'
    BY <1>1 DEF IInv, TypeOK, Places
  <1>3. KeysInOrder'
    BY <1>1 DEF IInv, KeysInOrder
  <1>4. overrun = "none" => (reg = kb_buf_last <=> unread = <<>>)
    <2> SUFFICES ASSUME overrun = "none" PROVE reg = kb_buf_last <=> unread = <<>>
      OBVIOUS
    <2>1. /\ unread \in Seq(Keys) /\ Len(unread) \in 0 .. BufSize
          /\ kb_buf_first \in 0 .. BufSize
          /\ reg = kb_buf_first
          /\ kb_buf_last = Index(kb_buf_first, Len(unread))
      BY <1>1 DEF IInv, TypeOK, KeysInOrder, ReaderInv, RoomInv
    <2>2. kb_buf_first = kb_buf_last <=> Len(unread) = 0
      BY <2>1 DEF Index, Wrap
    <2> QED BY <2>1, <2>2
  <1>5. overrun' = "none" => ReaderInv' /\ RoomInv'
    BY <1>1, <1>4 DEF IInv, ReaderInv, RoomInv
  <1>6. DrainInv'
    <2>1. pc' = "return" /\ overrun = "none" => stale = 0
      BY <1>1, <1>4 DEF IInv, RoomInv, TypeOK
    <2> QED BY <1>1, <2>1 DEF IInv, DrainInv
  <1> QED BY <1>2, <1>3, <1>5, <1>6 DEF IInv

\* kb_buf_first++: the oldest code leaves the queue but not yet its slot.
LEMMA AdvanceIInv ==
    ASSUME IInv, UNCHANGED ring3, Advance
    PROVE  IInv'
  <1> USE BufSizeAssumption, KeysAssumption
  <1>1. /\ pc = "advance" /\ pc' = "fetch"
        /\ kb_buf_first' = Index(reg, 1)
        /\ UNCHANGED <<layout, kb_buf, kb_buf_last, reg, ret, caller, overrun>>
    BY DEF Advance
  <1>2. /\ reg \in 0 .. BufSize
        /\ kb_buf \in [0 .. BufSize -> Keys \cup {0}]
        /\ unread \in Seq(Keys)
        /\ stale \in Nat
        /\ overrun \in {"none", "full", "alias"}
    BY DEF IInv, TypeOK
  <1>3. kb_buf_first' \in 0 .. BufSize
    BY <1>1, <1>2 DEF Index, Wrap
  <1>4. CASE overrun # "none"
    <2>1. UNCHANGED <<unread, inflight, stale>>
      BY <1>4 DEF Advance
    <2>2. TypeOK'
      BY <1>1, <1>3, <2>1 DEF IInv, TypeOK, Places
    <2>3. DrainInv'
      BY <1>1, <2>1 DEF IInv, DrainInv
    <2> QED BY <1>1, <1>4, <2>2, <2>3 DEF IInv, KeysInOrder
  <1>5. CASE overrun = "none"
    <2>1. /\ inflight' = Head(unread)
          /\ unread' = Tail(unread)
          /\ stale' = IF stale = 0 THEN 0 ELSE stale - 1
      BY <1>5 DEF Advance
    <2>2. /\ unread # <<>> /\ reg = kb_buf_first
          /\ Len(unread) \in 1 .. BufSize
          /\ stale <= Len(unread)
          /\ layout = "first" => kb_buf_first + Len(unread) <= BufSize
      <3>1. ReaderInv /\ RoomInv
        BY <1>5 DEF IInv
      <3> QED BY <1>1, <1>2, <3>1, EmptySeq DEF ReaderInv, RoomInv
    <2>3. /\ kb_buf_last = Index(reg, Len(unread))
          /\ \A i \in 1 .. Len(unread) : kb_buf[Index(reg, i - 1)] = unread[i]
      BY <1>5, <2>2 DEF IInv, KeysInOrder
    <2>4. /\ unread' \in Seq(Keys)
          /\ Len(unread') = Len(unread) - 1
          /\ \A i \in 1 .. Len(unread') : unread'[i] = unread[i + 1]
          /\ inflight' = unread[1]
          /\ inflight' \in Keys
      BY <1>2, <2>1, <2>2, HeadTailProperties
    <2>5. stale' \in Nat /\ stale' <= Len(unread')
      BY <1>2, <2>1, <2>2, <2>4
    <2>6. TypeOK'
      BY <1>1, <1>3, <2>4, <2>5 DEF IInv, TypeOK, Places
    <2>7. KeysInOrder'
      <3>1. kb_buf_last' = Index(kb_buf_first', Len(unread'))
        <4>1. Len(unread') \in 0 .. BufSize /\ Len(unread') + 1 = Len(unread)
          BY <2>2, <2>4
        <4> QED BY <1>1, <1>2, <2>3, <4>1, IndexNext
      <3>2. ASSUME NEW i \in 1 .. Len(unread')
            PROVE  kb_buf'[Index(kb_buf_first', i - 1)] = unread'[i]
        <4>1. i - 1 \in 0 .. BufSize /\ i \in 0 .. BufSize /\ i + 1 \in 1 .. Len(unread)
          BY <2>2, <2>4
        <4>2. Index(Index(reg, 1), i - 1) = Index(reg, i)
          BY <1>2, <4>1 DEF Index, Wrap
        <4>3. kb_buf[Index(reg, (i + 1) - 1)] = unread[i + 1]
          BY <2>3, <4>1
        <4>4. (i + 1) - 1 = i
          BY <4>1
        <4> QED BY <1>1, <2>4, <4>2, <4>3, <4>4
      <3> QED BY <3>1, <3>2 DEF KeysInOrder
    <2>8. ReaderInv'
      <3>1. kb_buf[Index(reg, 1 - 1)] = unread[1]
        BY <2>2, <2>3
      <3>2. Index(reg, 1 - 1) = reg
        BY <1>2 DEF Index, Wrap
      <3>3. layout = "first" => reg < BufSize
        BY <1>2, <2>2
      <3>4. inflight' # 0
        BY <2>4
      <3> QED BY <1>1, <2>4, <3>1, <3>2, <3>3, <3>4 DEF ReaderInv
    <2>9. RoomInv'
      <3>1. layout' = "first" => kb_buf_first' + Len(unread') <= BufSize
        BY <1>1, <1>2, <2>2, <2>4 DEF Index, Wrap
      <3> QED BY <2>2, <2>4, <2>5, <3>1 DEF RoomInv
    <2>10. DrainInv'
      BY <1>1, <2>1 DEF IInv, DrainInv
    <2> QED BY <2>6, <2>7, <2>8, <2>9, <2>10 DEF IInv
  <1> QED BY <1>4, <1>5

\* The slot is read.
LEMMA FetchIInv ==
    ASSUME IInv, UNCHANGED ring3, Fetch
    PROVE  IInv'
  <1> USE BufSizeAssumption, KeysAssumption
  <1>1. /\ pc = "fetch" /\ pc' = "return" /\ ret' = Slot(reg) /\ inflight' = 0
        /\ UNCHANGED <<layout, kb_buf, kb_buf_first, kb_buf_last, reg, caller,
                       unread, stale, overrun>>
    BY DEF Fetch, bufVars
  <1>2. Slot(reg) \in 0 .. BufSize
    <2>1. /\ reg \in 0 .. BufSize /\ kb_buf_first \in 0 .. BufSize
          /\ kb_buf \in [0 .. BufSize -> Keys \cup {0}]
      BY DEF IInv, TypeOK
    <2>2. kb_buf[reg] \in 0 .. BufSize
      <3>1. kb_buf[reg] \in Keys \cup {0}
        BY <2>1
      <3>2. Keys \cup {0} \subseteq 0 .. BufSize
        OBVIOUS
      <3> QED BY <3>1, <3>2
    <2> QED BY <2>1, <2>2 DEF Slot
  <1>3. TypeOK'
    BY <1>1, <1>2 DEF IInv, TypeOK, Places
  <1>4. KeysInOrder'
    BY <1>1 DEF IInv, KeysInOrder
  <1>5. overrun' = "none" => ReaderInv' /\ RoomInv'
    BY <1>1 DEF IInv, ReaderInv, RoomInv
  <1>6. overrun = "none" => Slot(reg) # 0
    BY <1>1 DEF IInv, ReaderInv, TypeOK, Slot
  <1>7. DrainInv'
    BY <1>1, <1>6 DEF IInv, DrainInv
  <1> QED BY <1>3, <1>4, <1>5, <1>7 DEF IInv

\* The callers' steps.
LEMMA MainIInv ==
    ASSUME IInv, Main
    PROVE  IInv'
  <1> USE BufSizeAssumption, KeysAssumption
  <1>1. /\ pc = "return"
        /\ UNCHANGED <<layout, kb_buf, kb_buf_first, kb_buf_last, reg, unread,
                       inflight, overrun, ring3>>
        /\ pc' \in {"called", "return"}
        /\ ret' \in {0, ret}
        /\ caller' \in Callers
    BY DEF Main, Wait, MainRuns, Poll, WaitAnyKey, Drain, Getch, Call, bufVars, history, Callers
  <1>2. stale' \in {stale, Len(unread)}
    BY DEF Main, Wait, MainRuns, Poll, WaitAnyKey, Drain, Getch, history
  <1>3. unread \in Seq(Keys) /\ Len(unread) \in Nat
    BY DEF IInv, TypeOK
  <1>4. TypeOK'
    BY <1>1, <1>2, <1>3 DEF IInv, TypeOK, Places
  <1>5. KeysInOrder'
    BY <1>1 DEF IInv, KeysInOrder
  <1>6. overrun' = "none" => ReaderInv' /\ RoomInv'
    BY <1>1, <1>2, <1>3 DEF IInv, ReaderInv, RoomInv
  <1>7. DrainInv'
    <2>1. overrun # "none" => stale' = 0
      BY <1>2 DEF IInv, DrainInv
    <2>2. CASE Poll
      BY <1>1, <2>1, <2>2 DEF IInv, DrainInv, Poll, Call, history
    <2>3. CASE WaitAnyKey
      BY <1>1, <2>1, <2>3 DEF IInv, DrainInv, WaitAnyKey, Call
    <2>4. CASE Drain
      BY <1>1, <2>1, <2>4 DEF IInv, DrainInv, Drain, Call, history
    <2>5. CASE Getch
      BY <1>1, <2>1, <2>5 DEF IInv, DrainInv, Getch, Call, history
    <2> QED BY <2>2, <2>3, <2>4, <2>5 DEF Main, Wait
  <1> QED BY <1>4, <1>5, <1>6, <1>7 DEF IInv

LEMMA StepIInv == IInv /\ [Next]_vars => IInv'
  <1> SUFFICES ASSUME IInv, [Next]_vars PROVE IInv'
    OBVIOUS
  <1>1. ASSUME NEW k \in Keys, KeyPressed(k) PROVE IInv'
    BY <1>1, KeyPressedIInv
  <1>2. CASE Read
    BY <1>2, LoadIInv, CompareIInv, AdvanceIInv, FetchIInv DEF Read, MainRuns
  <1>3. CASE Main
    BY <1>3, MainIInv
  <1>4. CASE UNCHANGED vars
    BY <1>4 DEF vars, bufVars, readerVars, history, IInv, TypeOK, KeysInOrder,
                ReaderInv, RoomInv, DrainInv
  <1> QED BY <1>1, <1>2, <1>3, <1>4 DEF Next, UserMode

\* IInv holds in every state the keyboard driver can reach.
THEOREM Invariant == Spec => []IInv
  <1> QED BY InitIInv, StepIInv, PTL DEF Spec

\* Every variable keeps its type: no index leaves the range of a u8, and no
\* reader fetches anything but a make code or 0.
THEOREM TypeCorrect == Spec => []TypeOK
  <1>1. IInv => TypeOK
    BY DEF IInv
  <1> QED BY <1>1, Invariant, PTL

\* For every buffer size and layout: until codes are lost, the buffer holds
\* exactly the unread codes in the order of the key presses.
THEOREM FirstInFirstOut == Spec => []KeysInOrder
  <1>1. IInv => KeysInOrder
    BY DEF IInv
  <1> QED BY <1>1, Invariant, PTL

\* The handler never overwrites the slot a reader has claimed and not read,
\* although keyboard_read_next frees the slot first.
THEOREM ClaimedSlotIntact == Spec => []TakenIsIntact
  <1>1. IInv => TakenIsIntact
    BY DEF IInv, TypeOK, ReaderInv, TakenIsIntact, Slot
  <1> QED BY <1>1, Invariant, PTL

\* wait_any_key prompts only when all keys pressed before it are gone.
THEOREM PromptsAfterDrain == Spec => []PromptAfterDrain
  <1>1. IInv => PromptAfterDrain
    BY DEF IInv, DrainInv, PromptAfterDrain
  <1> QED BY <1>1, Invariant, PTL

\* What the reader has taken, in the eyes of KeyQueue.
Taken == IF overrun # "none" THEN 0
         ELSE IF pc = "fetch" THEN Slot(reg)
         ELSE IF pc = "return" THEN ret
         ELSE 0

\* A key press adds a code to the queue, or overruns it.
LEMMA KeyPressedRefines ==
    ASSUME IInv, IInv', NEW k \in Keys, KeyPressed(k)
    PROVE  [Queue!Next]_(Queue!queueVars)
  <1> USE BufSizeAssumption
  <1>1. UNCHANGED <<layout, pc, reg, ret>>
    BY DEF KeyPressed, readerVars
  <1>2. CASE overrun # "none"
    <2>1. overrun' # "none" /\ unread' = unread
      BY <1>2 DEF KeyPressed, history
    <2> QED BY <1>2, <2>1 DEF Queue!queueVars
  <1>3. CASE overrun = "none" /\ overrun' # "none"
    <2>1. unread' = <<>>
      BY <1>3 DEF KeyPressed, history
    <2> QED BY <1>3, <2>1 DEF Queue!Next, Queue!Overrun
  <1>4. CASE overrun = "none" /\ overrun' = "none"
    <2>1. unread' = Append(unread, k) /\ Len(unread) # BufSize /\ inflight' = inflight
      BY <1>4 DEF KeyPressed, Damage, history
    <2>2. Len(unread) < BufSize
      BY <1>4, <2>1 DEF IInv, TypeOK, RoomInv
    <2>3. pc = "fetch" => Slot(reg)' = Slot(reg)
      <3>1. pc = "fetch" => Slot(reg) = inflight
        BY <1>4 DEF IInv, TypeOK, ReaderInv, Slot
      <3>2. pc' = "fetch" => Slot(reg)' = inflight'
        BY <1>4 DEF IInv, TypeOK, ReaderInv, Slot
      <3> QED BY <1>1, <2>1, <3>1, <3>2
    <2>4. Taken' = Taken
      BY <1>1, <1>4, <2>3 DEF Taken
    <2>5. Queue!Put(k)
      BY <1>4, <2>1, <2>2, <2>4 DEF Queue!Put, Taken
    <2> QED BY <2>5 DEF Queue!Next
  <1> QED BY <1>2, <1>3, <1>4

\* A reader's step takes the oldest code, finds none, or is invisible.
LEMMA ReadRefines ==
    ASSUME IInv, IInv', Read
    PROVE  [Queue!Next]_(Queue!queueVars)
  <1>1. CASE LoadFirst \/ ReloadFirst
    <2>1. /\ UNCHANGED <<unread, overrun>>
          /\ pc \in {"called", "load"} /\ pc' \in {"compare", "advance"}
      BY <1>1 DEF LoadFirst, ReloadFirst, history
    <2>2. Taken = 0 /\ Taken' = 0
      BY <2>1 DEF Taken
    <2> QED BY <2>1, <2>2 DEF Queue!queueVars, Taken
  <1>2. CASE CompareLast
    <2>1. /\ UNCHANGED <<unread, overrun>>
          /\ pc = "compare"
          /\ pc' = "load" \/ (pc' = "return" /\ ret' = 0)
      BY <1>2 DEF CompareLast, history
    <2>2. Taken = 0 /\ Taken' = 0
      BY <2>1 DEF Taken
    <2> QED BY <2>1, <2>2 DEF Queue!queueVars, Taken
  <1>3. CASE Advance
    <2>1. pc = "advance" /\ pc' = "fetch" /\ overrun' = overrun
      BY <1>3 DEF Advance
    <2>2. CASE overrun # "none"
      <3>1. unread' = unread
        BY <1>3, <2>2 DEF Advance
      <3> QED BY <2>1, <2>2, <3>1 DEF Queue!queueVars
    <2>3. CASE overrun = "none"
      <3>1. unread' = Tail(unread) /\ inflight' = Head(unread)
        BY <1>3, <2>3 DEF Advance
      <3>2. unread # <<>>
        BY <2>1, <2>3 DEF IInv, ReaderInv
      <3>3. Slot(reg)' = inflight'
        BY <2>1, <2>3 DEF IInv, TypeOK, ReaderInv, Slot
      <3>4. Queue!Take
        BY <2>1, <2>3, <3>1, <3>2, <3>3 DEF Queue!Take
      <3> QED BY <3>4 DEF Queue!Next
    <2> QED BY <2>2, <2>3
  <1>4. CASE Fetch
    <2>1. /\ pc = "fetch" /\ pc' = "return" /\ ret' = Slot(reg)
          /\ UNCHANGED <<unread, overrun>>
      BY <1>4 DEF Fetch
    <2>2. Taken' = Taken
      BY <2>1 DEF Taken
    <2> QED BY <2>1, <2>2 DEF Queue!queueVars, Taken
  <1> QED BY <1>1, <1>2, <1>3, <1>4 DEF Read, MainRuns

\* A caller is done with the code it was given.
LEMMA MainRefines ==
    ASSUME IInv, Main
    PROVE  [Queue!Next]_(Queue!queueVars)
  <1>1. /\ UNCHANGED <<unread, overrun>>
        /\ pc = "return"
        /\ pc' = "called" \/ (pc' = "return" /\ ret' = ret)
    BY DEF Main, Wait, MainRuns, Poll, WaitAnyKey, Drain, Getch, Call, history
  <1>2. CASE pc' = "called" /\ overrun = "none"
    <2>1. Queue!TakeNone
      BY <1>1, <1>2 DEF Queue!TakeNone
    <2> QED BY <2>1 DEF Queue!Next
  <1>3. CASE pc' = "called" /\ overrun # "none"
    BY <1>1, <1>3 DEF Queue!queueVars
  <1>4. CASE pc' = "return" /\ ret' = ret
    BY <1>1, <1>4 DEF Queue!queueVars
  <1> QED BY <1>1, <1>2, <1>3, <1>4

\* The buffer of kb.c with its readers implements the queue of KeyQueue.
THEOREM Refinement == Spec => ImplementsQueue
  <1>1. Init => Queue!Init
    BY DEF Init, Queue!Init
  <1>2. IInv /\ IInv' /\ [Next]_vars => [Queue!Next]_(Queue!queueVars)
    <2> SUFFICES ASSUME IInv, IInv', [Next]_vars
                 PROVE  [Queue!Next]_(Queue!queueVars)
      OBVIOUS
    <2>1. ASSUME NEW k \in Keys, KeyPressed(k)
          PROVE  [Queue!Next]_(Queue!queueVars)
      BY <2>1, KeyPressedRefines
    <2>2. CASE Read
      BY <2>2, ReadRefines
    <2>3. CASE Main
      BY <2>3, MainRefines
    <2>4. CASE UNCHANGED vars
      BY <2>4 DEF vars, bufVars, readerVars, history, Queue!queueVars, Slot
    <2> QED BY <2>1, <2>2, <2>3, <2>4 DEF Next, UserMode
  <1> QED BY <1>1, <1>2, Invariant, PTL DEF Spec, ImplementsQueue, Queue!Spec
=============================================================================
