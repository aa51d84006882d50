--------------------------- MODULE PollTableProofs ---------------------------
(***************************************************************************)
(* The invariant of PollTable, and what follows from it, for any number of *)
(* descriptors and any set of signals.                                     *)
(***************************************************************************)
EXTENDS PollTable, SequenceTheorems, TLAPS

-----------------------------------------------------------------------------
\* What a jump to another label does to the stack.
LEMMA GoFacts ==
  ASSUME stack \in Seq(Frame), stack # <<>>,
         NEW label \in Loop \cup FreeMemory, NEW i \in Nat, Go(label, i)
  PROVE  /\ stack' \in Seq(Frame) /\ stack' # <<>> /\ Len(stack') = Len(stack)
         /\ \A j \in 1 .. Len(stack) - 1 : stack'[j] = stack[j]
         /\ Top'.at = label /\ Top'.i = i
<1>1. Len(stack) \in Nat /\ Len(stack) >= 1
  BY EmptySeq, LenProperties
<1>2. \A j \in 1 .. Len(stack) : stack[j] \in Frame
  BY ElementOfSeq
<1> DEFINE n == Len(stack)
           top == [signal |-> stack[n].signal, at |-> label, i |-> i]
<1>3. stack' = [stack EXCEPT ![n] = top]
  BY DEF Go, Top
<1>4. top \in Frame /\ top.at = label /\ top.i = i
  BY <1>1, <1>2 DEF Frame
<1> HIDE DEF top
<1>5. /\ stack' \in Seq(Frame) /\ Len(stack') = n /\ stack'[n] = top
      /\ \A j \in 1 .. n - 1 : stack'[j] = stack[j]
  BY <1>1, <1>3, <1>4
<1> QED
  BY <1>1, <1>4, <1>5 DEF Top

\* The loop goes on only while no handler runs.
LEMMA LoopAlone ==
  ASSUME TypeOK, StackShape, NEW from \in Loop, At(from)
  PROVE  Len(stack) = 1 /\ stack[1] = Top /\ stack[1].at = from
<1>1. Len(stack) \in Nat /\ Len(stack) >= 1
  BY DEF TypeOK
<1>2. Loop \cap FreeMemory = {}
  BY DEF Loop, FreeMemory
<1>3. ASSUME Len(stack) > 1 PROVE FALSE
  <2>1. stack[Len(stack)].at \in FreeMemory
    BY <1>1, <1>3 DEF StackShape
  <2>2. stack[Len(stack)].at = from
    BY DEF At, Top
  <2> QED
    BY <1>2, <2>1, <2>2
<1>4. \A n \in Nat : n >= 1 /\ ~(n > 1) => n = 1
  OBVIOUS
<1>5. Len(stack) = 1
  BY <1>1, <1>3, <1>4
<1> QED
  BY <1>5 DEF Top, At

LEMMA LoopMoves ==
  ASSUME TypeOK, StackShape, NEW from \in Loop, At(from),
         NEW label \in Loop \cup FreeMemory, NEW i \in Nat, i >= 3, Go(label, i)
  PROVE  /\ Len(stack) = 1 /\ stack[1] = Top /\ stack[1].at = from
         /\ stack' \in Seq(Frame) /\ stack' # <<>> /\ Len(stack') = 1
         /\ stack'[1].at = label /\ stack'[1].i = i
         /\ StackShape'
<1>1. Len(stack) = 1 /\ stack[1] = Top /\ stack[1].at = from
  BY LoopAlone
<1>2. /\ stack' \in Seq(Frame) /\ stack' # <<>> /\ Len(stack') = Len(stack)
      /\ Top'.at = label /\ Top'.i = i
  BY GoFacts DEF TypeOK
<1> QED
  BY <1>1, <1>2 DEF Top, StackShape

LEMMA TopFrame ==
  ASSUME TypeOK, StackShape
  PROVE  /\ Top \in Frame /\ Top.i \in Nat /\ Top.i >= 1
         /\ Top.at # "closeAll" => Top.i >= 3
<1>1. Len(stack) \in Nat /\ Len(stack) >= 1 /\ stack \in Seq(Frame)
  BY DEF TypeOK
<1>2. Len(stack) \in 1 .. Len(stack)
  BY <1>1
<1>3. /\ stack[Len(stack)] \in Frame /\ stack[Len(stack)].i >= 1
      /\ stack[Len(stack)].at # "closeAll" => stack[Len(stack)].i >= 3
  BY <1>1, <1>2 DEF StackShape
<1> QED
  BY <1>3 DEF Top, Frame

LEMMA GrowKeeps ==
  ASSUME IInv, Grow
  PROVE  IInv'
<1>1. status = "running" /\ At("grow")
  BY DEF Grow, At
<1>2. /\ StackShape /\ Counters /\ Entries /\ OpenExact /\ ClosedTold /\ FramesTold
      /\ FreedKnown /\ TypeOK
  BY <1>1 DEF IInv, Consistent
<1>3. /\ Len(stack) = 1 /\ stack[1] = Top /\ stack[1].at = "grow"
      /\ stack' \in Seq(Frame) /\ stack' # <<>> /\ Len(stack') = 1
      /\ stack'[1].at = "assign" /\ stack'[1].i = 3 /\ StackShape'
      /\ Top.i \in Nat /\ Top.i >= 3
  <2>1. 3 \in Nat /\ 3 >= 3
    OBVIOUS
  <2>2. "grow" \in Loop /\ "assign" \in Loop \cup FreeMemory
    BY DEF Loop, FreeMemory
  <2> QED
    BY <1>1, <1>2, <2>1, <2>2, LoopMoves, TopFrame DEF Grow
<1>4. TypeOK'
  BY <1>1, <1>2, <1>3 DEF TypeOK, Allocated, Grow, world, block, Counters, Entries
<1>5. Counters'
  BY <1>1, <1>2, <1>3 DEF Counters, Grow, block
<1>6. Entries'
  BY <1>1, <1>2, <1>3 DEF Entries, Grow, Place, block, Counters, TypeOK
<1>7. OpenExact'
  <2>1. nfds' = nfds /\ nfds \in Nat /\ nfds = maxSize /\ maxSize >= 4
    BY <1>2, <1>3 DEF Grow, Counters, TypeOK
  <2>2. open' = open /\ connfd' = connfd
    BY DEF Grow, world
  <2>3. \A k \in 3 .. nfds - 1 : memory'[k] = memory[k]
    BY <2>1 DEF Grow
  <2>4. \A k \in 3 .. nfds - 1 : Place(k) = memory[k]
    BY <1>3 DEF Place
  <2>5. \A k \in 3 .. nfds - 1 : Place(k)' = memory'[k]
    BY <1>3 DEF Place
  <2>6. connfd \in open /\ \A k \in 3 .. nfds - 1 : Place(k) \in open
    BY <1>2, <1>3 DEF OpenExact, Loop
  <2> QED
    BY <1>3, <2>1, <2>2, <2>3, <2>4, <2>5, <2>6 DEF OpenExact
<1>8. ClosedTold'
  BY <1>1, <1>2, <1>3 DEF ClosedTold, Grow, ToldOrGone, block, world, Place, OpenExact, Loop,
     Entries, TypeOK, Counters
<1>9. FramesTold'
  BY <1>1, <1>2, <1>3 DEF FramesTold
<1>10. FreedKnown'
  BY <1>1, <1>2, <1>3 DEF FreedKnown, Grow, Exposed, block
<1> QED
  BY <1>3, <1>4, <1>5, <1>6, <1>7, <1>8, <1>9, <1>10 DEF IInv, Consistent

LEMMA GrowFailsKeeps ==
  ASSUME IInv, GrowFails
  PROVE  IInv'
<1>1. status = "running" /\ At("grow")
  BY DEF GrowFails, At
<1>2. /\ StackShape /\ Counters /\ Entries /\ OpenExact /\ ClosedTold /\ FramesTold
      /\ FreedKnown /\ TypeOK
  BY <1>1 DEF IInv, Consistent
<1>3. /\ Len(stack) = 1 /\ stack[1] = Top /\ stack[1].at = "grow"
      /\ stack' \in Seq(Frame) /\ stack' # <<>> /\ Len(stack') = 1
      /\ stack'[1].at = "poll" /\ stack'[1].i = 3 /\ StackShape'
      /\ Top.i \in Nat /\ Top.i >= 3
  <2>1. 3 \in Nat /\ 3 >= 3
    OBVIOUS
  <2>2. "grow" \in Loop /\ "poll" \in Loop \cup FreeMemory
    BY DEF Loop, FreeMemory
  <2> QED
    BY <1>1, <1>2, <2>1, <2>2, LoopMoves, TopFrame DEF GrowFails
<1>4. TypeOK'
  BY <1>1, <1>2, <1>3 DEF TypeOK, Allocated, GrowFails, world, block, Counters, Entries
<1>5. Counters'
  BY <1>1, <1>2, <1>3 DEF Counters, GrowFails, block
<1>6. Entries'
  BY <1>1, <1>2, <1>3 DEF Entries, GrowFails, Place, block
<1>7. OpenExact'
  BY <1>1, <1>2, <1>3 DEF OpenExact, GrowFails, Place, Loop, block, world, Entries, Counters, TypeOK
<1>8. ClosedTold'
  BY <1>1, <1>2, <1>3 DEF ClosedTold, GrowFails, ToldOrGone, block, world
<1>9. FramesTold'
  BY <1>1, <1>2, <1>3 DEF FramesTold
<1>10. FreedKnown'
  BY <1>1, <1>2, <1>3 DEF FreedKnown, GrowFails, Exposed, block
<1> QED
  BY <1>3, <1>4, <1>5, <1>6, <1>7, <1>8, <1>9, <1>10 DEF IInv, Consistent

LEMMA AssignKeeps ==
  ASSUME IInv, Assign
  PROVE  IInv'
<1>1. status = "running" /\ At("assign")
  BY DEF Assign, At
<1>2. /\ StackShape /\ Counters /\ Entries /\ OpenExact /\ ClosedTold /\ FramesTold
      /\ FreedKnown /\ TypeOK
  BY <1>1 DEF IInv, Consistent
<1>3. /\ Len(stack) = 1 /\ stack[1] = Top /\ stack[1].at = "assign"
      /\ stack' \in Seq(Frame) /\ stack' # <<>> /\ Len(stack') = 1
      /\ stack'[1].at = "fill" /\ stack'[1].i = 3 /\ StackShape'
      /\ Top.i \in Nat /\ Top.i >= 3
  <2>1. 3 \in Nat /\ 3 >= 3
    OBVIOUS
  <2>2. "assign" \in Loop /\ "fill" \in Loop \cup FreeMemory
    BY DEF Loop, FreeMemory
  <2> QED
    BY <1>1, <1>2, <2>1, <2>2, LoopMoves, TopFrame DEF Assign
<1>4. TypeOK'
  BY <1>1, <1>2, <1>3 DEF TypeOK, Allocated, Assign, AssignedLength, world, block, Counters, Entries
<1>5. Counters'
  BY <1>1, <1>2, <1>3 DEF Counters, Assign, AssignedLength, block, TypeOK, Allocated
<1>6. Entries'
  BY <1>1, <1>2, <1>3 DEF Entries, Assign, AssignedLength, Place, block
<1>7. OpenExact'
  BY <1>1, <1>2, <1>3 DEF OpenExact, Assign, AssignedLength, Place, Loop, block, world
<1>8. ClosedTold'
  BY <1>1, <1>2, <1>3 DEF ClosedTold, Assign, AssignedLength, ToldOrGone, block, world
<1>9. FramesTold'
  BY <1>1, <1>2, <1>3 DEF FramesTold
<1>10. FreedKnown'
  BY <1>1, <1>2, <1>3 DEF FreedKnown, Assign, AssignedLength, Exposed, block
<1> QED
  BY <1>3, <1>4, <1>5, <1>6, <1>7, <1>8, <1>9, <1>10 DEF IInv, Consistent

LEMMA FillKeeps ==
  ASSUME IInv, Fill
  PROVE  IInv'
<1>1. status = "running" /\ At("fill")
  BY DEF Fill, At
<1>2. /\ StackShape /\ Counters /\ Entries /\ OpenExact /\ ClosedTold /\ FramesTold
      /\ FreedKnown /\ TypeOK
  BY <1>1 DEF IInv, Consistent
<1>3. /\ Len(stack) = 1 /\ stack[1] = Top /\ stack[1].at = "fill"
      /\ stack' \in Seq(Frame) /\ stack' # <<>> /\ Len(stack') = 1
      /\ stack'[1].at = "count" /\ stack'[1].i = 3 /\ StackShape'
      /\ Top.i \in Nat /\ Top.i >= 3
  <2>1. 3 \in Nat /\ 3 >= 3
    OBVIOUS
  <2>2. "fill" \in Loop /\ "count" \in Loop \cup FreeMemory
    BY DEF Loop, FreeMemory
  <2> QED
    BY <1>1, <1>2, <2>1, <2>2, LoopMoves, TopFrame DEF Fill
<1>4. TypeOK'
  BY <1>1, <1>2, <1>3 DEF TypeOK, Allocated, Fill, world, block, Counters, Entries
<1>5. Counters'
  BY <1>1, <1>2, <1>3 DEF Counters, Fill, block
<1>6. Entries'
  <2>1. /\ nfds \in Nat /\ nfds' = nfds /\ nfds \in DOMAIN memory
        /\ memory' = [memory EXCEPT ![nfds] = connfd] /\ connfd' = connfd
    BY <1>1, <1>2, <1>3 DEF TypeOK, Counters, Fill, Allocated
  <2>2. \A k \in 3 .. nfds - 1 : memory'[k] = memory[k]
    BY <2>1
  <2>3. \A k \in 3 .. nfds - 1 : Place(k) = memory[k] /\ Place(k)' = memory'[k]
    BY <1>3 DEF Place
  <2> QED
    BY <1>2, <1>3, <2>1, <2>2, <2>3 DEF Entries
<1>7. OpenExact'
  <2>1. /\ nfds \in Nat /\ nfds' = nfds /\ nfds \in DOMAIN memory
        /\ memory' = [memory EXCEPT ![nfds] = connfd] /\ connfd' = connfd
    BY <1>1, <1>2, <1>3 DEF TypeOK, Counters, Fill, Allocated
  <2>2. \A k \in 3 .. nfds - 1 : Place(k)' = Place(k)
    BY <1>3, <2>1 DEF Place
  <2> QED
    BY <1>2, <1>3, <2>1, <2>2 DEF OpenExact, Fill, world, Loop
<1>8. ClosedTold'
  BY <1>1, <1>2, <1>3 DEF ClosedTold, Fill, ToldOrGone, block, world
<1>9. FramesTold'
  BY <1>1, <1>2, <1>3 DEF FramesTold
<1>10. FreedKnown'
  BY <1>1, <1>2, <1>3 DEF FreedKnown, Fill, Exposed, block
<1> QED
  BY <1>3, <1>4, <1>5, <1>6, <1>7, <1>8, <1>9, <1>10 DEF IInv, Consistent

LEMMA CountKeeps ==
  ASSUME IInv, Count
  PROVE  IInv'
<1>1. status = "running" /\ At("count")
  BY DEF Count, At
<1>2. /\ StackShape /\ Counters /\ Entries /\ OpenExact /\ ClosedTold /\ FramesTold
      /\ FreedKnown /\ TypeOK
  BY <1>1 DEF IInv, Consistent
<1>3. /\ Len(stack) = 1 /\ stack[1] = Top /\ stack[1].at = "count"
      /\ stack' \in Seq(Frame) /\ stack' # <<>> /\ Len(stack') = 1
      /\ stack'[1].at = "login" /\ stack'[1].i = 3 /\ StackShape'
      /\ Top.i \in Nat /\ Top.i >= 3
  <2>1. 3 \in Nat /\ 3 >= 3
    OBVIOUS
  <2>2. "count" \in Loop /\ "login" \in Loop \cup FreeMemory
    BY DEF Loop, FreeMemory
  <2> QED
    BY <1>1, <1>2, <2>1, <2>2, LoopMoves, TopFrame DEF Count
<1>4. TypeOK'
  BY <1>1, <1>2, <1>3 DEF TypeOK, Allocated, Count, world, block, Counters, Entries
<1>5. Counters'
  BY <1>1, <1>2, <1>3 DEF Counters, Count, block, TypeOK, Allocated
<1>6. Entries'
  BY <1>1, <1>2, <1>3 DEF Entries, Count, Place, block, Counters, TypeOK
<1>7. OpenExact'
  BY <1>1, <1>2, <1>3 DEF OpenExact, Count, Place, Loop, block, world, Entries, Counters, TypeOK
<1>8. ClosedTold'
  BY <1>1, <1>2, <1>3 DEF ClosedTold, Count, ToldOrGone, block, world, Place, OpenExact, Loop,
     Entries, TypeOK, Counters
<1>9. FramesTold'
  BY <1>1, <1>2, <1>3 DEF FramesTold
<1>10. FreedKnown'
  BY <1>1, <1>2, <1>3 DEF FreedKnown, Count, Exposed, block
<1> QED
  BY <1>3, <1>4, <1>5, <1>6, <1>7, <1>8, <1>9, <1>10 DEF IInv, Consistent

LEMMA LoggedInKeeps ==
  ASSUME IInv, LoggedIn
  PROVE  IInv'
<1>1. status = "running" /\ At("login")
  BY DEF LoggedIn, At
<1>2. /\ StackShape /\ Counters /\ Entries /\ OpenExact /\ ClosedTold /\ FramesTold
      /\ FreedKnown /\ TypeOK
  BY <1>1 DEF IInv, Consistent
<1>3. /\ Len(stack) = 1 /\ stack[1] = Top /\ stack[1].at = "login"
      /\ stack' \in Seq(Frame) /\ stack' # <<>> /\ Len(stack') = 1
      /\ stack'[1].at = "poll" /\ stack'[1].i = 3 /\ StackShape'
      /\ Top.i \in Nat /\ Top.i >= 3
  <2>1. 3 \in Nat /\ 3 >= 3
    OBVIOUS
  <2>2. "login" \in Loop /\ "poll" \in Loop \cup FreeMemory
    BY DEF Loop, FreeMemory
  <2> QED
    BY <1>1, <1>2, <2>1, <2>2, LoopMoves, TopFrame DEF LoggedIn
<1>4. TypeOK'
  BY <1>1, <1>2, <1>3 DEF TypeOK, Allocated, LoggedIn, world, block, Counters, Entries
<1>5. Counters'
  BY <1>1, <1>2, <1>3 DEF Counters, LoggedIn, block
<1>6. Entries'
  BY <1>1, <1>2, <1>3 DEF Entries, LoggedIn, Place, block
<1>7. OpenExact'
  BY <1>1, <1>2, <1>3 DEF OpenExact, LoggedIn, Place, Loop, block, world
<1>8. ClosedTold'
  BY <1>1, <1>2, <1>3 DEF ClosedTold, LoggedIn, ToldOrGone, block, world
<1>9. FramesTold'
  BY <1>1, <1>2, <1>3 DEF FramesTold
<1>10. FreedKnown'
  BY <1>1, <1>2, <1>3 DEF FreedKnown, LoggedIn, Exposed, block
<1> QED
  BY <1>3, <1>4, <1>5, <1>6, <1>7, <1>8, <1>9, <1>10 DEF IInv, Consistent

LEMMA RefusedKeeps ==
  ASSUME IInv, Refused
  PROVE  IInv'
<1>1. status = "running" /\ At("login")
  BY DEF Refused, At
<1>2. /\ StackShape /\ Counters /\ Entries /\ OpenExact /\ ClosedTold /\ FramesTold
      /\ FreedKnown /\ TypeOK
  BY <1>1 DEF IInv, Consistent
<1>3. /\ Len(stack) = 1 /\ stack[1] = Top /\ stack[1].at = "login"
      /\ stack' \in Seq(Frame) /\ stack' # <<>> /\ Len(stack') = 1
      /\ stack'[1].at = "closeLast" /\ stack'[1].i = 3 /\ StackShape'
      /\ Top.i \in Nat /\ Top.i >= 3
  <2>1. 3 \in Nat /\ 3 >= 3
    OBVIOUS
  <2>2. "login" \in Loop /\ "closeLast" \in Loop \cup FreeMemory
    BY DEF Loop, FreeMemory
  <2> QED
    BY <1>1, <1>2, <2>1, <2>2, LoopMoves, TopFrame DEF Refused
<1>4. TypeOK'
  BY <1>1, <1>2, <1>3 DEF TypeOK, Allocated, Refused, Tell, Send, world, block, Counters, Entries
<1>5. Counters'
  BY <1>1, <1>2, <1>3 DEF Counters, Refused, Tell, Send, block
<1>6. Entries'
  BY <1>1, <1>2, <1>3 DEF Entries, Refused, Tell, Send, Place, block
<1>7. OpenExact'
  BY <1>1, <1>2, <1>3 DEF OpenExact, Refused, Tell, Send, Place, Loop, block, world
<1>8. ClosedTold'
  BY <1>1, <1>2, <1>3 DEF ClosedTold, Refused, Tell, Send, ToldOrGone, block, world, Place, OpenExact, Loop,
     Entries, TypeOK, Counters
<1>9. FramesTold'
  BY <1>1, <1>2, <1>3 DEF FramesTold
<1>10. FreedKnown'
  BY <1>1, <1>2, <1>3 DEF FreedKnown, Refused, Tell, Send, Exposed, block
<1> QED
  BY <1>3, <1>4, <1>5, <1>6, <1>7, <1>8, <1>9, <1>10 DEF IInv, Consistent

LEMMA CloseLastKeeps ==
  ASSUME IInv, CloseLast
  PROVE  IInv'
<1>1. status = "running" /\ At("closeLast")
  BY DEF CloseLast, At
<1>2. /\ StackShape /\ Counters /\ Entries /\ OpenExact /\ ClosedTold /\ FramesTold
      /\ FreedKnown /\ TypeOK
  BY <1>1 DEF IInv, Consistent
<1>3. /\ Len(stack) = 1 /\ stack[1] = Top /\ stack[1].at = "closeLast"
      /\ stack' \in Seq(Frame) /\ stack' # <<>> /\ Len(stack') = 1
      /\ stack'[1].at = "uncountLast" /\ stack'[1].i = 3 /\ StackShape'
      /\ Top.i \in Nat /\ Top.i >= 3
  <2>1. 3 \in Nat /\ 3 >= 3
    OBVIOUS
  <2>2. "closeLast" \in Loop /\ "uncountLast" \in Loop \cup FreeMemory
    BY DEF Loop, FreeMemory
  <2> QED
    BY <1>1, <1>2, <2>1, <2>2, LoopMoves, TopFrame DEF CloseLast
<1>4. TypeOK'
  BY <1>1, <1>2, <1>3 DEF TypeOK, Allocated, CloseLast, world, block, Counters, Entries
<1>5. Counters'
  BY <1>1, <1>2, <1>3 DEF Counters, CloseLast, block
<1>6. Entries'
  BY <1>1, <1>2, <1>3 DEF Entries, CloseLast, Place, block
<1>7. OpenExact'
  BY <1>1, <1>2, <1>3 DEF OpenExact, CloseLast, Place, Loop, block, world, Entries, Counters, TypeOK
<1>8. ClosedTold'
  BY <1>1, <1>2, <1>3 DEF ClosedTold, CloseLast, ToldOrGone, block, world
<1>9. FramesTold'
  BY <1>1, <1>2, <1>3 DEF FramesTold
<1>10. FreedKnown'
  BY <1>1, <1>2, <1>3 DEF FreedKnown, CloseLast, Exposed, block
<1> QED
  BY <1>3, <1>4, <1>5, <1>6, <1>7, <1>8, <1>9, <1>10 DEF IInv, Consistent

LEMMA UncountLastKeeps ==
  ASSUME IInv, UncountLast
  PROVE  IInv'
<1>1. status = "running" /\ At("uncountLast")
  BY DEF UncountLast, At
<1>2. /\ StackShape /\ Counters /\ Entries /\ OpenExact /\ ClosedTold /\ FramesTold
      /\ FreedKnown /\ TypeOK
  BY <1>1 DEF IInv, Consistent
<1>3. /\ Len(stack) = 1 /\ stack[1] = Top /\ stack[1].at = "uncountLast"
      /\ stack' \in Seq(Frame) /\ stack' # <<>> /\ Len(stack') = 1
      /\ stack'[1].at = "poll" /\ stack'[1].i = 3 /\ StackShape'
      /\ Top.i \in Nat /\ Top.i >= 3
  <2>1. 3 \in Nat /\ 3 >= 3
    OBVIOUS
  <2>2. "uncountLast" \in Loop /\ "poll" \in Loop \cup FreeMemory
    BY DEF Loop, FreeMemory
  <2> QED
    BY <1>1, <1>2, <2>1, <2>2, LoopMoves, TopFrame DEF UncountLast
<1>4. TypeOK'
  BY <1>1, <1>2, <1>3 DEF TypeOK, Allocated, UncountLast, world, block, Counters, Entries
<1>5. Counters'
  BY <1>1, <1>2, <1>3 DEF Counters, UncountLast, block, TypeOK, Allocated
<1>6. Entries'
  BY <1>1, <1>2, <1>3 DEF Entries, UncountLast, Place, block
<1>7. OpenExact'
  BY <1>1, <1>2, <1>3 DEF OpenExact, UncountLast, Place, Loop, block, world
<1>8. ClosedTold'
  BY <1>1, <1>2, <1>3 DEF ClosedTold, UncountLast, ToldOrGone, block, world, Place, OpenExact, Loop
<1>9. FramesTold'
  BY <1>1, <1>2, <1>3 DEF FramesTold
<1>10. FreedKnown'
  BY <1>1, <1>2, <1>3 DEF FreedKnown, UncountLast, Exposed, block
<1> QED
  BY <1>3, <1>4, <1>5, <1>6, <1>7, <1>8, <1>9, <1>10 DEF IInv, Consistent

LEMMA UncountKeeps ==
  ASSUME IInv, Uncount
  PROVE  IInv'
<1>1. status = "running" /\ At("uncount")
  BY DEF Uncount, At
<1>2. /\ StackShape /\ Counters /\ Entries /\ OpenExact /\ ClosedTold /\ FramesTold
      /\ FreedKnown /\ TypeOK
  BY <1>1 DEF IInv, Consistent
<1>3. /\ Len(stack) = 1 /\ stack[1] = Top /\ stack[1].at = "uncount"
      /\ stack' \in Seq(Frame) /\ stack' # <<>> /\ Len(stack') = 1
      /\ stack'[1].at = "close" /\ stack'[1].i = Top.i /\ StackShape'
      /\ Top.i \in Nat /\ Top.i >= 3
  <2>1. Top.i \in Nat /\ Top.i >= 3
    BY <1>1, <1>2, TopFrame DEF At
  <2>2. "uncount" \in Loop /\ "close" \in Loop \cup FreeMemory
    BY DEF Loop, FreeMemory
  <2> QED
    BY <1>1, <1>2, <2>1, <2>2, LoopMoves, TopFrame DEF Uncount
<1>4. TypeOK'
  BY <1>1, <1>2, <1>3 DEF TypeOK, Allocated, Uncount, world, block, Counters, Entries
<1>5. Counters'
  BY <1>1, <1>2, <1>3 DEF Counters, Uncount, block, TypeOK, Allocated
<1>6. Entries'
  <2>1. /\ nfds \in Nat /\ nfds' = nfds - 1 /\ Top.i < nfds
        /\ memory' = memory /\ stack[1].i = Top.i
    BY <1>2, <1>3 DEF TypeOK, Counters, Uncount, block
  <2>2. /\ \A k \in 3 .. nfds - 1 : memory[k] \in Fd
        /\ \A k, l \in 3 .. nfds - 1 : memory[k] = memory[l] => k = l
    BY <1>2, <1>3 DEF Entries, Place
  <2>3. \A k \in 3 .. nfds' - 1 : Place(k)' = IF k >= Top.i THEN memory[k + 1] ELSE memory[k]
    BY <1>3, <2>1 DEF Place
  <2>5. PICK i : i = Top.i
    OBVIOUS
  <2>6. i \in 3 .. nfds - 1 /\ memory[i] \in Fd
    BY <1>3, <2>1, <2>2, <2>5
  <2>7. ASSUME NEW k \in 3 .. nfds' - 1
        PROVE  /\ memory[k] \in Fd
               /\ \E m \in 3 .. nfds - 1 : /\ m = (IF k >= i THEN k + 1 ELSE k)
                                           /\ m # i /\ Place(k)' = memory[m]
    BY <2>1, <2>2, <2>3, <2>5, <2>6
  <2>8. ASSUME NEW k \in 3 .. nfds' - 1, NEW l \in 3 .. nfds' - 1, Place(k)' = Place(l)'
        PROVE  k = l
    BY <2>1, <2>2, <2>6, <2>7, <2>8
  <2>4. /\ \A k \in 3 .. nfds' - 1 : memory[k] \in Fd /\ Place(k)' \in Fd
        /\ \A k, l \in 3 .. nfds' - 1 : Place(k)' = Place(l)' => k = l
        /\ memory[Top.i] \in Fd /\ \A k \in 3 .. nfds' - 1 : Place(k)' # memory[Top.i]
    BY <2>2, <2>5, <2>6, <2>7, <2>8
  <2> QED
    BY <1>3, <2>1, <2>4 DEF Entries
<1>7. OpenExact'
  BY <1>1, <1>2, <1>3 DEF OpenExact, Uncount, Place, Loop, block, world
<1>8. ClosedTold'
  BY <1>1, <1>2, <1>3 DEF ClosedTold, Uncount, ToldOrGone, block, world, Place, OpenExact, Loop
<1>9. FramesTold'
  BY <1>1, <1>2, <1>3 DEF FramesTold
<1>10. FreedKnown'
  BY <1>1, <1>2, <1>3 DEF FreedKnown, Uncount, Exposed, block
<1> QED
  BY <1>3, <1>4, <1>5, <1>6, <1>7, <1>8, <1>9, <1>10 DEF IInv, Consistent

LEMMA CloseKeeps ==
  ASSUME IInv, Close
  PROVE  IInv'
<1>1. status = "running" /\ At("close")
  BY DEF Close, At
<1>2. /\ StackShape /\ Counters /\ Entries /\ OpenExact /\ ClosedTold /\ FramesTold
      /\ FreedKnown /\ TypeOK
  BY <1>1 DEF IInv, Consistent
<1>3. /\ Len(stack) = 1 /\ stack[1] = Top /\ stack[1].at = "close"
      /\ stack' \in Seq(Frame) /\ stack' # <<>> /\ Len(stack') = 1
      /\ stack'[1].at = "load" /\ stack'[1].i = Top.i /\ StackShape'
      /\ Top.i \in Nat /\ Top.i >= 3
  <2>1. Top.i \in Nat /\ Top.i >= 3
    BY <1>1, <1>2, TopFrame DEF At
  <2>2. "close" \in Loop /\ "load" \in Loop \cup FreeMemory
    BY DEF Loop, FreeMemory
  <2> QED
    BY <1>1, <1>2, <2>1, <2>2, LoopMoves, TopFrame DEF Close
<1>4. TypeOK'
  BY <1>1, <1>2, <1>3 DEF TypeOK, Allocated, Close, world, block, Counters, Entries
<1>5. Counters'
  BY <1>1, <1>2, <1>3 DEF Counters, Close, block
<1>6. Entries'
  BY <1>1, <1>2, <1>3 DEF Entries, Close, Place, block
<1>7. OpenExact'
  BY <1>1, <1>2, <1>3 DEF OpenExact, Close, Place, Loop, block, world, Entries, Counters, TypeOK
<1>8. ClosedTold'
  BY <1>1, <1>2, <1>3 DEF ClosedTold, Close, ToldOrGone, block, world
<1>9. FramesTold'
  BY <1>1, <1>2, <1>3 DEF FramesTold
<1>10. FreedKnown'
  BY <1>1, <1>2, <1>3 DEF FreedKnown, Close, Exposed, block
<1> QED
  BY <1>3, <1>4, <1>5, <1>6, <1>7, <1>8, <1>9, <1>10 DEF IInv, Consistent

LEMMA LoadKeeps ==
  ASSUME IInv, Load
  PROVE  IInv'
<1>1. status = "running" /\ At("load")
  BY DEF Load, At
<1>2. /\ StackShape /\ Counters /\ Entries /\ OpenExact /\ ClosedTold /\ FramesTold
      /\ FreedKnown /\ TypeOK
  BY <1>1 DEF IInv, Consistent
<1>3. /\ Len(stack) = 1 /\ stack[1] = Top /\ stack[1].at = "load"
      /\ stack' \in Seq(Frame) /\ stack' # <<>> /\ Len(stack') = 1
      /\ stack'[1].at = "store" /\ stack'[1].i = Top.i /\ StackShape'
      /\ Top.i \in Nat /\ Top.i >= 3
  <2>1. Top.i \in Nat /\ Top.i >= 3
    BY <1>1, <1>2, TopFrame DEF At
  <2>2. "load" \in Loop /\ "store" \in Loop \cup FreeMemory
    BY DEF Loop, FreeMemory
  <2> QED
    BY <1>1, <1>2, <2>1, <2>2, LoopMoves, TopFrame DEF Load
<1>4. TypeOK'
  BY <1>1, <1>2, <1>3 DEF TypeOK, Allocated, Load, Behind, world, block, Counters, Entries, Place
<1>5. Counters'
  BY <1>1, <1>2, <1>3 DEF Counters, Load, Behind, block
<1>6. Entries'
  BY <1>1, <1>2, <1>3 DEF Entries, Load, Behind, Place, block
<1>7. OpenExact'
  BY <1>1, <1>2, <1>3 DEF OpenExact, Load, Behind, Place, Loop, block, world
<1>8. ClosedTold'
  BY <1>1, <1>2, <1>3 DEF ClosedTold, Load, Behind, ToldOrGone, block, world
<1>9. FramesTold'
  BY <1>1, <1>2, <1>3 DEF FramesTold
<1>10. FreedKnown'
  BY <1>1, <1>2, <1>3 DEF FreedKnown, Load, Behind, Exposed, block
<1> QED
  BY <1>3, <1>4, <1>5, <1>6, <1>7, <1>8, <1>9, <1>10 DEF IInv, Consistent

LEMMA StoredKeeps ==
  ASSUME IInv, Stored
  PROVE  IInv'
<1>1. status = "running" /\ At("store")
  BY DEF Stored, At
<1>2. /\ StackShape /\ Counters /\ Entries /\ OpenExact /\ ClosedTold /\ FramesTold
      /\ FreedKnown /\ TypeOK
  BY <1>1 DEF IInv, Consistent
<1>3. /\ Len(stack) = 1 /\ stack[1] = Top /\ stack[1].at = "store"
      /\ stack' \in Seq(Frame) /\ stack' # <<>> /\ Len(stack') = 1
      /\ stack'[1].at = "poll" /\ stack'[1].i = 3 /\ StackShape'
      /\ Top.i \in Nat /\ Top.i >= 3
  <2>1. 3 \in Nat /\ 3 >= 3
    OBVIOUS
  <2>2. "store" \in Loop /\ "poll" \in Loop \cup FreeMemory
    BY DEF Loop, FreeMemory
  <2> QED
    BY <1>1, <1>2, <2>1, <2>2, LoopMoves, TopFrame DEF Stored
<1>4. TypeOK'
  BY <1>1, <1>2, <1>3 DEF TypeOK, Allocated, Stored, world, block, Counters, Entries
<1>5. Counters'
  BY <1>1, <1>2, <1>3 DEF Counters, Stored, block
<1>6. Entries'
  BY <1>1, <1>2, <1>3 DEF Entries, Stored, Place, block
<1>7. OpenExact'
  BY <1>1, <1>2, <1>3 DEF OpenExact, Stored, Place, Loop, block, world
<1>8. ClosedTold'
  BY <1>1, <1>2, <1>3 DEF ClosedTold, Stored, ToldOrGone, block, world
<1>9. FramesTold'
  BY <1>1, <1>2, <1>3 DEF FramesTold
<1>10. FreedKnown'
  BY <1>1, <1>2, <1>3 DEF FreedKnown, Stored, Exposed, block
<1> QED
  BY <1>3, <1>4, <1>5, <1>6, <1>7, <1>8, <1>9, <1>10 DEF IInv, Consistent

LEMMA ExitKeeps ==
  ASSUME IInv, Exit
  PROVE  IInv'
<1>1. status = "running" /\ At("poll")
  BY DEF Exit, At
<1>2. /\ StackShape /\ Counters /\ Entries /\ OpenExact /\ ClosedTold /\ FramesTold
      /\ FreedKnown /\ TypeOK
  BY <1>1 DEF IInv, Consistent
<1>3. /\ Len(stack) = 1 /\ stack[1] = Top /\ stack[1].at = "poll"
      /\ stack' \in Seq(Frame) /\ stack' # <<>> /\ Len(stack') = 1
      /\ stack'[1].at = "tell" /\ stack'[1].i = FirstTold /\ StackShape'
      /\ Top.i \in Nat /\ Top.i >= 3
  <2>1. FirstTold \in Nat /\ FirstTold >= 3
    BY DEF FirstTold
  <2>2. "poll" \in Loop /\ "tell" \in Loop \cup FreeMemory
    BY DEF Loop, FreeMemory
  <2> QED
    BY <1>1, <1>2, <2>1, <2>2, LoopMoves, TopFrame DEF Exit
<1>4. TypeOK'
  BY <1>1, <1>2, <1>3 DEF TypeOK, Allocated, Exit, FirstTold, world, block, Counters, Entries
<1>5. Counters'
  BY <1>1, <1>2, <1>3 DEF Counters, Exit, FirstTold, block
<1>6. Entries'
  BY <1>1, <1>2, <1>3 DEF Entries, Exit, FirstTold, Place, block
<1>7. OpenExact'
  BY <1>1, <1>2, <1>3 DEF OpenExact, Loop
<1>8. ClosedTold'
  BY <1>1, <1>2, <1>3 DEF ClosedTold, Exit, FirstTold, ToldOrGone, block, world
<1>9. FramesTold'
  BY <1>1, <1>2, <1>3 DEF FramesTold, Exit, FirstTold, ToldOrGone, block, world
<1>10. FreedKnown'
  BY <1>1, <1>2, <1>3 DEF FreedKnown, Exit, FirstTold, Exposed, block
<1> QED
  BY <1>3, <1>4, <1>5, <1>6, <1>7, <1>8, <1>9, <1>10 DEF IInv, Consistent

LEMMA AcceptKeeps ==
  ASSUME IInv, Accept
  PROVE  IInv'
<1>1. status = "running" /\ At("poll") /\ status' = "running"
  BY DEF Accept, At
<1>2. /\ StackShape /\ Counters /\ Entries /\ OpenExact /\ ClosedTold /\ FramesTold
      /\ FreedKnown /\ TypeOK
  BY <1>1 DEF IInv, Consistent
<1>3. /\ Len(stack) = 1 /\ stack[1] = Top /\ stack[1].at = "poll"
      /\ stack' \in Seq(Frame) /\ stack' # <<>> /\ Len(stack') = 1
      /\ stack'[1].at = "nodelay" /\ stack'[1].i = 3 /\ StackShape'
  <2>1. "poll" \in Loop /\ "nodelay" \in Loop \cup FreeMemory
    BY DEF Loop, FreeMemory
  <2> QED
    BY <1>1, <1>2, <2>1, LoopMoves DEF Accept
<1>4. PICK f \in Fd \ open :
         /\ connfd' = f /\ open' = open \cup {f} /\ told' = told \ {f}
         /\ \E who \in {"there", "gone"} : peer' = [peer EXCEPT ![f] = who]
  BY DEF Accept
<1>5. UNCHANGED <<block, nfds, loaded>>
  BY DEF Accept
<1>6. /\ \A k \in 3 .. nfds - 1 : Place(k) = memory[k] /\ Place(k)' = memory[k]
      /\ \A k \in 3 .. nfds - 1 : memory[k] \in Fd /\ memory[k] \in open /\ memory[k] # f
  <2>1. \A k \in 3 .. nfds - 1 : Place(k) = memory[k] /\ Place(k)' = memory[k]
    BY <1>3, <1>5 DEF Place, block
  <2> QED
    BY <1>2, <1>3, <1>4, <2>1 DEF Entries, OpenExact, Loop
<1>7. TypeOK'
  BY <1>1, <1>2, <1>3, <1>4, <1>5 DEF TypeOK, Allocated, block
<1>8. Counters' /\ Entries'
  BY <1>2, <1>3, <1>4, <1>5, <1>6 DEF Counters, Entries, block, TypeOK
<1>9. OpenExact' /\ ClosedTold' /\ FramesTold'
  BY <1>2, <1>3, <1>4, <1>5, <1>6 DEF OpenExact, ClosedTold, FramesTold, block, Loop
<1>10. FreedKnown'
  BY <1>2, <1>3, <1>5 DEF FreedKnown, Exposed, block
<1> QED
  BY <1>3, <1>7, <1>8, <1>9, <1>10 DEF IInv, Consistent

LEMMA SetsockoptFailsKeeps ==
  ASSUME IInv, SetsockoptFails
  PROVE  IInv'
<1>1. status = "running" /\ At("nodelay") /\ status' = "running"
  BY DEF SetsockoptFails, At
<1>2. /\ StackShape /\ Counters /\ Entries /\ OpenExact /\ ClosedTold /\ FramesTold
      /\ FreedKnown /\ TypeOK
  BY <1>1 DEF IInv, Consistent
<1>3. /\ Len(stack) = 1 /\ stack[1] = Top /\ stack[1].at = "nodelay"
      /\ stack' \in Seq(Frame) /\ stack' # <<>> /\ Len(stack') = 1
      /\ stack'[1].at = "poll" /\ stack'[1].i = 3 /\ StackShape'
  <2>1. "nodelay" \in Loop /\ "poll" \in Loop \cup FreeMemory
    BY DEF Loop, FreeMemory
  <2> QED
    BY <1>1, <1>2, <2>1, LoopMoves DEF SetsockoptFails
<1>4. /\ open' = open \ {connfd}
      /\ UNCHANGED <<block, nfds, connfd, loaded, peer, told>>
  BY DEF SetsockoptFails
<1>5. /\ \A k \in 3 .. nfds - 1 : Place(k) = memory[k] /\ Place(k)' = memory[k]
      /\ \A k \in 3 .. nfds - 1 : memory[k] \in open /\ memory[k] # connfd
  <2>1. \A k \in 3 .. nfds - 1 : Place(k) = memory[k] /\ Place(k)' = memory[k]
    BY <1>3, <1>4 DEF Place, block
  <2> QED
    BY <1>2, <1>3, <2>1 DEF Entries, OpenExact, Loop
<1>6. TypeOK'
  BY <1>1, <1>2, <1>3, <1>4 DEF TypeOK, Allocated, block
<1>7. Counters' /\ Entries'
  BY <1>2, <1>3, <1>4, <1>5 DEF Counters, Entries, block
<1>8. OpenExact' /\ ClosedTold' /\ FramesTold'
  BY <1>2, <1>3, <1>4, <1>5 DEF OpenExact, ClosedTold, FramesTold, ToldOrGone, block, Loop
<1>9. FreedKnown'
  BY <1>2, <1>3, <1>4 DEF FreedKnown, Exposed, block
<1> QED
  BY <1>3, <1>6, <1>7, <1>8, <1>9 DEF IInv, Consistent

LEMMA AddFdKeeps ==
  ASSUME IInv, AddFd
  PROVE  IInv'
<1> DEFINE label == IF Full THEN "grow" ELSE "fill"
<1>1. status = "running" /\ At("nodelay") /\ status' = "running"
  BY DEF AddFd, At
<1>2. /\ StackShape /\ Counters /\ Entries /\ OpenExact /\ ClosedTold /\ FramesTold
      /\ FreedKnown /\ TypeOK
  BY <1>1 DEF IInv, Consistent
<1>3. /\ Len(stack) = 1 /\ stack[1] = Top /\ stack[1].at = "nodelay"
      /\ stack' \in Seq(Frame) /\ stack' # <<>> /\ Len(stack') = 1
      /\ stack'[1].at = label /\ stack'[1].i = 3 /\ StackShape'
  <2>1. "nodelay" \in Loop /\ label \in Loop \cup FreeMemory
    BY DEF Loop, FreeMemory
  <2> QED
    BY <1>1, <1>2, <2>1, LoopMoves DEF AddFd
<1>4. UNCHANGED <<block, nfds, connfd, loaded, world>>
  BY DEF AddFd
<1>5. \A k \in 3 .. nfds - 1 : Place(k) = memory[k] /\ Place(k)' = memory[k]
  BY <1>3, <1>4 DEF Place, block
<1>6. TypeOK'
  BY <1>1, <1>2, <1>3, <1>4 DEF TypeOK, Allocated, block, world
<1>7. Counters' /\ Entries'
  BY <1>2, <1>3, <1>4, <1>5 DEF Counters, Entries, Full, block, TypeOK
<1>8. OpenExact' /\ ClosedTold' /\ FramesTold'
  BY <1>2, <1>3, <1>4, <1>5
     DEF OpenExact, ClosedTold, FramesTold, ToldOrGone, block, world, Loop
<1>9. FreedKnown'
  BY <1>2, <1>3, <1>4 DEF FreedKnown, Exposed, block, world
<1> QED
  BY <1>3, <1>6, <1>7, <1>8, <1>9 DEF IInv, Consistent

LEMMA DepartKeeps ==
  ASSUME IInv, Depart
  PROVE  IInv'
<1>1. status = "running" /\ At("poll")
  BY DEF Depart, At
<1>2. /\ StackShape /\ Counters /\ Entries /\ OpenExact /\ ClosedTold /\ FramesTold
      /\ FreedKnown /\ TypeOK
  BY <1>1 DEF IInv, Consistent
<1>3. PICK i \in 3 .. nfds - 1 : peer[memory[i]] # "there" /\ Go("uncount", i)
  BY DEF Depart
<1>4. nfds \in Nat /\ i \in Nat /\ i >= 3 /\ i < nfds
  BY <1>2 DEF TypeOK
<1>5. /\ Len(stack) = 1 /\ stack[1] = Top /\ stack[1].at = "poll"
      /\ stack' \in Seq(Frame) /\ stack' # <<>> /\ Len(stack') = 1
      /\ stack'[1].at = "uncount" /\ stack'[1].i = i /\ StackShape'
  <2>1. "poll" \in Loop /\ "uncount" \in Loop \cup FreeMemory
    BY DEF Loop, FreeMemory
  <2> QED
    BY <1>1, <1>2, <1>3, <1>4, <2>1, LoopMoves
<1>6. UNCHANGED <<block, nfds, connfd, loaded, world, status>>
  BY DEF Depart
<1>7. TypeOK'
  BY <1>2, <1>5, <1>6 DEF TypeOK, Allocated, block, world
<1>8. Counters'
  BY <1>2, <1>4, <1>5, <1>6 DEF Counters, block
<1>9. Entries'
  BY <1>2, <1>5, <1>6 DEF Entries, Place, block
<1>10. OpenExact'
  BY <1>2, <1>5, <1>6 DEF OpenExact, Place, Loop, block, world
<1>11. ClosedTold' /\ FramesTold'
  BY <1>2, <1>3, <1>5, <1>6 DEF ClosedTold, FramesTold, ToldOrGone, block, world
<1>12. FreedKnown'
  BY <1>2, <1>5, <1>6 DEF FreedKnown, Exposed, block
<1> QED
  BY <1>5, <1>7, <1>8, <1>9, <1>10, <1>11, <1>12 DEF IInv, Consistent

LEMMA StoreKeeps ==
  ASSUME IInv, Store
  PROVE  IInv'
<1>1. status = "running" /\ At("store") /\ status' = "running"
  BY DEF Store, At
<1>2. /\ StackShape /\ Counters /\ Entries /\ OpenExact /\ ClosedTold /\ FramesTold
      /\ FreedKnown /\ TypeOK
  BY <1>1 DEF IInv, Consistent
<1>3. /\ Len(stack) = 1 /\ stack[1] = Top /\ stack[1].at = "store" /\ stack' = stack
  <2>1. "store" \in Loop
    BY DEF Loop
  <2> QED
    BY <1>1, <1>2, <2>1, LoopAlone DEF Store
<1>4. PICK n \in DOMAIN loaded :
         /\ memory' = [memory EXCEPT ![n] = loaded[n]]
         /\ loaded' = [k \in DOMAIN loaded \ {n} |-> loaded[k]]
  BY DEF Store
<1>5. UNCHANGED <<pollfds, nfds, maxSize, connfd, world, stack, status>>
  BY DEF Store
<1>6. /\ memory \in [3 .. maxSize - 1 -> Fd \cup {Junk}] /\ maxSize \in Nat /\ nfds \in Nat
      /\ n \in 3 .. nfds - 1 /\ nfds < maxSize /\ loaded[n] \in Fd
  <2>1. stack[1].i \in Nat /\ stack[1].i >= 3
    BY <1>2, <1>3, TopFrame
  <2>2. /\ memory \in [3 .. maxSize - 1 -> Fd \cup {Junk}] /\ maxSize \in Nat
        /\ nfds \in Nat /\ n \in Nat /\ loaded[n] \in Fd
    BY <1>1, <1>2, <1>3, <1>4 DEF TypeOK, Allocated
  <2>3. n \in stack[1].i .. nfds - 1 /\ nfds < maxSize
    BY <1>2, <1>3, <1>4 DEF Counters
  <2> QED
    BY <2>1, <2>2, <2>3
<1>7. /\ memory'[n] = loaded[n] /\ \A k \in 3 .. nfds - 1 : k # n => memory'[k] = memory[k]
      /\ \A k \in DOMAIN loaded' : k # n /\ k \in DOMAIN loaded /\ loaded'[k] = loaded[k]
      /\ DOMAIN loaded' = DOMAIN loaded \ {n}
      /\ memory' \in [3 .. maxSize - 1 -> Fd \cup {Junk}]
  BY <1>4, <1>6
<1>8. \A k \in 3 .. nfds - 1 : Place(k)' = Place(k)
  BY <1>3, <1>5, <1>7 DEF Place
<1>9. TypeOK'
  BY <1>2, <1>3, <1>5, <1>7 DEF TypeOK, Allocated, world
<1>10. Counters'
  BY <1>2, <1>3, <1>5, <1>7 DEF Counters
<1>11. Entries'
  BY <1>2, <1>3, <1>5, <1>6, <1>7, <1>8 DEF Entries
<1>12. OpenExact'
  BY <1>2, <1>3, <1>5, <1>8 DEF OpenExact, world
<1>13. Place(n) = loaded[n] /\ Place(n) \in open
  BY <1>2, <1>3, <1>4, <1>6 DEF Place, OpenExact, Loop
<1>14. ClosedTold'
  BY <1>2, <1>3, <1>5, <1>7, <1>13 DEF ClosedTold, ToldOrGone, world
<1>15. FramesTold'
  BY <1>3 DEF FramesTold
<1>16. FreedKnown' /\ StackShape'
  BY <1>2, <1>3, <1>5 DEF FreedKnown, StackShape
<1> QED
  BY <1>9, <1>10, <1>11, <1>12, <1>14, <1>15, <1>16 DEF IInv, Consistent

\* Sending tells who is there, and wakes nobody.
LEMMA SendFacts ==
  ASSUME NEW f \in Fd, Send(f), peer \in [Fd -> {"there", "gone", "reset"}],
         status = "running"
  PROVE  /\ peer' \in [Fd -> {"there", "gone", "reset"}] /\ open' = open
         /\ \A g \in Fd : peer[g] # "there" <=> peer'[g] # "there"
         /\ status' \in {"running", "killed"}
BY DEF Send

LEMMA NotifyKeeps ==
  ASSUME IInv, Notify
  PROVE  IInv'
<1>1. status = "running" /\ At("poll")
  BY DEF Notify, At
<1>2. /\ StackShape /\ Counters /\ Entries /\ OpenExact /\ ClosedTold /\ FramesTold
      /\ FreedKnown /\ TypeOK
  BY <1>1 DEF IInv, Consistent
<1>3. PICK k \in 3 .. nfds - 1 : Send(memory[k])
  BY DEF Notify
<1>4. /\ peer' \in [Fd -> {"there", "gone", "reset"}] /\ open' = open
      /\ \A g \in Fd : peer[g] # "there" <=> peer'[g] # "there"
      /\ status' \in {"running", "killed"}
  BY <1>1, <1>2, <1>3, SendFacts DEF Entries, TypeOK
<1>5. UNCHANGED <<block, nfds, connfd, loaded, told, stack>>
  BY DEF Notify
<1>6. /\ Len(stack) = 1 /\ stack[1] = Top /\ stack[1].at = "poll"
  <2>1. "poll" \in Loop
    BY DEF Loop
  <2> QED
    BY <1>1, <1>2, <2>1, LoopAlone
<1>7. TypeOK'
  BY <1>1, <1>2, <1>4, <1>5 DEF TypeOK, Allocated, block
<1>8. Counters' /\ StackShape' /\ FreedKnown'
  BY <1>2, <1>5 DEF Counters, StackShape, FreedKnown, block
<1>9. \A n \in 3 .. nfds - 1 : Place(n)' = Place(n)
  BY <1>5 DEF Place, block
<1>10. Entries' /\ OpenExact'
  BY <1>2, <1>4, <1>5, <1>6, <1>9 DEF Entries, OpenExact, block
<1>11. ClosedTold' /\ FramesTold'
  BY <1>2, <1>4, <1>5, <1>6 DEF ClosedTold, FramesTold, ToldOrGone, block, Entries
<1> QED
  BY <1>7, <1>8, <1>10, <1>11 DEF IInv, Consistent

-----------------------------------------------------------------------------
\* A subscriber's end concerns only what was told.
LEMMA VanishKeeps ==
  ASSUME IInv, NEW f \in Fd, Vanish(f)
  PROVE  IInv'
<1>1. status = "running"
  BY DEF Vanish
<1>2. /\ StackShape /\ Counters /\ Entries /\ OpenExact /\ ClosedTold /\ FramesTold
      /\ FreedKnown /\ TypeOK
  BY <1>1 DEF IInv, Consistent
<1>3. UNCHANGED <<block, nfds, connfd, loaded, open, told, stack, status>>
  BY DEF Vanish
<1>4. /\ peer' \in [Fd -> {"there", "gone", "reset"}]
      /\ \A g \in Fd : peer[g] # "there" => peer'[g] # "there"
  BY <1>2 DEF Vanish, TypeOK
<1>5. TypeOK'
  BY <1>2, <1>3, <1>4 DEF TypeOK, Allocated, block
<1>6. Counters' /\ StackShape' /\ FreedKnown'
  BY <1>2, <1>3 DEF Counters, StackShape, FreedKnown, block
<1>7. \A n \in 3 .. nfds - 1 : Place(n)' = Place(n)
  BY <1>3 DEF Place, block
<1>8. Entries' /\ OpenExact'
  BY <1>2, <1>3, <1>7 DEF Entries, OpenExact, block
<1>9. \A g \in Fd : ToldOrGone(g) => ToldOrGone(g)'
  BY <1>3, <1>4 DEF ToldOrGone
<1>10. ClosedTold'
  <2>1. stack[1].at \in {"uncount", "close"} => memory[stack[1].i] \in Fd
    <3>1. stack[1].i \in Nat /\ (stack[1].at # "closeAll" => stack[1].i >= 3)
      <4>1. 1 \in 1 .. Len(stack) /\ stack[1] \in Frame
        BY <1>2 DEF TypeOK
      <4> QED
        BY <1>2, <4>1 DEF StackShape, Frame
    <3> QED
      BY <1>2, <3>1 DEF Entries, Counters, TypeOK
  <2>2. stack[1].at \in {"closeLast", "uncountLast"} => connfd \in Fd
    BY <1>2 DEF Entries, Counters, TypeOK
  <2> QED
    BY <1>2, <1>3, <1>4, <1>9, <2>1, <2>2 DEF ClosedTold, block, Entries
<1>11. FramesTold'
  BY <1>2, <1>3, <1>9 DEF FramesTold, block, Entries
<1> QED
  BY <1>3, <1>5, <1>6, <1>8, <1>10, <1>11 DEF IInv, Consistent

\* A handler starts with nobody told.
LEMMA CaughtKeeps ==
  ASSUME IInv, NEW s \in Signal, Caught(s)
  PROVE  IInv'
<1> DEFINE frame == [signal |-> s, at |-> "tell", i |-> FirstTold]
<1>1. status = "running" /\ stack' = Append(stack, frame)
  BY DEF Caught
<1>2. /\ StackShape /\ Counters /\ Entries /\ OpenExact /\ ClosedTold /\ FramesTold
      /\ FreedKnown /\ TypeOK
  BY <1>1 DEF IInv, Consistent
<1>3. UNCHANGED <<block, nfds, connfd, loaded, world, status>>
  BY DEF Caught
<1>4. frame \in Frame /\ frame.at = "tell" /\ frame.i = 3
  BY DEF Frame, FreeMemory, FirstTold
<1> HIDE DEF frame
<1>5. /\ stack \in Seq(Frame) /\ Len(stack) \in Nat /\ Len(stack) >= 1
      /\ stack' \in Seq(Frame) /\ Len(stack') = Len(stack) + 1
      /\ \A j \in 1 .. Len(stack) : stack'[j] = stack[j]
      /\ stack'[Len(stack) + 1] = frame
  BY <1>1, <1>2, <1>4 DEF TypeOK
<1>6. stack'[1] = stack[1] /\ stack' # <<>>
  BY <1>5
<1>7. TypeOK'
  BY <1>2, <1>3, <1>5, <1>6 DEF TypeOK, Allocated, block, world
<1>8. \A n \in 3 .. nfds - 1 : Place(n)' = Place(n)
  BY <1>3, <1>6 DEF Place, block
<1>9. Counters' /\ Entries' /\ ClosedTold'
  BY <1>2, <1>3, <1>6, <1>8
     DEF Counters, Entries, ClosedTold, ToldOrGone, block, world
<1>10. OpenExact'
  BY <1>5 DEF OpenExact
<1>11. StackShape'
  BY <1>2, <1>4, <1>5 DEF StackShape, FreeMemory
<1>12. FramesTold'
  <2>1. \A j \in 1 .. Len(stack') : j \in 1 .. Len(stack) \/ j = Len(stack) + 1
    BY <1>5
  <2> QED
    BY <1>2, <1>3, <1>4, <1>5, <2>1 DEF FramesTold, ToldOrGone, block, world
<1>13. FreedKnown'
  BY <1>2, <1>3, <1>5 DEF FreedKnown, Exposed, block
<1> QED
  BY <1>3, <1>7, <1>9, <1>10, <1>11, <1>12, <1>13 DEF IInv, Consistent
-----------------------------------------------------------------------------
\* freeMemory goes on, in the loop or in the handler on top.
LEMMA FreeMoves ==
  ASSUME TypeOK, StackShape, NEW from \in FreeMemory, At(from),
         NEW label \in FreeMemory, NEW i \in Nat, i >= 1,
         label # "closeAll" => i >= 3, Go(label, i)
  PROVE  /\ stack' \in Seq(Frame) /\ stack' # <<>> /\ Len(stack') = Len(stack)
         /\ \A j \in 1 .. Len(stack) - 1 : stack'[j] = stack[j]
         /\ stack'[Len(stack)].at = label /\ stack'[Len(stack)].i = i
         /\ StackShape'
         /\ \/ stack'[1] = stack[1]
            \/ stack[1].at \in FreeMemory /\ stack'[1].at \in FreeMemory
<1>1. /\ stack' \in Seq(Frame) /\ stack' # <<>> /\ Len(stack') = Len(stack)
      /\ \A j \in 1 .. Len(stack) - 1 : stack'[j] = stack[j]
      /\ Top'.at = label /\ Top'.i = i
  BY GoFacts DEF TypeOK
<1>2. Len(stack) \in Nat /\ Len(stack) >= 1
  BY DEF TypeOK
<1>3. stack'[Len(stack)].at = label /\ stack'[Len(stack)].i = i
  BY <1>1 DEF Top
<1>4. \A n \in Nat : n >= 1 => \A j \in 1 .. n : j \in 1 .. n - 1 \/ j = n
  OBVIOUS
<1>5. \A j \in 1 .. Len(stack) : j \in 1 .. Len(stack) - 1 \/ j = Len(stack)
  BY <1>2, <1>4
<1>6. StackShape'
  BY <1>1, <1>3, <1>5 DEF StackShape
<1>7. \/ stack'[1] = stack[1]
      \/ stack[1].at \in FreeMemory /\ stack'[1].at \in FreeMemory
  BY <1>1, <1>2, <1>3, <1>5 DEF At, Top
<1> QED
  BY <1>1, <1>3, <1>6, <1>7

\* What freeMemory leaves alone, whoever called it.
LEMMA FreeKeeps ==
  ASSUME TypeOK, StackShape, Counters, Entries, ClosedTold, FramesTold,
         NEW from \in FreeMemory, At(from),
         NEW label \in FreeMemory, NEW i \in Nat, i >= 1,
         label # "closeAll" => i >= 3, Go(label, i),
         UNCHANGED <<memory, maxSize, nfds, connfd, loaded>>, TypeOK', FreedKnown',
         \A f \in Fd : peer[f] # "there" => peer'[f] # "there",
         \A f \in Fd : ToldOrGone(f) => ToldOrGone(f)',
         \A k \in 3 .. nfds - 1 :
           memory[k] \in open => memory[k] \in open' \/ ToldOrGone(memory[k])',
         \A k \in 3 .. nfds - 1 :
           label # "tell" \/ k < i => ToldOrGone(memory[k])'
  PROVE  IInv'
<1>1. /\ stack' \in Seq(Frame) /\ stack' # <<>> /\ Len(stack') = Len(stack)
      /\ \A j \in 1 .. Len(stack) - 1 : stack'[j] = stack[j]
      /\ stack'[Len(stack)].at = label /\ stack'[Len(stack)].i = i
      /\ StackShape'
      /\ \/ stack'[1] = stack[1]
         \/ stack[1].at \in FreeMemory /\ stack'[1].at \in FreeMemory
  BY FreeMoves
<1>2. /\ Len(stack) \in Nat /\ Len(stack) >= 1 /\ stack[1] \in Frame
      /\ stack[1].at # "closeAll" => stack[1].i >= 3
  <2>1. Len(stack) \in Nat /\ Len(stack) >= 1 /\ stack \in Seq(Frame)
    BY DEF TypeOK
  <2>2. 1 \in 1 .. Len(stack)
    BY <2>1
  <2> QED
    BY <2>1, <2>2 DEF StackShape
<1>3. stack[1].i \in Nat
  BY <1>2 DEF Frame
<1>4. \A k \in 3 .. nfds - 1 : memory[k] \in Fd
  BY DEF Entries
<1>5. ASSUME stack'[1] = stack[1]
      PROVE  Counters' /\ Entries' /\ ClosedTold'
  <2>1. \A k : Place(k)' = Place(k)
    BY <1>5 DEF Place
  <2>2. Counters' /\ Entries'
    BY <1>5, <2>1 DEF Counters, Entries
  <2>3. stack[1].at \in {"uncount", "close"} => memory[stack[1].i] \in Fd
    BY <1>2, <1>3 DEF Entries, Counters, TypeOK
  <2>4. stack[1].at \in {"closeLast", "uncountLast"} => connfd \in Fd
    BY DEF Entries, Counters, TypeOK
  <2>5. ClosedTold'
    BY <1>4, <1>5, <2>3, <2>4 DEF ClosedTold
  <2> QED
    BY <2>2, <2>5
<1>6. ASSUME stack[1].at \in FreeMemory, stack'[1].at \in FreeMemory
      PROVE  Counters' /\ Entries' /\ ClosedTold'
  <2>1. \A k : Place(k)' = memory[k] /\ Place(k) = memory[k]
    BY <1>6 DEF Place, FreeMemory
  <2>2. Counters' /\ Entries'
    BY <1>6, <2>1 DEF Counters, Entries, FreeMemory
  <2>3. ClosedTold'
    BY <1>4, <1>6 DEF ClosedTold, FreeMemory
  <2> QED
    BY <2>2, <2>3
<1>7. Counters' /\ Entries' /\ ClosedTold'
  BY <1>1, <1>5, <1>6
<1>8. OpenExact'
  <2>1. Len(stack) = 1 => stack'[1].at \in FreeMemory
    BY <1>1
  <2>2. Loop \cap FreeMemory = {}
    BY DEF Loop, FreeMemory
  <2> QED
    BY <1>1, <2>1, <2>2 DEF OpenExact
<1>9. FramesTold'
  <2>1. \A n \in Nat : n >= 1 => \A j \in 1 .. n : j \in 1 .. n - 1 \/ j = n
    OBVIOUS
  <2>2. \A j \in 1 .. Len(stack) : j \in 1 .. Len(stack) - 1 \/ j = Len(stack)
    BY <1>2, <2>1
  <2>3. \A j \in 1 .. Len(stack) - 1 : j \in 1 .. Len(stack)
    BY <1>2
  <2> QED
    BY <1>1, <1>4, <2>2, <2>3 DEF FramesTold
<1> QED
  BY <1>1, <1>7, <1>8, <1>9 DEF IInv, Consistent

LEMMA BadAccessKeeps ==
  ASSUME IInv, BadAccess
  PROVE  TypeOK' /\ status' # "running"
<1>1. status' \in {"killed", "undefined"}
  BY DEF BadAccess
<1>2. UNCHANGED <<block, nfds, connfd, loaded, world, stack>>
  BY DEF BadAccess
<1> QED
  BY <1>1, <1>2 DEF IInv, TypeOK, block, world

LEMMA TellNextKeeps ==
  ASSUME IInv, TellNext
  PROVE  IInv'
<1>1. status = "running" /\ At("tell") /\ Top.i < nfds /\ Top.at = "tell"
  BY DEF TellNext, At
<1>2. /\ StackShape /\ Counters /\ Entries /\ OpenExact /\ ClosedTold /\ FramesTold
      /\ FreedKnown /\ TypeOK
  BY <1>1 DEF IInv, Consistent
<1>3. CASE BadAccess
  BY <1>3, BadAccessKeeps DEF IInv, Consistent
<1>4. CASE pollfds = "table" /\ Tell(memory[Top.i]) /\ Go("tell", Top.i + 1)
           /\ UNCHANGED <<block, nfds, connfd, loaded>>
  <2>1. Top.i \in Nat /\ Top.i >= 3 /\ nfds \in Nat
    BY <1>1, <1>2, TopFrame DEF TypeOK
  <2>2. PICK f \in Fd : f = memory[Top.i] /\ Top.i \in 3 .. nfds - 1
    BY <1>1, <1>2, <2>1 DEF Entries
  <2>3. /\ peer' \in [Fd -> {"there", "gone", "reset"}] /\ open' = open
        /\ \A g \in Fd : peer[g] # "there" <=> peer'[g] # "there"
        /\ status' \in {"running", "killed"}
    BY <1>1, <1>2, <1>4, <2>2, SendFacts DEF Tell, TypeOK
  <2>4. /\ told' = IF f \in open /\ peer[f] = "there" THEN told \cup {f} ELSE told
    BY <1>4, <2>2 DEF Tell
  <2>5. /\ \A g \in Fd : ToldOrGone(g) => ToldOrGone(g)'
        /\ ToldOrGone(f)'
    <3>1. f \in open \/ ToldOrGone(f)
      BY <1>2, <2>2 DEF ClosedTold
    <3> QED
      BY <2>2, <2>3, <2>4, <3>1 DEF ToldOrGone
  <2>6. "tell" \in FreeMemory /\ Top.i + 1 \in Nat /\ Top.i + 1 >= 3
    BY <2>1 DEF FreeMemory
  <2>7. /\ stack' \in Seq(Frame) /\ stack' # <<>>
        /\ \/ stack'[1] = stack[1]
           \/ stack[1].at \in FreeMemory /\ stack'[1].at \in FreeMemory
    BY <1>1, <1>2, <1>4, <2>6, FreeMoves
  <2>8. Allocated' = Allocated
    BY <1>4, <2>7 DEF Allocated, block, FreeMemory
  <2>9. TypeOK'
    BY <1>1, <1>2, <1>4, <2>2, <2>3, <2>4, <2>7, <2>8 DEF TypeOK, block
  <2>10. \A k \in 3 .. nfds - 1 : k < Top.i + 1 => ToldOrGone(memory[k])'
    <3>1. \A k \in 3 .. nfds - 1 : k < Top.i => ToldOrGone(memory[k])
      <4>1. Len(stack) \in 1 .. Len(stack)
        BY <1>2 DEF TypeOK
      <4> QED
        BY <1>1, <1>2, <4>1 DEF FramesTold, Top
    <3>2. \A k \in 3 .. nfds - 1 : memory[k] \in Fd /\ memory'[k] = memory[k]
      BY <1>2, <1>4 DEF Entries, block
    <3>3. \A k \in 3 .. nfds - 1 : k < Top.i + 1 => k < Top.i \/ k = Top.i
      BY <2>1
    <3> QED
      BY <2>2, <2>5, <3>1, <3>2, <3>3
  <2>11. FreedKnown'
    BY <1>4 DEF FreedKnown, block
  <2>12. UNCHANGED <<memory, maxSize, nfds, connfd, loaded>>
    BY <1>4 DEF block
  <2> QED
    BY <1>1, <1>2, <1>4, <2>3, <2>5, <2>6, <2>9, <2>10, <2>11, <2>12, FreeKeeps
<1> QED
  BY <1>3, <1>4 DEF TellNext

\* A jump within freeMemory that exposes nothing new.
LEMMA StillKnown ==
  ASSUME TypeOK, FreedKnown, pollfds' = pollfds, ~Exposed(Top),
         Len(stack') = Len(stack),
         \A j \in 1 .. Len(stack) - 1 : stack'[j] = stack[j]
  PROVE  FreedKnown'
<1>1. Len(stack) \in Nat /\ Len(stack) >= 1
  BY DEF TypeOK
<1>2. \A n \in Nat : n >= 1 => \A j \in 1 .. n : j \in 1 .. n - 1 \/ j = n
  OBVIOUS
<1>3. \A j \in 1 .. Len(stack) : j \in 1 .. Len(stack) - 1 \/ j = Len(stack)
  BY <1>1, <1>2
<1> QED
  BY <1>3 DEF FreedKnown, Exposed, Top

LEMMA DoneKeeps ==
  ASSUME IInv, TellDone \/ CloseDone
  PROVE  IInv'
<1> DEFINE label == IF TellDone THEN "closeAll" ELSE "free"
           first == IF TellDone THEN 1 ELSE 3
<1>1. PICK from \in {"tell", "closeAll"} :
        /\ status = "running" /\ At(from) /\ Top.at = from /\ Top.i >= nfds
        /\ Go(label, first)
  BY DEF TellDone, CloseDone, At
<1>2. /\ StackShape /\ Counters /\ Entries /\ OpenExact /\ ClosedTold /\ FramesTold
      /\ FreedKnown /\ TypeOK
  BY <1>1 DEF IInv, Consistent
<1>3. UNCHANGED <<block, nfds, connfd, loaded, world, status>>
  BY DEF TellDone, CloseDone
<1>4. /\ from \in FreeMemory /\ label \in FreeMemory /\ label # "tell"
      /\ first \in Nat /\ first >= 1 /\ (label # "closeAll" => first >= 3)
  BY DEF FreeMemory
<1> HIDE DEF label, first
<1>5. /\ stack' \in Seq(Frame) /\ stack' # <<>> /\ Len(stack') = Len(stack)
      /\ \A j \in 1 .. Len(stack) - 1 : stack'[j] = stack[j]
      /\ \/ stack'[1] = stack[1]
         \/ stack[1].at \in FreeMemory /\ stack'[1].at \in FreeMemory
  BY <1>1, <1>2, <1>4, FreeMoves
<1>6. Allocated' = Allocated
  BY <1>3, <1>5 DEF Allocated, block, FreeMemory
<1>7. TypeOK'
  BY <1>1, <1>2, <1>3, <1>5, <1>6 DEF TypeOK, block, world
<1>8. FreedKnown'
  BY <1>1, <1>2, <1>3, <1>5, StillKnown DEF Exposed, block
<1>9. \A k \in 3 .. nfds - 1 : ToldOrGone(memory[k])
  <2>1. Len(stack) \in 1 .. Len(stack)
    BY <1>2 DEF TypeOK
  <2>2. \A k \in 3 .. nfds - 1 : k < Top.i
    <3>1. Top.i \in Nat /\ nfds \in Nat
      BY <1>2, TopFrame DEF TypeOK
    <3> QED
      BY <1>1, <3>1
  <2> QED
    BY <1>1, <1>2, <2>1, <2>2 DEF FramesTold, Top
<1>10. \A f \in Fd : ToldOrGone(f)' = ToldOrGone(f)
  BY <1>3 DEF ToldOrGone, world
<1> QED
  BY <1>1, <1>2, <1>3, <1>4, <1>7, <1>8, <1>9, <1>10, FreeKeeps
     DEF block, world, Entries

LEMMA CloseNextKeeps ==
  ASSUME IInv, CloseNext
  PROVE  IInv'
<1>1. status = "running" /\ At("closeAll") /\ Top.i < nfds /\ Top.at = "closeAll"
  BY DEF CloseNext, At
<1>2. /\ StackShape /\ Counters /\ Entries /\ OpenExact /\ ClosedTold /\ FramesTold
      /\ FreedKnown /\ TypeOK
  BY <1>1 DEF IInv, Consistent
<1>3. CASE BadAccess
  BY <1>3, BadAccessKeeps DEF IInv, Consistent
<1>4. CASE /\ pollfds = "table"
           /\ open' = IF Top.i < 3 THEN open ELSE open \ {memory[Top.i]}
           /\ Go("closeAll", Top.i + 1)
           /\ UNCHANGED <<block, nfds, connfd, loaded, peer, told, status>>
  <2>1. "closeAll" \in FreeMemory /\ Top.i + 1 \in Nat /\ Top.i + 1 >= 1
    BY <1>2, TopFrame DEF FreeMemory
  <2>2. /\ stack' \in Seq(Frame) /\ stack' # <<>> /\ Len(stack') = Len(stack)
        /\ \/ stack'[1] = stack[1]
           \/ stack[1].at \in FreeMemory /\ stack'[1].at \in FreeMemory
    BY <1>1, <1>2, <1>4, <2>1, FreeMoves
  <2>3. Allocated' = Allocated
    BY <1>4, <2>2 DEF Allocated, block, FreeMemory
  <2>4. TypeOK'
    BY <1>1, <1>2, <1>4, <2>2, <2>3 DEF TypeOK, block
  <2>5. FreedKnown'
    BY <1>4 DEF FreedKnown, block
  <2>6. \A f \in Fd : ToldOrGone(f)' = ToldOrGone(f)
    BY <1>4 DEF ToldOrGone
  <2>7. \A k \in 3 .. nfds - 1 : ToldOrGone(memory[k])
    <3>1. Len(stack) \in 1 .. Len(stack)
      BY <1>2 DEF TypeOK
    <3> QED
      BY <1>1, <1>2, <3>1 DEF FramesTold, Top
  <2>8. UNCHANGED <<memory, maxSize, nfds, connfd, loaded, peer>>
    BY <1>4 DEF block
  <2> QED
    BY <1>1, <1>2, <1>4, <2>1, <2>4, <2>5, <2>6, <2>7, <2>8, FreeKeeps DEF Entries
<1> QED
  BY <1>3, <1>4 DEF CloseNext

LEMMA FreeNullKeeps ==
  ASSUME IInv, Free \/ Null
  PROVE  IInv'
<1> DEFINE label == IF Free THEN "null" ELSE "zero"
<1>1. PICK from \in {"free", "null"} :
        /\ status = "running" /\ At(from) /\ Top.at = from /\ Go(label, 3)
        /\ from = "free" => Free
        /\ from = "null" => label = "zero" /\ pollfds' = "null"
  BY DEF Free, Null, At
<1>2. /\ StackShape /\ Counters /\ Entries /\ OpenExact /\ ClosedTold /\ FramesTold
      /\ FreedKnown /\ TypeOK
  BY <1>1 DEF IInv, Consistent
<1>3. UNCHANGED <<memory, maxSize, nfds, connfd, loaded, world>>
  BY DEF Free, Null
<1>4. from \in FreeMemory /\ label \in FreeMemory /\ label # "tell"
  BY DEF FreeMemory
<1>5. /\ stack' \in Seq(Frame) /\ stack' # <<>> /\ Len(stack') = Len(stack)
      /\ stack'[Len(stack)].at = label
      /\ \A j \in 1 .. Len(stack) - 1 : stack'[j] = stack[j]
      /\ \/ stack'[1] = stack[1]
         \/ stack[1].at \in FreeMemory /\ stack'[1].at \in FreeMemory
  BY <1>1, <1>2, <1>4, FreeMoves
<1>6. Allocated' = Allocated
  BY <1>3, <1>5 DEF Allocated, FreeMemory
<1>7. /\ pollfds' \in {"table", "freed", "null"}
      /\ status' \in {"running", "undefined"}
  BY <1>1, <1>2 DEF Free, Null, TypeOK
<1>8. TypeOK'
  BY <1>1, <1>2, <1>3, <1>5, <1>6, <1>7 DEF TypeOK, world
<1>9. FreedKnown'
  <2>1. CASE from = "null"
    BY <1>1, <2>1 DEF FreedKnown
  <2>2. CASE from = "free"
    <3>1. Len(stack') \in 1 .. Len(stack')
      BY <1>5, <1>8 DEF TypeOK
    <3>2. label = "null"
      BY <1>1, <2>2
    <3> QED
      BY <1>5, <3>1, <3>2 DEF FreedKnown, Exposed
  <2> QED
    BY <2>1, <2>2
<1> HIDE DEF label
<1>10. \A f \in Fd : ToldOrGone(f)' = ToldOrGone(f)
  BY <1>3 DEF ToldOrGone, world
<1>11. \A k \in 3 .. nfds - 1 : ToldOrGone(memory[k])
  <2>1. Len(stack) \in 1 .. Len(stack)
    BY <1>2 DEF TypeOK
  <2> QED
    BY <1>1, <1>2, <2>1 DEF FramesTold, Top
<1> QED
  BY <1>1, <1>2, <1>3, <1>4, <1>8, <1>9, <1>10, <1>11, FreeKeeps DEF world, Entries

LEMMA ZeroKeeps ==
  ASSUME IInv, Zero
  PROVE  IInv'
<1>1. status' = "exited" /\ nfds' = 0 /\ maxSize' = 0
  BY DEF Zero
<1>2. UNCHANGED <<pollfds, memory, connfd, loaded, world, stack>>
  BY DEF Zero
<1>3. TypeOK
  BY DEF IInv
<1>4. TypeOK'
  BY <1>1, <1>2, <1>3 DEF TypeOK, world
<1> QED
  BY <1>1, <1>4 DEF IInv, Consistent
-----------------------------------------------------------------------------
LEMMA InitHolds == Init => IInv
<1> SUFFICES ASSUME Init PROVE IInv
  OBVIOUS
<1>1. /\ stack = <<[signal |-> Main, at |-> "poll", i |-> 3]>>
      /\ nfds = 3 /\ maxSize = 4 /\ memory = [k \in 3 .. 3 |-> Junk]
  BY DEF Init
<1>2. /\ stack \in Seq(Frame) /\ stack # <<>> /\ Len(stack) = 1
      /\ stack[1].at = "poll" /\ stack[1].i = 3
  BY <1>1 DEF Frame, Loop
<1>3. memory \in [3 .. 3 -> Fd \cup {Junk}]
  BY <1>1
<1>4. TypeOK
  BY <1>1, <1>2, <1>3 DEF Init, TypeOK, Allocated
<1>5. StackShape /\ Counters /\ Entries
  BY <1>1, <1>2 DEF StackShape, Counters, Entries
<1>6. OpenExact /\ ClosedTold /\ FramesTold
  BY <1>1, <1>2 DEF OpenExact, ClosedTold, FramesTold
<1>7. FreedKnown
  BY DEF Init, FreedKnown
<1> QED
  BY <1>4, <1>5, <1>6, <1>7 DEF IInv, Consistent

\* Every step, and none, keeps the invariant.
LEMMA NextKeeps == IInv /\ [Next]_vars => IInv'
<1> SUFFICES ASSUME IInv, [Next]_vars PROVE IInv'
  OBVIOUS
<1>1. CASE Accept \/ SetsockoptFails \/ AddFd
  BY <1>1, AcceptKeeps, SetsockoptFailsKeeps, AddFdKeeps
<1>2. CASE Grow \/ GrowFails \/ Assign
  BY <1>2, GrowKeeps, GrowFailsKeeps, AssignKeeps
<1>3. CASE Fill \/ Count
  BY <1>3, FillKeeps, CountKeeps
<1>4. CASE LoggedIn \/ Refused \/ CloseLast \/ UncountLast
  BY <1>4, LoggedInKeeps, RefusedKeeps, CloseLastKeeps, UncountLastKeeps
<1>5. CASE Depart \/ Uncount \/ Close
  BY <1>5, DepartKeeps, UncountKeeps, CloseKeeps
<1>6. CASE Load \/ Store \/ Stored
  BY <1>6, LoadKeeps, StoreKeeps, StoredKeeps
<1>7. CASE Notify \/ Exit
  BY <1>7, NotifyKeeps, ExitKeeps
<1>8. CASE TellNext \/ TellDone \/ CloseNext \/ CloseDone
  BY <1>8, TellNextKeeps, DoneKeeps, CloseNextKeeps
<1>9. CASE Free \/ Null \/ Zero
  BY <1>9, FreeNullKeeps, ZeroKeeps
<1>10. ASSUME NEW s \in Signal, Caught(s) PROVE IInv'
  BY <1>10, CaughtKeeps
<1>11. ASSUME NEW f \in Fd, Vanish(f) PROVE IInv'
  BY <1>11, VanishKeeps
<1>12. CASE UNCHANGED vars
  <2>1. UNCHANGED <<pollfds, memory, nfds, maxSize, connfd, loaded, open, peer,
                    told, stack, status>>
    BY <1>12 DEF vars
  <2>2. TypeOK'
    BY <2>1 DEF IInv, TypeOK, Allocated
  <2>3. \A k : Place(k)' = Place(k)
    BY <2>1 DEF Place
  <2>4. Consistent'
    BY <2>1, <2>3 DEF IInv, Consistent, StackShape, Counters, Entries, OpenExact,
          ClosedTold, FramesTold, ToldOrGone, FreedKnown, Exposed
  <2> QED
    BY <2>2, <2>4 DEF IInv
<1> QED
  BY <1>1, <1>2, <1>3, <1>4, <1>5, <1>6, <1>7, <1>8, <1>9, <1>10, <1>11, <1>12
     DEF Next, LoopStep, FreeMemoryStep

THEOREM PollTableInvariant == Spec => []IInv
BY InitHolds, NextKeeps, PTL DEF Spec

\* The variables keep their types, and the memory the length that maxSize says
\* (or that it is about to say, before the assignment).
THEOREM TypeCorrect == Spec => []TypeOK
<1>1. IInv => TypeOK
  BY DEF IInv
<1> QED
  BY <1>1, PollTableInvariant, PTL

\* Counters, entries, descriptors and what subscribers were told agree at every
\* instruction of addFd, remove, removeLast and freeMemory.
THEOREM StaysConsistent == Spec => []Consistent
<1>1. IInv => Consistent
  BY DEF IInv
<1> QED
  BY <1>1, PollTableInvariant, PTL

-----------------------------------------------------------------------------
\* Nothing happens once the process has ended.
LEMMA OnlyRunning ==
  ASSUME Next
  PROVE  status = "running"
BY DEF Next, LoopStep, FreeMemoryStep, At, Caught, Vanish,
       Accept, SetsockoptFails, AddFd, Grow, GrowFails, Assign, Fill, Count, LoggedIn, Refused, CloseLast,
       UncountLast, Depart, Uncount, Close, Load, Store, Stored, Notify, Exit,
       TellNext, TellDone, CloseNext, CloseDone, Free, Null, Zero

\* Freed memory is known to a frame below a running freeMemory.
LEMMA ExposedBelow ==
  ASSUME TypeOK, FreedKnown, pollfds = "freed", ~Exposed(Top)
  PROVE  \E j \in 1 .. Len(stack) - 1 : Exposed(stack[j])
<1>1. PICK j \in 1 .. Len(stack) : Exposed(stack[j])
  BY DEF FreedKnown
<1>2. Len(stack) \in Nat /\ Len(stack) >= 1 /\ j # Len(stack)
  BY <1>1 DEF TypeOK, Top
<1>3. \A n \in Nat : \A m \in 1 .. n : m # n => m \in 1 .. n - 1
  OBVIOUS
<1> QED
  BY <1>1, <1>2, <1>3

LEMMA DefinedKept == IInv /\ DefinedBehaviour /\ [Next]_vars => DefinedBehaviour'
<1> SUFFICES ASSUME IInv, DefinedBehaviour, [Next]_vars, status' = "undefined"
             PROVE  \E j \in 1 .. Len(stack') - 1 : Exposed(stack'[j])
  BY DEF DefinedBehaviour, Exposed
<1>1. CASE UNCHANGED vars
  BY <1>1 DEF vars, DefinedBehaviour, Exposed
<1>2. CASE Next
  <2>1. status = "running"
    BY <1>2, OnlyRunning
  <2>2. /\ StackShape /\ Counters /\ FreedKnown /\ TypeOK
    BY <2>1 DEF IInv, Consistent
  <2>3. \/ Fill \/ Notify \/ Refused
        \/ BadAccess /\ Top.at \in {"tell", "closeAll"}
        \/ TellNext /\ ~BadAccess
        \/ Free
    BY <1>2, <2>1 DEF Next, LoopStep, FreeMemoryStep, At, Caught, Vanish,
       Accept, SetsockoptFails, AddFd, Grow, GrowFails, Assign, Count, LoggedIn, CloseLast,
       UncountLast, Depart, Uncount, Close, Load, Store, Stored, Exit,
       TellNext, TellDone, CloseNext, CloseDone, Null, Zero
  <2>4. ~Fill
    <3>1. SUFFICES ASSUME Fill PROVE FALSE
      OBVIOUS
    <3>2. "fill" \in Loop /\ At("fill")
      BY <3>1 DEF Fill, Loop
    <3>3. stack[1].at = "fill"
      BY <2>2, <3>2, LoopAlone
    <3>4. nfds \in DOMAIN memory
      BY <2>1, <2>2, <3>3 DEF TypeOK, Counters, Allocated
    <3> QED
      BY <2>1, <3>1, <3>4 DEF Fill
  <2>5. ~Notify /\ ~Refused /\ ~(TellNext /\ ~BadAccess)
    BY <2>1 DEF Notify, Refused, TellNext, Tell, Send
  <2>6. CASE BadAccess /\ Top.at \in {"tell", "closeAll"}
    <3>1. pollfds = "freed" /\ stack' = stack /\ ~Exposed(Top)
      BY <2>2, <2>6 DEF BadAccess, TypeOK, Exposed
    <3> QED
      BY <2>2, <3>1, ExposedBelow
  <2>7. CASE Free
    <3>1. /\ pollfds = "freed" /\ ~Exposed(Top) /\ At("free") /\ Go("null", 3)
      BY <2>1, <2>7 DEF Free, At, Exposed
    <3>2. PICK j \in 1 .. Len(stack) - 1 : Exposed(stack[j])
      BY <2>2, <3>1, ExposedBelow
    <3>3. "free" \in FreeMemory /\ "null" \in FreeMemory
      BY DEF FreeMemory
    <3>4. Len(stack') = Len(stack) /\ stack'[j] = stack[j]
      BY <2>2, <3>1, <3>2, <3>3, FreeMoves
    <3> QED
      BY <3>2, <3>4
  <2> QED
    BY <2>3, <2>4, <2>5, <2>6, <2>7
<1> QED
  BY <1>1, <1>2

\* However many signals come and whenever they do, the handler uses memory that
\* is not the table's only if it interrupted realloc's assignment in addFd, or
\* another handler between free and the end.
THEOREM OnlyExposedUndefined == Spec => []DefinedBehaviour
<1>1. Init => DefinedBehaviour
  BY DEF Init, DefinedBehaviour
<1> QED
  BY <1>1, DefinedKept, PollTableInvariant, PTL DEF Spec

\* A process that ends in good order has told everybody in the table that was
\* still there, but for the entries behind one that was just being removed.
THEOREM StopIsHeard == Spec => StopTellsTable
<1> DEFINE Heard == \A k \in 3 .. nfds - 1 : ToldOrGone(Place(k)) \/ Moving(k)
<1>1. IInv /\ [Next]_vars => [status' = "exited" => Heard]_vars
  <2> SUFFICES ASSUME IInv, Next, status' = "exited" PROVE Heard
    OBVIOUS
  <2>1. status = "running"
    BY OnlyRunning
  <2>2. /\ StackShape /\ Counters /\ FramesTold /\ TypeOK
    BY <2>1 DEF IInv, Consistent
  <2>3. Top.at = "zero"
    BY <2>1 DEF Next, LoopStep, FreeMemoryStep, At, Caught, Vanish,
       Accept, SetsockoptFails, AddFd, Grow, GrowFails, Assign, Fill, Count, LoggedIn, Refused, CloseLast,
       UncountLast, Depart, Uncount, Close, Load, Store, Stored, Notify, Exit,
       TellNext, TellDone, CloseNext, CloseDone, Free, Null, Zero,
       Tell, Send, BadAccess
  <2>4. \A k \in 3 .. nfds - 1 : ToldOrGone(memory[k])
    <3>1. Len(stack) \in 1 .. Len(stack)
      BY <2>2 DEF TypeOK
    <3> QED
      BY <2>2, <2>3, <3>1 DEF FramesTold, Top
  <2>5. stack[1].at = "store" => \A k \in DOMAIN loaded : k >= stack[1].i
    <3>1. 1 \in 1 .. Len(stack) /\ stack[1] \in Frame
      BY <2>2 DEF TypeOK
    <3>2. stack[1].i \in Nat /\ nfds \in Nat
      BY <2>2, <3>1 DEF Frame, TypeOK
    <3> QED
      BY <2>2, <3>2 DEF Counters
  <2> QED
    BY <2>4, <2>5 DEF Place, Moving
<1> QED
  BY <1>1, PollTableInvariant, PTL DEF Spec, StopTellsTable
-----------------------------------------------------------------------------
\* To the rest of the server the table stays as it is.
LEMMA SameTable ==
  ASSUME nfds \in Nat, nfds' = nfds, \A k \in 3 .. nfds - 1 : Place(k)' = Place(k)
  PROVE  Table' = Table
<1> DEFINE n == IF nfds < 3 THEN 0 ELSE nfds - 3
<1>1. \A k \in 1 .. n : k + 2 \in 3 .. nfds - 1
  OBVIOUS
<1> QED
  BY <1>1 DEF Table

\* The loop goes on without touching what lies in the table.
LEMMA PlainLoop ==
  ASSUME TypeOK, StackShape, NEW from \in Loop, At(from),
         NEW label \in Loop \cup FreeMemory, NEW i \in Nat, i >= 3, Go(label, i),
         {from, label} \cap {"close", "load", "store"} = {},
         nfds' = nfds, \A k \in 3 .. nfds - 1 : memory'[k] = memory[k]
  PROVE  Table' = Table
<1>1. /\ Len(stack) = 1 /\ stack[1].at = from /\ stack'[1].at = label
  BY LoopMoves
<1>2. \A k \in 3 .. nfds - 1 : Place(k)' = Place(k)
  BY <1>1 DEF Place
<1> QED
  BY <1>2, SameTable DEF TypeOK

\* freeMemory goes on without touching the counter.
LEMMA PlainFree ==
  ASSUME TypeOK, StackShape, NEW from \in FreeMemory, At(from),
         NEW label \in FreeMemory, NEW i \in Nat, i >= 1,
         label # "closeAll" => i >= 3, Go(label, i),
         UNCHANGED <<nfds, memory, loaded>>
  PROVE  Table' = Table
<1>1. \/ stack'[1] = stack[1]
      \/ stack[1].at \in FreeMemory /\ stack'[1].at \in FreeMemory
  BY FreeMoves
<1>2. \A k \in 3 .. nfds - 1 : Place(k)' = Place(k)
  BY <1>1 DEF Place, FreeMemory
<1> QED
  BY <1>2, SameTable DEF TypeOK

LEMMA AddingKeepsTable ==
  ASSUME TypeOK, Consistent,
         \/ Accept \/ SetsockoptFails \/ AddFd
         \/ Grow \/ GrowFails \/ Assign \/ Fill \/ LoggedIn \/ Refused \/ CloseLast
  PROVE  Table' = Table
<1>1. PICK from \in {"poll", "nodelay", "grow", "assign", "fill", "login", "closeLast"},
           label \in {"nodelay", "grow", "fill", "poll", "assign", "count", "closeLast",
                      "uncountLast"} :
        At(from) /\ Go(label, 3)
  BY DEF Accept, SetsockoptFails, AddFd, Grow, GrowFails, Assign, Fill, LoggedIn, Refused, CloseLast
<1>2. status = "running" /\ StackShape /\ Counters
  BY <1>1 DEF At, Consistent
<1>3. /\ from \in Loop /\ label \in Loop \cup FreeMemory
      /\ {from, label} \cap {"close", "load", "store"} = {}
  BY DEF Loop
<1>4. nfds' = nfds
  BY DEF Accept, SetsockoptFails, AddFd, Grow, GrowFails, Assign, Fill, LoggedIn, Refused, CloseLast
<1>5. nfds \in Nat /\ maxSize \in Nat /\ nfds <= maxSize
  BY <1>2 DEF TypeOK, Counters
<1>6. \A k \in 3 .. nfds - 1 : memory'[k] = memory[k]
  <2>1. CASE Grow
    BY <1>5, <2>1 DEF Grow
  <2>2. CASE Fill
    <3>1. "fill" \in Loop /\ At("fill")
      BY <2>2 DEF Fill, Loop
    <3>2. stack[1].at = "fill"
      BY <1>2, <3>1, LoopAlone
    <3>3. memory \in [3 .. maxSize - 1 -> Fd \cup {Junk}]
      BY <1>2, <3>2 DEF TypeOK, Allocated
    <3>4. \A k \in 3 .. nfds - 1 : k \in 3 .. maxSize - 1 /\ k # nfds
      BY <1>5
    <3>5. memory' = memory \/ memory' = [memory EXCEPT ![nfds] = connfd]
      BY <2>2 DEF Fill
    <3> QED
      BY <3>3, <3>4, <3>5
  <2>3. CASE \/ Accept \/ SetsockoptFails \/ AddFd
             \/ GrowFails \/ Assign \/ LoggedIn \/ Refused \/ CloseLast
    BY <2>3 DEF Accept, SetsockoptFails, AddFd, GrowFails, Assign, LoggedIn, Refused, CloseLast, block
  <2> QED
    BY <2>1, <2>2, <2>3
<1> QED
  BY <1>1, <1>2, <1>3, <1>4, <1>6, PlainLoop

LEMMA RemovingKeepsTable ==
  ASSUME TypeOK, Consistent, Depart \/ Close \/ Load \/ Store \/ Stored
  PROVE  Table' = Table
<1>1. status = "running"
  BY DEF Depart, Close, Load, Store, Stored, At
<1>2. /\ StackShape /\ Counters /\ nfds \in Nat /\ nfds' = nfds
      /\ Top.i \in Nat /\ Top.i >= 3
  BY <1>1, TopFrame DEF Consistent, TypeOK, Depart, Close, Load, Store, Stored, At
<1>3. CASE Depart
  <2>1. PICK i \in 3 .. nfds - 1 : Go("uncount", i)
    BY <1>3 DEF Depart
  <2>2. /\ "poll" \in Loop /\ "uncount" \in Loop /\ At("poll")
        /\ i \in Nat /\ i >= 3 /\ memory' = memory
        /\ {"poll", "uncount"} \cap {"close", "load", "store"} = {}
    BY <1>2, <1>3 DEF Depart, Loop, block
  <2> QED
    BY <1>2, <2>1, <2>2, PlainLoop
<1>4. CASE Close
  <2>1. "close" \in Loop /\ "load" \in Loop /\ At("close") /\ Go("load", Top.i)
    BY <1>4 DEF Close, Loop
  <2>2. /\ stack[1] = Top /\ stack[1].at = "close" /\ stack'[1].at = "load"
        /\ stack'[1].i = Top.i
    BY <1>2, <2>1, LoopMoves
  <2>3. \A k : Place(k)' = Place(k)
    BY <1>4, <2>2 DEF Close, Place, block
  <2> QED
    BY <1>2, <2>3, SameTable
<1>5. CASE Load
  <2>1. /\ "load" \in Loop /\ "store" \in Loop /\ At("load") /\ Go("store", Top.i)
        /\ loaded' = Behind(Top.i) /\ memory' = memory
    BY <1>5 DEF Load, Loop, block
  <2>2. /\ stack[1] = Top /\ stack[1].at = "load" /\ stack'[1].at = "store"
    BY <1>2, <2>1, LoopMoves
  <2>3. \A k \in 3 .. nfds - 1 : Place(k)' = Place(k)
    BY <1>2, <2>1, <2>2 DEF Place, Behind
  <2> QED
    BY <1>2, <2>3, SameTable
<1>6. CASE Store
  <2>1. /\ "store" \in Loop /\ At("store") /\ stack' = stack
    BY <1>6 DEF Store, Loop
  <2>2. /\ stack[1] = Top /\ stack[1].at = "store" /\ stack'[1].at = "store"
    BY <1>2, <2>1, LoopAlone
  <2>3. PICK n \in DOMAIN loaded :
         /\ memory' = [memory EXCEPT ![n] = loaded[n]]
         /\ loaded' = [k \in DOMAIN loaded \ {n} |-> loaded[k]]
    BY <1>6 DEF Store
  <2>4. n \in DOMAIN memory
    <3>1. n \in stack[1].i .. nfds - 1 /\ nfds < maxSize /\ maxSize \in Nat
      BY <1>2, <2>2, <2>3 DEF Counters, TypeOK
    <3>2. memory \in [3 .. maxSize - 1 -> Fd \cup {Junk}]
      BY <1>1, <2>2 DEF TypeOK, Allocated
    <3> QED
      BY <1>2, <2>2, <3>1, <3>2
  <2>5. \A k \in 3 .. nfds - 1 : Place(k)' = Place(k)
    BY <2>2, <2>3, <2>4 DEF Place
  <2> QED
    BY <1>2, <2>5, SameTable
<1>7. CASE Stored
  <2>1. /\ "store" \in Loop /\ "poll" \in Loop /\ At("store") /\ Go("poll", 3)
        /\ memory' = memory /\ DOMAIN loaded = {} /\ 3 \in Nat /\ 3 >= 3
    BY <1>7 DEF Stored, Loop, block
  <2>2. /\ stack[1] = Top /\ stack[1].at = "store" /\ stack'[1].at = "poll"
    BY <1>2, <2>1, LoopMoves
  <2>3. \A k \in 3 .. nfds - 1 : Place(k)' = Place(k)
    BY <2>1, <2>2 DEF Place
  <2> QED
    BY <1>2, <2>3, SameTable
<1> QED
  BY <1>3, <1>4, <1>5, <1>6, <1>7

LEMMA StoppingKeepsTable ==
  ASSUME TypeOK, Consistent,
         TellNext \/ TellDone \/ CloseNext \/ CloseDone \/ Free \/ Null
  PROVE  Table' = Table
<1>1. CASE BadAccess
  <2>1. /\ \A k : Place(k)' = Place(k)
        /\ nfds' = nfds
    BY <1>1 DEF BadAccess, Place, block
  <2> QED
    BY <2>1, SameTable DEF TypeOK
<1>2. CASE ~BadAccess
  <2>1. status = "running" /\ StackShape
    BY DEF TellNext, TellDone, CloseNext, CloseDone, Free, Null, At, Consistent
  <2>2. /\ Top.i \in Nat /\ Top.i >= 1 /\ Top.i + 1 \in Nat /\ Top.i + 1 >= 1
        /\ Top.at = "tell" => Top.i + 1 >= 3
    BY <2>1, TopFrame
  <2>3. PICK from \in FreeMemory, label \in FreeMemory, i \in {1, 3, Top.i + 1} :
          At(from) /\ Go(label, i) /\ (label # "closeAll" => i >= 3)
    <3>1. CASE TellNext
      BY <1>2, <2>2, <3>1 DEF TellNext, FreeMemory, At
    <3>2. CASE TellDone \/ CloseNext \/ CloseDone
      BY <1>2, <3>2 DEF TellDone, CloseNext, CloseDone, FreeMemory
    <3>3. CASE Free \/ Null
      BY <3>3 DEF Free, Null, FreeMemory
    <3> QED
      BY <3>1, <3>2, <3>3
  <2>4. UNCHANGED <<nfds, memory, loaded>>
    BY <1>2 DEF TellNext, TellDone, CloseNext, CloseDone, Free, Null, block
  <2>5. i \in Nat /\ i >= 1
    BY <2>2
  <2> QED
    BY <2>1, <2>3, <2>4, <2>5, PlainFree
<1> QED
  BY <1>1, <1>2

LEMMA OthersKeepTable ==
  ASSUME TypeOK, Consistent,
         \/ Notify \/ Exit
         \/ \E s \in Signal : Caught(s)
         \/ \E f \in Fd : Vanish(f)
  PROVE  Table' = Table
<1>1. /\ status = "running" /\ UNCHANGED <<nfds, memory, loaded>>
  BY DEF Notify, Exit, Caught, Vanish, At, block
<1>2. StackShape /\ nfds \in Nat
  BY <1>1 DEF Consistent, TypeOK
<1>3. CASE Exit
  <2>1. /\ "poll" \in Loop /\ "tell" \in FreeMemory /\ At("poll")
        /\ Go("tell", FirstTold) /\ FirstTold \in Nat /\ FirstTold >= 3
        /\ {"poll", "tell"} \cap {"close", "load", "store"} = {}
    BY <1>3 DEF Exit, Loop, FreeMemory, FirstTold
  <2> QED
    BY <1>1, <1>2, <2>1, PlainLoop
<1>4. CASE ~Exit
  <2>1. stack'[1] = stack[1]
    <3>1. CASE \E s \in Signal : Caught(s)
      <4>1. PICK s \in Signal : stack' = Append(stack, [signal |-> s, at |-> "tell", i |-> FirstTold])
        BY <3>1 DEF Caught
      <4>2. stack \in Seq(Frame) /\ 1 \in 1 .. Len(stack)
        BY DEF TypeOK
      <4> QED
        BY <4>1, <4>2, AppendProperties
    <3>2. CASE Notify \/ \E f \in Fd : Vanish(f)
      BY <3>2 DEF Notify, Vanish
    <3> QED
      BY <1>4, <3>1, <3>2
  <2>2. \A k : Place(k)' = Place(k)
    BY <1>1, <2>1 DEF Place
  <2> QED
    BY <1>1, <1>2, <2>2, SameTable
<1> QED
  BY <1>3, <1>4

-----------------------------------------------------------------------------
LEMMA AppendIsFunction ==
  ASSUME NEW S, NEW s \in Seq(S), NEW e \in S
  PROVE  Append(s, e) = [k \in 1 .. Len(s) + 1 |-> IF k <= Len(s) THEN s[k] ELSE e]
<1>1. /\ Append(s, e) \in Seq(S) /\ Len(Append(s, e)) = Len(s) + 1
      /\ \A k \in 1 .. Len(s) : Append(s, e)[k] = s[k]
      /\ Append(s, e)[Len(s) + 1] = e
  BY AppendProperties
<1>2. Len(s) \in Nat
  OBVIOUS
<1>3. \A n \in Nat : \A k \in 1 .. n + 1 :
        (k <= n <=> k \in 1 .. n) /\ (~(k <= n) => k = n + 1)
  OBVIOUS
<1>4. Append(s, e) = [k \in 1 .. Len(s) + 1 |-> Append(s, e)[k]]
  <2>1. Append(s, e) \in [1 .. Len(Append(s, e)) -> S]
    BY <1>1, LenProperties
  <2> QED
    BY <1>1, <2>1
<1> QED
  BY <1>1, <1>2, <1>3, <1>4

\* Counting the new entry is what makes a descriptor join.
LEMMA CountJoins ==
  ASSUME TypeOK, Consistent, Count
  PROVE  T!Join
<1>1. status = "running" /\ At("count") /\ Go("login", 3) /\ nfds' = nfds + 1
  BY DEF Count, At
<1>2. StackShape /\ Counters /\ Entries
  BY <1>1 DEF Consistent
<1>3. stack[1].at = "count" /\ stack'[1].at = "login"
  <2>1. /\ "count" \in Loop /\ "login" \in Loop /\ 3 \in Nat /\ 3 >= 3
    BY DEF Loop
  <2> QED
    BY <1>1, <1>2, <2>1, LoopMoves
<1>4. nfds \in Nat /\ nfds >= 3 /\ memory' = memory
  BY <1>2 DEF Counters, TypeOK, Count, block
<1>5. \A k : Place(k) = memory[k] /\ Place(k)' = memory[k]
  BY <1>3, <1>4 DEF Place
<1>6. /\ connfd \in Fd /\ memory[nfds] = connfd
      /\ \A k \in 3 .. nfds - 1 : memory[k] # connfd
  BY <1>2, <1>3 DEF Entries
<1>7. PICK n \in Nat : nfds = n + 3
  <2>1. \A m \in Nat : m >= 3 => \E l \in Nat : m = l + 3
    <3>1. \A m \in Nat : m >= 3 => m - 3 \in Nat /\ m = (m - 3) + 3
      OBVIOUS
    <3> QED
      BY <3>1
  <2> QED
    BY <1>4, <2>1
<1>8. /\ Table = [k \in 1 .. n |-> memory[k + 2]]
      /\ Table' = [k \in 1 .. n + 1 |-> memory[k + 2]]
  BY <1>1, <1>4, <1>5, <1>7 DEF Table
<1>9. \A k \in 1 .. n : memory[k + 2] # connfd /\ memory[k + 2] \in Fd
  BY <1>2, <1>6, <1>7 DEF Entries
<1>10. Table \in Seq(Fd) /\ Len(Table) = n
  BY <1>7, <1>8, <1>9
<1>11. Append(Table, connfd) = [k \in 1 .. n + 1 |-> IF k <= n THEN Table[k] ELSE connfd]
  BY <1>6, <1>10, AppendIsFunction
<1>12. Table' = Append(Table, connfd)
  BY <1>6, <1>7, <1>8, <1>11
<1>13. \A k \in 1 .. Len(Table) : Table[k] # connfd
  BY <1>8, <1>9, <1>10
<1> QED
  BY <1>6, <1>12, <1>13 DEF T!Join

\* Counting the last one off makes it leave.
LEMMA UncountLastLeaves ==
  ASSUME TypeOK, Consistent, UncountLast
  PROVE  T!Leave
<1>1. status = "running" /\ At("uncountLast") /\ Go("poll", 3) /\ nfds' = nfds - 1
  BY DEF UncountLast, At
<1>2. StackShape /\ Counters /\ Entries
  BY <1>1 DEF Consistent
<1>3. stack[1].at = "uncountLast" /\ stack'[1].at = "poll"
  <2>1. /\ "uncountLast" \in Loop /\ "poll" \in Loop /\ 3 \in Nat /\ 3 >= 3
    BY DEF Loop
  <2> QED
    BY <1>1, <1>2, <2>1, LoopMoves
<1>4. nfds \in Nat /\ nfds > 3 /\ memory' = memory
  BY <1>2, <1>3 DEF Counters, TypeOK, UncountLast, block
<1>5. \A k : Place(k) = memory[k] /\ Place(k)' = memory[k]
  BY <1>3, <1>4 DEF Place
<1>6. PICK n \in Nat : nfds = n + 4
  <2>1. \A m \in Nat : m > 3 => m - 4 \in Nat /\ m = (m - 4) + 4
    OBVIOUS
  <2> QED
    BY <1>4, <2>1
<1>7. /\ Table = [k \in 1 .. n + 1 |-> memory[k + 2]]
      /\ Table' = [k \in 1 .. n |-> memory[k + 2]]
  BY <1>1, <1>4, <1>5, <1>6 DEF Table
<1>8. \A k \in 1 .. n + 1 : memory[k + 2] \in Fd
  BY <1>2, <1>6 DEF Entries
<1>9. Table \in Seq(Fd) /\ Len(Table) = n + 1
  BY <1>6, <1>7, <1>8
<1>10. T!Without(Table, n + 1) = [k \in 1 .. n |-> memory[k + 2]]
  <2>1. (n + 1) - 1 = n /\ \A k \in 1 .. n : k < n + 1 /\ k \in 1 .. n + 1
    BY <1>6
  <2> QED
    BY <1>7, <1>9, <2>1 DEF T!Without
<1>11. n + 1 \in 1 .. Len(Table)
  BY <1>6, <1>9
<1>12. Table' = T!Without(Table, n + 1)
  BY <1>7, <1>10
<1> QED
  BY <1>11, <1>12 DEF T!Leave

\* remove takes the entry out when it counts it off.
LEMMA UncountLeaves ==
  ASSUME TypeOK, Consistent, Uncount
  PROVE  T!Leave
<1>1. status = "running" /\ At("uncount") /\ Go("close", Top.i) /\ nfds' = nfds - 1
  BY DEF Uncount, At
<1>2. StackShape /\ Counters /\ Entries
  BY <1>1 DEF Consistent
<1>3. Top.i \in Nat /\ Top.i >= 3
  BY <1>1, <1>2, TopFrame DEF At
<1>4. /\ stack[1] = Top /\ stack[1].at = "uncount"
      /\ stack'[1].at = "close" /\ stack'[1].i = Top.i
  <2>1. "uncount" \in Loop /\ "close" \in Loop
    BY DEF Loop
  <2> QED
    BY <1>1, <1>2, <1>3, <2>1, LoopMoves
<1>5. nfds \in Nat /\ Top.i < nfds /\ memory' = memory
  BY <1>2, <1>4 DEF Counters, TypeOK, Uncount, block
<1>6. PICK n \in Nat, m \in Nat : nfds = n + 4 /\ Top.i = m + 2 /\ m \in 1 .. n + 1
  <2>1. /\ \A a, b \in Nat : b >= 3 /\ b < a => a - 4 \in Nat /\ a = (a - 4) + 4
        /\ \A b \in Nat : b >= 3 => b - 2 \in Nat /\ b = (b - 2) + 2
        /\ \A a, b \in Nat : b >= 3 /\ b < a => b - 2 \in 1 .. (a - 4) + 1
    OBVIOUS
  <2> QED
    BY <1>3, <1>5, <2>1
<1>7. \A k : /\ Place(k) = memory[k]
             /\ Place(k)' = IF k >= m + 2 THEN memory[k + 1] ELSE memory[k]
  BY <1>4, <1>5, <1>6 DEF Place
<1>8. /\ Table = [k \in 1 .. n + 1 |-> memory[k + 2]]
      /\ Table' = [k \in 1 .. n |-> Place(k + 2)']
  BY <1>1, <1>5, <1>6, <1>7 DEF Table
<1>9. \A k \in 1 .. n + 1 : memory[k + 2] \in Fd
  BY <1>2, <1>6 DEF Entries
<1>10. Table \in Seq(Fd) /\ Len(Table) = n + 1
  BY <1>6, <1>8, <1>9
<1>11. \A k \in 1 .. n : Place(k + 2)' = IF k < m THEN Table[k] ELSE Table[k + 1]
  BY <1>6, <1>7, <1>8
<1>12. T!Without(Table, m) = [k \in 1 .. n |-> IF k < m THEN Table[k] ELSE Table[k + 1]]
  <2>1. (n + 1) - 1 = n
    BY <1>6
  <2> QED
    BY <1>10, <2>1 DEF T!Without
<1>13. Table' = T!Without(Table, m)
  BY <1>8, <1>11, <1>12
<1> QED
  BY <1>6, <1>10, <1>13 DEF T!Leave

\* freeMemory gives up the table when it clears the counters.
LEMMA ZeroGivesUp ==
  ASSUME Zero
  PROVE  T!GiveUp
<1>1. nfds' = 0
  BY DEF Zero
<1>2. Table' = <<>>
  BY <1>1 DEF Table
<1> QED
  BY <1>2 DEF T!GiveUp

\* The table that the main loop works with is a list that descriptors join at
\* its end and leave from their place, although it changes entry by entry.
THEOREM FdTableImplemented == Spec => ImplementsFdTable
<1>1. Init => T!Init
  BY DEF Init, Table, T!Init
<1>2. IInv /\ [Next]_vars => [T!Next]_Table
  <2> SUFFICES ASSUME IInv, [Next]_vars PROVE T!Next \/ Table' = Table
    OBVIOUS
  <2>1. TypeOK /\ Consistent
    BY DEF IInv
  <2>2. CASE UNCHANGED vars
    BY <2>2 DEF vars, Table, Place
  <2>3. CASE \/ Accept \/ SetsockoptFails \/ AddFd
             \/ Grow \/ GrowFails \/ Assign \/ Fill \/ LoggedIn \/ Refused \/ CloseLast
    BY <2>1, <2>3, AddingKeepsTable
  <2>4. CASE Count
    BY <2>1, <2>4, CountJoins DEF T!Next
  <2>5. CASE UncountLast \/ Uncount
    BY <2>1, <2>5, UncountLastLeaves, UncountLeaves DEF T!Next
  <2>6. CASE Depart \/ Close \/ Load \/ Store \/ Stored
    BY <2>1, <2>6, RemovingKeepsTable
  <2>7. CASE TellNext \/ TellDone \/ CloseNext \/ CloseDone \/ Free \/ Null
    BY <2>1, <2>7, StoppingKeepsTable
  <2>8. CASE Zero
    BY <2>8, ZeroGivesUp DEF T!Next
  <2>9. CASE \/ Notify \/ Exit
             \/ \E s \in Signal : Caught(s)
             \/ \E f \in Fd : Vanish(f)
    BY <2>1, <2>9, OthersKeepTable
  <2> QED
    BY <2>2, <2>3, <2>4, <2>5, <2>6, <2>7, <2>8, <2>9
       DEF Next, LoopStep, FreeMemoryStep
<1> QED
  BY <1>1, <1>2, PollTableInvariant, PTL DEF Spec, ImplementsFdTable, T!Spec
==============================================================================
