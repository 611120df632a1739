----------------------- MODULE ToolCallingSession_proofs -----------------------
(***************************************************************************)
(* For every set of threads, limit of calls and depth of nesting: the two  *)
(* mutexes have one holder, a cancelled session publishes no tool call, and *)
(* a destroyed one runs no callback but those destroy was called from.     *)
(***************************************************************************)
EXTENDS ToolCallingSession, SequenceTheorems, TLAPS

FrameType == [call : {"create", "step", "cancel", "destroy"}, pc : Points, batch : Seq(Events)]

(* A frame that delivers has something in its hands; cancel and destroy go *)
(* their own way.                                                          *)
FrameOK(f) ==
  /\ f.pc \in {"gate", "publish"} => f.batch # <<>> /\ f.batch[1] = "tool"
  /\ f.pc \in {"callback", "called"} => f.batch # <<>>
  /\ f.call \in {"cancel", "destroy"} <=> f.pc \in {"latch", "signal", "clear", "quiesce"}
  /\ f.pc \in {"clear", "quiesce"} => f.call = "destroy"

(* The call on top was made by a subscriber, with mu held below it.        *)
Told(t) == Len(stack[t]) > 1 /\ stack[t][2].pc = "notifying"

(* Below the top a stack has callbacks that called in; or, just below it,  *)
(* an announcement that did, and the call it made has not got mu.          *)
StackInv ==
  /\ stack \in [Threads -> Seq(FrameType)]
  /\ \A t \in Threads : \A i \in 1..Len(stack[t]) :
       /\ FrameOK(stack[t][i])
       /\ i > 1 => stack[t][i].pc = "called" \/ (i = 2 /\ stack[t][i].pc = "notifying")
  /\ \A t \in Threads : Told(t) => stack[t][1].pc \in {"enter", "latch", "signal", "clear"}

InCallbacks(t) ==
  \E i \in 1..Len(stack[t]) :
    stack[t][i].pc \in {"deliver", "gate", "publish", "callback", "called"}

MuPoints == {"begin", "running", "notify", "notifying", "decide", "admit"}

-----------------------------------------------------------------------------
(* What the steps do to a stack.                                           *)
LEMMA MuIn ==
  ASSUME NEW s \in Seq(FrameType),
         \A i \in 1..Len(s) : i > 1 => s[i].pc = "called" \/ (i = 2 /\ s[i].pc = "notifying")
  PROVE  (\E i \in 1..Len(s) : MuFrame(s[i])) <=>
           s # <<>> /\ (s[1].pc \in MuPoints \/ (Len(s) > 1 /\ s[2].pc = "notifying"))
<1>1. ASSUME NEW i \in 1..Len(s), MuFrame(s[i])
      PROVE  s # <<>> /\ (s[1].pc \in MuPoints \/ (Len(s) > 1 /\ s[2].pc = "notifying"))
  <2>1. CASE i = 1
    BY <1>1, <2>1 DEF MuFrame, MuPoints
  <2>2. CASE i > 1
    BY <1>1, <2>2 DEF MuFrame
  <2>3. QED
    BY <2>1, <2>2
<1>2. ASSUME s # <<>>, s[1].pc \in MuPoints
      PROVE  \E i \in 1..Len(s) : MuFrame(s[i])
  BY <1>2 DEF MuFrame, MuPoints
<1>3. ASSUME Len(s) > 1, s[2].pc = "notifying"
      PROVE  \E i \in 1..Len(s) : MuFrame(s[i])
  BY <1>3 DEF MuFrame
<1>4. QED
  BY <1>1, <1>2, <1>3

LEMMA MuSeen ==
  ASSUME StackInv, NEW t \in Threads
  PROVE  HoldsMu(t) <=> Busy(t) /\ (Top(t).pc \in MuPoints \/ Told(t))
<1>1. stack[t] \in Seq(FrameType)
      /\ \A i \in 1..Len(stack[t]) : i > 1 =>
            stack[t][i].pc = "called" \/ (i = 2 /\ stack[t][i].pc = "notifying")
  BY DEF StackInv
<1>2. QED
  BY <1>1, MuIn DEF HoldsMu, Busy, Top, Told

LEMMA MuNext ==
  ASSUME StackInv', NEW t \in Threads
  PROVE  HoldsMu(t)' <=> Busy(t)' /\ (Top(t)'.pc \in MuPoints \/ Told(t)')
<1>1. stack'[t] \in Seq(FrameType)
      /\ \A i \in 1..Len(stack'[t]) : i > 1 =>
            stack'[t][i].pc = "called" \/ (i = 2 /\ stack'[t][i].pc = "notifying")
  BY DEF StackInv
<1>2. HoldsMu(t)' <=> \E i \in 1..Len(stack'[t]) : MuFrame(stack'[t][i])
  BY DEF HoldsMu, MuFrame
<1>3. QED
  BY <1>1, <1>2, MuIn DEF Busy, Top, Told

(* Anywhere but at those four points nobody's announcement is below.       *)
LEMMA NotTold ==
  ASSUME StackInv, NEW t \in Threads,
         ~HoldsMu(t) \/ Top(t).pc \notin {"enter", "latch", "signal", "clear"}
  PROVE  ~Told(t)
<1>1. CASE ~HoldsMu(t)
  <2>1. Told(t) => Busy(t)
    BY DEF Told, Busy, StackInv
  <2>2. QED
    BY <1>1, <2>1, MuSeen
<1>2. CASE Top(t).pc \notin {"enter", "latch", "signal", "clear"}
  BY <1>2 DEF StackInv, Top
<1>3. QED
  BY <1>1, <1>2

LEMMA NoMu ==
  ASSUME StackInv, NEW t \in Threads,
         Top(t).pc \notin MuPoints \cup {"enter", "latch", "signal", "clear"}
  PROVE  ~HoldsMu(t)
  BY MuSeen, NotTold

LEMMA Written ==
  ASSUME StackInv, NEW t \in Threads, Busy(t), NEW f \in FrameType, FrameOK(f), Becomes(t, f),
         Told(t) => f.pc \in {"enter", "latch", "signal", "clear"}
  PROVE  /\ StackInv'
         /\ \A u \in Threads : u # t => stack'[u] = stack[u]
         /\ Busy(t)' /\ Top(t)' = f /\ (Told(t)' <=> Told(t))
         /\ HoldsAdmission(t)' => HoldsAdmission(t) \/ ToolFrame(f)
         /\ InCallbacks(t)' =>
              InCallbacks(t) \/ f.pc \in {"deliver", "gate", "publish", "callback", "called"}
<1> DEFINE s == [stack[t] EXCEPT ![1] = f]
<1>1. stack[t] \in Seq(FrameType) /\ Len(stack[t]) \in Nat /\ Len(stack[t]) > 0
  BY DEF StackInv, Busy
<1>2. s \in Seq(FrameType) /\ Len(s) = Len(stack[t])
  BY <1>1
<1>3. s[1] = f /\ \A i \in 1..Len(s) : i > 1 => s[i] = stack[t][i]
  BY <1>1
<1>4. stack' = [stack EXCEPT ![t] = s] /\ stack'[t] = s
  BY DEF Becomes, StackInv
<1>5. Told(t)' <=> Told(t)
  BY <1>2, <1>3, <1>4 DEF Told
<1>6. \A u \in Threads : u # t => stack'[u] = stack[u]
  BY <1>4 DEF StackInv
<1>7. StackInv'
  <2>1. stack' \in [Threads -> Seq(FrameType)]
    BY <1>2, <1>4 DEF StackInv
  <2>2. \A u \in Threads : \A i \in 1..Len(stack'[u]) :
          /\ FrameOK(stack'[u][i])
          /\ i > 1 => stack'[u][i].pc = "called" \/ (i = 2 /\ stack'[u][i].pc = "notifying")
    BY <1>2, <1>3, <1>4, <1>6 DEF StackInv
  <2>3. \A u \in Threads : Told(u)' => stack'[u][1].pc \in {"enter", "latch", "signal", "clear"}
    BY <1>3, <1>4, <1>5, <1>6 DEF StackInv, Told
  <2>4. QED
    BY <2>1, <2>2, <2>3 DEF StackInv
<1>8. Busy(t)' /\ Top(t)' = f
  BY <1>1, <1>2, <1>3, <1>4 DEF Busy, Top
<1>9. HoldsAdmission(t)' => HoldsAdmission(t) \/ ToolFrame(f)
  BY <1>2, <1>3, <1>4 DEF HoldsAdmission, ToolFrame
<1>10. InCallbacks(t)' =>
         InCallbacks(t) \/ f.pc \in {"deliver", "gate", "publish", "callback", "called"}
  BY <1>2, <1>3, <1>4 DEF InCallbacks
<1>11. QED
  BY <1>5, <1>6, <1>7, <1>8, <1>9, <1>10

LEMMA Popped ==
  ASSUME StackInv, NEW t \in Threads, Busy(t), Pop(t)
  PROVE  /\ StackInv'
         /\ \A u \in Threads : u # t => stack'[u] = stack[u]
         /\ Busy(t)' => Top(t)'.pc \in {"called", "notifying"}
         /\ ~Told(t)' /\ (Told(t) <=> Busy(t)' /\ Top(t)'.pc = "notifying")
         /\ ~Told(t) => \A i \in 1..Len(stack'[t]) : stack'[t][i].pc = "called"
         /\ HoldsAdmission(t)' => HoldsAdmission(t)
         /\ InCallbacks(t)' => InCallbacks(t)
<1> DEFINE s == Tail(stack[t])
<1>1. stack[t] \in Seq(FrameType) /\ stack[t] # <<>>
  BY DEF StackInv, Busy
<1>2. s \in Seq(FrameType) /\ Len(s) = Len(stack[t]) - 1 /\ Len(s) \in Nat
      /\ \A i \in 1..Len(s) : s[i] = stack[t][i + 1] /\ i + 1 \in 1..Len(stack[t]) /\ i + 1 > 1
  BY <1>1
<1>3. stack' = [stack EXCEPT ![t] = s] /\ stack'[t] = s
  BY DEF Pop, StackInv
<1>4. \A i \in 1..Len(s) :
         FrameOK(s[i]) /\ (s[i].pc = "called" \/ (i = 1 /\ s[i].pc = "notifying"))
  BY <1>2 DEF StackInv
<1>5. \A u \in Threads : u # t => stack'[u] = stack[u]
  BY <1>3 DEF StackInv
<1>6. ~Told(t)'
  <2>1. Len(s) > 1 => 2 \in 1..Len(s)
    BY <1>2
  <2>2. Len(s) > 1 => s[2].pc = "called"
    BY <1>4, <2>1
  <2>3. QED
    BY <1>3, <2>2 DEF Told
<1>7. StackInv'
  <2>1. stack' \in [Threads -> Seq(FrameType)]
    BY <1>2, <1>3 DEF StackInv
  <2>2. \A u \in Threads : \A i \in 1..Len(stack'[u]) :
          /\ FrameOK(stack'[u][i])
          /\ i > 1 => stack'[u][i].pc = "called" \/ (i = 2 /\ stack'[u][i].pc = "notifying")
    BY <1>3, <1>4, <1>5 DEF StackInv
  <2>3. \A u \in Threads : Told(u)' => stack'[u][1].pc \in {"enter", "latch", "signal", "clear"}
    BY <1>5, <1>6 DEF StackInv, Told
  <2>4. QED
    BY <2>1, <2>2, <2>3 DEF StackInv
<1>8. (Busy(t)' <=> Len(s) > 0) /\ (Busy(t)' => Top(t)' = stack[t][2])
  <2>1. s # <<>> <=> Len(s) > 0
    <3>1. \A q \in Seq(FrameType) : q # <<>> <=> Len(q) > 0
      OBVIOUS
    <3>2. QED
      BY <1>2, <3>1
  <2>2. Len(s) > 0 => 1 \in 1..Len(s) /\ s[1] = stack[t][2]
    BY <1>2
  <2>3. QED
    BY <1>3, <2>1, <2>2 DEF Busy, Top
<1>9. Busy(t)' => Top(t)'.pc \in {"called", "notifying"}
  BY <1>2, <1>4, <1>8
<1>10. Told(t) <=> Busy(t)' /\ Top(t)'.pc = "notifying"
  BY <1>1, <1>2, <1>8 DEF Told
<1>11. ~Told(t) => \A i \in 1..Len(stack'[t]) : stack'[t][i].pc = "called"
  <2>1. ASSUME NEW i \in 1..Len(s), s[i].pc # "called"
        PROVE  Told(t)
    <3>1. i = 1 /\ s[1].pc = "notifying"
      BY <1>4, <2>1
    <3>2. s[1] = stack[t][2] /\ Len(stack[t]) > 1
      BY <1>2, <2>1, <3>1
    <3>3. QED
      BY <3>1, <3>2 DEF Told
  <2>2. QED
    BY <1>3, <2>1
<1>12. (HoldsAdmission(t)' => HoldsAdmission(t)) /\ (InCallbacks(t)' => InCallbacks(t))
  BY <1>2, <1>3 DEF HoldsAdmission, InCallbacks, ToolFrame
<1>13. QED
  BY <1>5, <1>6, <1>7, <1>9, <1>10, <1>11, <1>12

LEMMA Pushed ==
  ASSUME StackInv, NEW t \in Threads, MayCall(t), NEW f \in FrameType, FrameOK(f),
         f.pc \in {"enter", "latch"}, Push(t, f)
  PROVE  /\ StackInv'
         /\ \A u \in Threads : u # t => stack'[u] = stack[u]
         /\ Busy(t)' /\ Top(t)' = f
         /\ Told(t)' <=> Busy(t) /\ Top(t).pc = "notify"
         /\ HoldsAdmission(t)' => HoldsAdmission(t)
         /\ InCallbacks(t)' => InCallbacks(t)
         /\ Busy(t) => Top(t).pc \in {"callback", "notify"}
<1>1. stack[t] \in Seq(FrameType)
  BY DEF StackInv
<1>2. \A u \in Threads : u # t => stack'[u] = stack[u]
  BY DEF Push, StackInv
<1>3. CASE stack[t] = <<>>
  <2>1. stack'[t] = <<f>>
    BY <1>3 DEF Push, StackInv
  <2>2. Len(<<f>>) = 1 /\ <<f>>[1] = f
    OBVIOUS
  <2>3. ~Told(t)'
    BY <2>1, <2>2 DEF Told
  <2>4. StackInv'
    <3>1. stack' \in [Threads -> Seq(FrameType)]
      BY <1>3 DEF Push, StackInv
    <3>2. \A u \in Threads : \A i \in 1..Len(stack'[u]) :
            /\ FrameOK(stack'[u][i])
            /\ i > 1 => stack'[u][i].pc = "called" \/ (i = 2 /\ stack'[u][i].pc = "notifying")
      BY <1>2, <2>1, <2>2 DEF StackInv
    <3>3. \A u \in Threads : Told(u)' => stack'[u][1].pc \in {"enter", "latch", "signal", "clear"}
      BY <1>2, <2>3 DEF StackInv, Told
    <3>4. QED
      BY <3>1, <3>2, <3>3 DEF StackInv
  <2>5. QED
    BY <1>2, <1>3, <2>1, <2>2, <2>3, <2>4 DEF Busy, Top, HoldsAdmission, InCallbacks, ToolFrame
<1>4. CASE stack[t] # <<>>
  <2> DEFINE c == Beneath(stack[t][1])
             r == Tail(stack[t])
             s == <<f>> \o (<<c>> \o r)
  <2>1. Top(t).pc \in {"callback", "notify"} /\ Len(stack[t]) \in Nat /\ Len(stack[t]) > 0
        /\ stack[t][1] \in FrameType /\ stack[t][1] = Top(t)
    BY <1>1, <1>4 DEF MayCall, Busy, At, Top
  <2>2. /\ c \in FrameType /\ c.batch = stack[t][1].batch /\ c.call = stack[t][1].call
        /\ stack[t][1].pc = "callback" => c.pc = "called"
        /\ stack[t][1].pc = "notify" => c.pc = "notifying"
    BY <2>1 DEF FrameType, Points, Beneath
  <2>3. r \in Seq(FrameType) /\ Len(r) = Len(stack[t]) - 1
        /\ \A i \in 1..Len(r) : r[i] = stack[t][i + 1]
    BY <1>1, <1>4
  <2>4. stack'[t] = s /\ stack' = [stack EXCEPT ![t] = s]
    BY <1>4 DEF Push, StackInv
  <2>5. s \in Seq(FrameType) /\ Len(s) = Len(stack[t]) + 1
        /\ s[1] = f /\ s[2] = c
        /\ \A i \in 1..Len(s) : i > 2 => s[i] = stack[t][i - 1]
    BY <1>1, <2>1, <2>2, <2>3
  <2>6. FrameOK(c)
    <3>1. FrameOK(stack[t][1])
      <4>1. 1 \in 1..Len(stack[t])
        BY <2>1
      <4>2. QED
        BY <4>1 DEF StackInv
    <3>2. QED
      BY <2>1, <2>2, <3>1 DEF FrameOK
  <2>7. ~Told(t)
    BY <2>1, NotTold
  <2>8. \A i \in 1..Len(s) : i > 2 =>
          FrameOK(s[i]) /\ s[i].pc = "called" /\ i - 1 \in 1..Len(stack[t])
    <3>1. ASSUME NEW i \in 1..Len(s), i > 2
          PROVE  FrameOK(s[i]) /\ s[i].pc = "called" /\ i - 1 \in 1..Len(stack[t])
      <4>1. i - 1 \in 1..Len(stack[t]) /\ i - 1 > 1 /\ s[i] = stack[t][i - 1]
        BY <2>1, <2>5, <3>1
      <4>2. FrameOK(stack[t][i - 1]) /\ (stack[t][i - 1].pc = "called"
              \/ (i - 1 = 2 /\ stack[t][i - 1].pc = "notifying"))
        BY <4>1 DEF StackInv
      <4>3. QED
        BY <2>1, <2>7, <4>1, <4>2 DEF Told
    <3>2. QED
      BY <3>1
  <2>9. Told(t)' <=> Top(t).pc = "notify"
    BY <2>1, <2>2, <2>4, <2>5 DEF Told
  <2>10. StackInv'
    <3>1. stack' \in [Threads -> Seq(FrameType)]
      BY <2>4, <2>5 DEF StackInv
    <3>2. ASSUME NEW i \in 1..Len(s)
          PROVE  /\ FrameOK(s[i])
                 /\ i > 1 => s[i].pc = "called" \/ (i = 2 /\ s[i].pc = "notifying")
      BY <2>1, <2>2, <2>5, <2>6, <2>8, <3>2
    <3>3. \A u \in Threads : Told(u)' => stack'[u][1].pc \in {"enter", "latch", "signal", "clear"}
      BY <1>2, <2>4, <2>5 DEF StackInv, Told
    <3>4. QED
      BY <1>2, <2>4, <3>1, <3>2, <3>3 DEF StackInv
  <2>11. \A i \in 1..Len(s) : i > 1 => \E j \in 1..Len(stack[t]) :
           /\ s[i].batch = stack[t][j].batch
           /\ s[i].pc \in {"called", "notifying"}
           /\ s[i].pc = "called" => stack[t][j].pc \in {"callback", "called"}
    <3>1. ASSUME NEW i \in 1..Len(s), i > 1
          PROVE  \E j \in 1..Len(stack[t]) :
                   /\ s[i].batch = stack[t][j].batch
                   /\ s[i].pc \in {"called", "notifying"}
                   /\ s[i].pc = "called" => stack[t][j].pc \in {"callback", "called"}
      <4>1. CASE i = 2
        BY <2>1, <2>2, <2>5, <4>1
      <4>2. CASE i > 2
        <5>1. i - 1 \in 1..Len(stack[t]) /\ s[i] = stack[t][i - 1] /\ s[i].pc = "called"
          BY <2>5, <2>8, <3>1, <4>2
        <5>2. QED
          BY <5>1
      <4>3. QED
        BY <2>1, <2>5, <3>1, <4>1, <4>2
    <3>2. QED
      BY <3>1
  <2>12. HoldsAdmission(t)' => HoldsAdmission(t)
    <3>1. ASSUME NEW i \in 1..Len(s), ToolFrame(s[i])
          PROVE  HoldsAdmission(t)
      <4>1. i > 1
        BY <2>5, <3>1 DEF ToolFrame
      <4>2. QED
        BY <2>11, <3>1, <4>1 DEF HoldsAdmission, ToolFrame
    <3>2. HoldsAdmission(t)' => \E i \in 1..Len(s) : ToolFrame(s[i])
      BY <2>4 DEF HoldsAdmission, ToolFrame
    <3>3. QED
      BY <3>1, <3>2
  <2>13. InCallbacks(t)' => InCallbacks(t)
    <3>1. ASSUME NEW i \in 1..Len(s),
                 s[i].pc \in {"deliver", "gate", "publish", "callback", "called"}
          PROVE  InCallbacks(t)
      <4>1. i > 1
        BY <2>5, <3>1
      <4>2. QED
        BY <2>11, <3>1, <4>1 DEF InCallbacks
    <3>2. InCallbacks(t)' =>
            \E i \in 1..Len(s) : s[i].pc \in {"deliver", "gate", "publish", "callback", "called"}
      BY <2>4 DEF InCallbacks
    <3>3. QED
      BY <3>1, <3>2
  <2>14. Busy(t)' /\ Top(t)' = f
    BY <2>1, <2>4, <2>5 DEF Busy, Top
  <2>15. QED
    BY <1>2, <1>4, <2>1, <2>9, <2>10, <2>12, <2>13, <2>14 DEF Busy
<1>5. QED
  BY <1>3, <1>4

(* A call that moves on within its frame: the two lemmas every step uses.  *)
LEMMA Rewritten ==
  ASSUME StackInv, NEW t \in Threads, Busy(t), NEW p \in Points, NEW b \in Seq(Events),
         NEW f, f = [Top(t) EXCEPT !.pc = p, !.batch = b], FrameOK(f), Becomes(t, f), ~Told(t)
  PROVE  /\ StackInv'
         /\ \A u \in Threads : u # t => stack'[u] = stack[u]
         /\ Busy(t)' /\ Top(t)'.pc = p /\ Top(t)'.call = Top(t).call /\ ~Told(t)'
         /\ HoldsAdmission(t)' => HoldsAdmission(t) \/ ToolFrame(f)
         /\ InCallbacks(t)' =>
              InCallbacks(t) \/ p \in {"deliver", "gate", "publish", "callback", "called"}
<1>1. Top(t) \in FrameType
  <2>1. stack[t] \in Seq(FrameType) /\ stack[t] # <<>>
    BY DEF StackInv, Busy
  <2>2. QED
    BY <2>1 DEF Top
<1>2. f \in FrameType /\ f.pc = p /\ f.call = Top(t).call
  BY <1>1 DEF FrameType
<1>3. QED
  BY <1>2, Written

LEMMA Moved ==
  ASSUME StackInv, NEW t \in Threads, Busy(t), NEW p \in Points, Goto(t, p),
         p \in {"gate", "publish"} => Top(t).batch # <<>> /\ Top(t).batch[1] = "tool",
         p \in {"callback", "called"} => Top(t).batch # <<>>,
         Top(t).call \in {"cancel", "destroy"} <=> p \in {"latch", "signal", "clear", "quiesce"},
         p \in {"clear", "quiesce"} => Top(t).call = "destroy",
         Told(t) => p \in {"enter", "latch", "signal", "clear"}
  PROVE  /\ StackInv'
         /\ \A u \in Threads : u # t => stack'[u] = stack[u]
         /\ Busy(t)' /\ Top(t)'.pc = p /\ Top(t)'.call = Top(t).call /\ (Told(t)' <=> Told(t))
         /\ HoldsAdmission(t)' => \/ HoldsAdmission(t)
                                  \/ p \in {"publish", "callback", "called"}
                                     /\ Top(t).batch[1] = "tool"
         /\ InCallbacks(t)' =>
              InCallbacks(t) \/ p \in {"deliver", "gate", "publish", "callback", "called"}
<1> DEFINE f == [Top(t) EXCEPT !.pc = p]
<1>1. Top(t) \in FrameType
  <2>1. stack[t] \in Seq(FrameType) /\ stack[t] # <<>>
    BY DEF StackInv, Busy
  <2>2. QED
    BY <2>1 DEF Top
<1>2. f \in FrameType /\ f.pc = p /\ f.batch = Top(t).batch /\ f.call = Top(t).call
  BY <1>1 DEF FrameType
<1>3. FrameOK(f)
  BY <1>2 DEF FrameOK
<1>4. Becomes(t, f)
  BY DEF Goto, Becomes, StackInv, Top
<1>5. QED
  <2>1. ToolFrame(f) => p \in {"publish", "callback", "called"} /\ Top(t).batch[1] = "tool"
    BY <1>2 DEF ToolFrame
  <2>2. QED
    BY <1>2, <1>3, <1>4, <2>1, Written

-----------------------------------------------------------------------------
(* The inductive invariant.                                                *)
Typed ==
  /\ life \in {"unborn", "registered", "retired"}
  /\ auto \in BOOLEAN
  /\ state \in {"idle", "generating", "waiting", "completed", "failed", "cancelled"}
  /\ calls \in 0 .. MaxToolCalls
  /\ queue \in Seq(Events)
  /\ callback \in BOOLEAN
  /\ cancel \in BOOLEAN
  /\ destroying \in BOOLEAN
  /\ aborted \in BOOLEAN
  /\ acked \in BOOLEAN
  /\ gone \in Threads \cup {NoThread}

(* The session mutex has one holder, which is generating, and a tool is    *)
(* only granted within the limit its holder has checked.                   *)
MuOK ==
  /\ \A t, u \in Threads : HoldsMu(t) /\ HoldsMu(u) => t = u
  /\ state = "generating" <=> \E t \in Threads : HoldsMu(t)
  /\ \A t \in Threads : At(t, "admit") => calls < MaxToolCalls

AdmissionOK == \A t, u \in Threads : HoldsAdmission(t) /\ HoldsAdmission(u) => t = u

(* A latched cancel leaves no tool call that is about to be published, and *)
(* once it is acknowledged the generation it found has been told.          *)
CancelOK ==
  /\ acked => cancel
  /\ \A t \in Threads : At(t, "signal") => cancel
  /\ cancel => \A t \in Threads : ~At(t, "publish")
  /\ acked => \A t \in Threads : At(t, "running") => aborted

(* Destroy waits with the callback cleared, so no thread that it has found *)
(* quiet delivers anything again; its own thread has the callbacks left     *)
(* that destroy was called from, and returns from each for good.           *)
GoneOK ==
  /\ \A t \in Threads : Busy(t) /\ Top(t).call = "destroy" =>
       life = "retired" /\ (Top(t).pc = "latch" \/ destroying)
  /\ \A t \in Threads : At(t, "quiesce") => ~callback
  /\ gone # NoThread =>
       /\ ~callback /\ destroying /\ life = "retired"
       /\ \A t \in Threads \ {gone} : ~InCallbacks(t)
       /\ \A i \in 1..Len(stack[gone]) : stack[gone][i].pc = "called"

ToolInv == Typed /\ StackInv /\ MuOK /\ AdmissionOK /\ CancelOK /\ GoneOK

-----------------------------------------------------------------------------
(* When a step of one thread leaves a part of it alone.                    *)
OthersStay(t) == \A u \in Threads : u # t => stack'[u] = stack[u]

LEMMA OthersSame ==
  ASSUME NEW t \in Threads, OthersStay(t), NEW u \in Threads, u # t
  PROVE  /\ stack'[u] = stack[u]
         /\ Busy(u)' <=> Busy(u)
         /\ Top(u)' = Top(u)
         /\ HoldsMu(u)' <=> HoldsMu(u)
         /\ HoldsAdmission(u)' <=> HoldsAdmission(u)
         /\ InCallbacks(u)' <=> InCallbacks(u)
         /\ At(u, "admit")' <=> At(u, "admit")
         /\ At(u, "signal")' <=> At(u, "signal")
         /\ At(u, "publish")' <=> At(u, "publish")
         /\ At(u, "running")' <=> At(u, "running")
         /\ At(u, "quiesce")' <=> At(u, "quiesce")
  BY DEF OthersStay, HoldsMu, MuFrame, HoldsAdmission, ToolFrame, InCallbacks, At, Busy, Top

LEMMA MuKept ==
  ASSUME MuOK, NEW t \in Threads, OthersStay(t), UNCHANGED <<state, calls>>,
         HoldsMu(t)' <=> HoldsMu(t),
         At(t, "admit")' => calls < MaxToolCalls
  PROVE  MuOK'
<1>1. \A u \in Threads : HoldsMu(u)' <=> HoldsMu(u)
  BY OthersSame
<1>2. \A u \in Threads : At(u, "admit")' => calls' < MaxToolCalls
  BY OthersSame DEF MuOK
<1>3. QED
  BY <1>1, <1>2 DEF MuOK

LEMMA MuTaken ==
  ASSUME MuOK, NEW t \in Threads, OthersStay(t), MuFree, HoldsMu(t)',
         ~At(t, "admit")', state' = "generating", UNCHANGED calls
  PROVE  MuOK'
<1>1. \A u \in Threads : HoldsMu(u)' => u = t
  BY OthersSame DEF MuFree
<1>2. \A u \in Threads : At(u, "admit")' => calls' < MaxToolCalls
  BY OthersSame DEF MuOK
<1>3. QED
  BY <1>1, <1>2 DEF MuOK

LEMMA MuDropped ==
  ASSUME MuOK, StackInv', NEW t \in Threads, OthersStay(t), HoldsMu(t), ~HoldsMu(t)',
         state' # "generating"
  PROVE  MuOK'
<1>1. \A u \in Threads : ~HoldsMu(u)'
  BY OthersSame DEF MuOK
<1>2. \A u \in Threads : ~At(u, "admit")'
  BY <1>1, MuNext DEF At, MuPoints
<1>3. QED
  BY <1>1, <1>2 DEF MuOK

LEMMA AdmissionKept ==
  ASSUME AdmissionOK, NEW t \in Threads, OthersStay(t),
         HoldsAdmission(t)' => HoldsAdmission(t) \/ Admissible(t)
  PROVE  AdmissionOK'
  BY OthersSame DEF AdmissionOK, Admissible

LEMMA CancelKept ==
  ASSUME CancelOK, NEW t \in Threads, OthersStay(t), UNCHANGED <<cancel, acked>>,
         aborted => aborted' \/ ~cancel,
         At(t, "signal")' => cancel,
         At(t, "publish")' => ~cancel,
         At(t, "running")' => ~cancel
  PROVE  CancelOK'
<1>1. \A u \in Threads : At(u, "signal")' => cancel'
  BY OthersSame DEF CancelOK
<1>2. cancel' => \A u \in Threads : ~At(u, "publish")'
  BY OthersSame DEF CancelOK
<1>3. acked' => \A u \in Threads : At(u, "running")' => aborted'
  BY OthersSame DEF CancelOK
<1>4. QED
  BY <1>1, <1>2, <1>3 DEF CancelOK

(* What a step of t must leave of what destroy relies on.                  *)
DestroyHeeded(t) ==
  /\ destroying => destroying'
  /\ life = "retired" => life' = "retired"
  /\ Busy(t)' /\ Top(t)'.call = "destroy" =>
       life' = "retired" /\ (Top(t)'.pc = "latch" \/ destroying')
  /\ t = gone => \A i \in 1..Len(stack'[t]) : stack'[t][i].pc = "called"

LEMMA GoneKept ==
  ASSUME GoneOK, NEW t \in Threads, OthersStay(t), UNCHANGED gone, DestroyHeeded(t),
         gone \in Threads \cup {NoThread},
         callback' => callback,
         InCallbacks(t)' => InCallbacks(t) \/ callback,
         At(t, "quiesce")' => ~callback'
  PROVE  GoneOK'
<1>1. \A u \in Threads : Busy(u)' /\ Top(u)'.call = "destroy" =>
        life' = "retired" /\ (Top(u)'.pc = "latch" \/ destroying')
  BY OthersSame DEF GoneOK, DestroyHeeded
<1>2. \A u \in Threads : At(u, "quiesce")' => ~callback'
  BY OthersSame DEF GoneOK
<1>3. gone # NoThread =>
        ~callback' /\ destroying' /\ life' = "retired" /\ \A u \in Threads \ {gone} : ~InCallbacks(u)'
  BY OthersSame DEF GoneOK, DestroyHeeded
<1>4. gone # NoThread => \A i \in 1..Len(stack'[gone]) : stack'[gone][i].pc = "called"
  BY OthersSame DEF GoneOK, DestroyHeeded
<1>5. QED
  BY <1>1, <1>2, <1>3, <1>4 DEF GoneOK

(* The thread of a destroy that has returned is in callbacks that called.   *)
LEMMA NotGone ==
  ASSUME ToolInv, NEW t \in Threads, Busy(t), Top(t).pc # "called" \/ ~destroying
  PROVE  t # gone
<1>1. t = gone => gone # NoThread
  BY ToolAssumption DEF ToolAssumption
<1>2. 1 \in 1..Len(stack[t])
  BY DEF ToolInv, StackInv, Busy
<1>3. QED
  BY <1>1, <1>2 DEF ToolInv, GoneOK, Top

LEMMA HeededInFrame ==
  ASSUME ToolInv, NEW t \in Threads, Busy(t), Top(t).pc # "called" \/ ~destroying,
         Top(t).pc # "latch", Top(t)'.call = Top(t).call, UNCHANGED <<life, destroying>>
  PROVE  DestroyHeeded(t)
  BY NotGone DEF DestroyHeeded, ToolInv, GoneOK

LEMMA HeededOnReturn ==
  ASSUME ToolInv, NEW t \in Threads, Busy(t), Pop(t), UNCHANGED <<life, destroying>>
  PROVE  DestroyHeeded(t)
<1>1. Busy(t)' => Top(t)'.call # "destroy"
  <2>1. StackInv' /\ (Busy(t)' => Top(t)'.pc \in {"called", "notifying"})
    BY Popped DEF ToolInv
  <2>2. Busy(t)' => 1 \in 1..Len(stack'[t])
    BY <2>1 DEF StackInv, Busy
  <2>3. Busy(t)' => FrameOK(Top(t)')
    BY <2>1, <2>2 DEF StackInv, Top, FrameOK
  <2>4. QED
    BY <2>1, <2>3 DEF FrameOK
<1>2. t = gone => \A i \in 1..Len(stack'[t]) : stack'[t][i].pc = "called"
  <2>1. t = gone => ~Told(t)
    BY NotGone, NotTold DEF ToolInv
  <2>2. QED
    BY <2>1, Popped DEF ToolInv
<1>3. QED
  BY <1>1, <1>2 DEF DestroyHeeded

(* Most steps take neither mutex: nothing but the stack of their thread and *)
(* the queue changes, and the thread does not come to a point of interest. *)
LEMMA Neutral ==
  ASSUME ToolInv, NEW t \in Threads, StackInv', OthersStay(t), DestroyHeeded(t),
         UNCHANGED <<state, calls, callback, cancel, aborted, acked, gone>>,
         Typed', HoldsMu(t)' <=> HoldsMu(t), ~At(t, "admit")', ~At(t, "running")',
         HoldsAdmission(t)' => HoldsAdmission(t),
         InCallbacks(t)' => InCallbacks(t) \/ callback,
         ~At(t, "signal")', ~At(t, "publish")', ~At(t, "quiesce")'
  PROVE  ToolInv'
<1>1. MuOK'
  BY MuKept DEF ToolInv
<1>2. AdmissionOK'
  BY AdmissionKept DEF ToolInv
<1>3. CancelOK'
  BY CancelKept DEF ToolInv
<1>4. GoneOK'
  BY GoneKept DEF ToolInv, Typed
<1>5. QED
  BY <1>1, <1>2, <1>3, <1>4 DEF ToolInv

LEMMA TopIn ==
  ASSUME StackInv, NEW t \in Threads, Busy(t)
  PROVE  /\ Top(t) \in FrameType /\ FrameOK(Top(t))
         /\ Top(t).pc \in {"deliver", "gate", "publish", "callback", "called"} => InCallbacks(t)
         /\ ToolFrame(Top(t)) => HoldsAdmission(t)
<1>1. stack[t] \in Seq(FrameType) /\ stack[t] # <<>>
  BY DEF StackInv, Busy
<1>2. 1 \in 1..Len(stack[t])
  BY <1>1
<1>3. QED
  BY <1>1, <1>2 DEF StackInv, Top, InCallbacks, HoldsAdmission

-----------------------------------------------------------------------------
(* The steps, one lemma each.                                              *)
LEMMA CallIn ==
  ASSUME ToolInv, NEW t \in Threads, Call(t)
  PROVE  ToolInv'
<1>1. PICK c \in {"create", "step", "cancel", "destroy"}, p \in {"enter", "latch"} :
        /\ MayCall(t) /\ Push(t, Frame(c, p))
        /\ c \in {"cancel", "destroy"} <=> p = "latch"
        /\ life # "retired"
        /\ c = "destroy" => life' = "retired"
  <2>1. CASE Create(t)
    BY <2>1, Zenon DEF Create, MayCall
  <2>2. CASE Step(t)
    BY <2>2, Zenon DEF Step
  <2>3. CASE Cancel(t)
    BY <2>3, Zenon DEF Cancel
  <2>4. CASE Destroy(t)
    BY <2>4, Zenon DEF Destroy
  <2>5. QED
    BY <2>1, <2>2, <2>3, <2>4 DEF Call
<1> DEFINE f == Frame(c, p)
<1>2. f \in FrameType /\ f.pc = p /\ f.call = c /\ FrameOK(f)
  BY <1>1 DEF Frame, FrameType, Points, FrameOK
<1>3. /\ StackInv' /\ OthersStay(t) /\ Busy(t)' /\ Top(t)' = f
      /\ Told(t)' <=> Busy(t) /\ Top(t).pc = "notify"
      /\ HoldsAdmission(t)' => HoldsAdmission(t)
      /\ InCallbacks(t)' => InCallbacks(t)
      /\ Busy(t) => Top(t).pc \in {"callback", "notify"}
  BY <1>1, <1>2, Pushed DEF ToolInv, OthersStay
<1>4. HoldsMu(t) <=> Busy(t) /\ Top(t).pc = "notify"
  BY <1>3, MuSeen, NotTold DEF ToolInv, MuPoints
<1>5. HoldsMu(t)' <=> HoldsMu(t)
  BY <1>2, <1>3, <1>4, MuNext DEF MuPoints
<1>6. /\ ~At(t, "admit")' /\ ~At(t, "running")' /\ ~At(t, "signal")' /\ ~At(t, "publish")'
      /\ ~At(t, "quiesce")'
  BY <1>2, <1>3 DEF At
<1>7. /\ UNCHANGED <<state, calls, callback, cancel, destroying, aborted, acked, gone>>
      /\ Typed'
  BY DEF ToolInv, Typed, Call, Create, Step, Cancel, Destroy
<1>8. DestroyHeeded(t)
  <2>1. t # gone
    <3>1. gone # NoThread => life = "retired"
      BY DEF ToolInv, GoneOK
    <3>2. QED
      BY <1>1, <3>1, ToolAssumption DEF ToolAssumption
  <2>2. QED
    BY <1>1, <1>2, <1>3, <1>7, <2>1 DEF DestroyHeeded
<1>9. QED
  BY <1>3, <1>5, <1>6, <1>7, <1>8, Neutral

LEMMA EnterStep ==
  ASSUME ToolInv, NEW t \in Threads, Enter(t)
  PROVE  ToolInv'
<1>1. Busy(t) /\ Top(t).pc = "enter" /\ MuFree /\ Goto(t, "begin") /\ state' = "generating"
      /\ UNCHANGED <<life, auto, calls, queue, callback, cancel, destroying, aborted, acked, gone>>
  BY DEF Enter, At
<1>2. ~HoldsMu(t) /\ ~Told(t)
  BY <1>1, NotTold DEF ToolInv, MuFree
<1>3. Top(t).call \notin {"cancel", "destroy"}
  BY <1>1, TopIn DEF ToolInv, FrameOK
<1>4. /\ StackInv' /\ OthersStay(t) /\ Busy(t)' /\ Top(t)'.pc = "begin"
      /\ Top(t)'.call = Top(t).call
      /\ HoldsAdmission(t)' => HoldsAdmission(t)
      /\ InCallbacks(t)' => InCallbacks(t)
  BY <1>1, <1>2, <1>3, Moved DEF ToolInv, OthersStay, Points
<1>5. HoldsMu(t)' /\ ~At(t, "admit")' /\ ~At(t, "signal")' /\ ~At(t, "publish")'
      /\ ~At(t, "running")' /\ ~At(t, "quiesce")'
  BY <1>4, MuNext DEF MuPoints, At
<1>6. Typed'
  BY <1>1 DEF ToolInv, Typed
<1>7. DestroyHeeded(t)
  BY <1>1, <1>4, HeededInFrame
<1>8. QED
  BY <1>1, <1>4, <1>5, <1>6, <1>7, MuTaken, AdmissionKept, CancelKept, GoneKept DEF ToolInv, Typed

LEMMA PopStep ==
  ASSUME ToolInv, NEW t \in Threads, Busy(t), ~HoldsMu(t), Pop(t),
         UNCHANGED <<life, state, calls, callback, cancel, destroying, aborted, acked, gone>>, Typed'
  PROVE  ToolInv'
<1>1. /\ StackInv' /\ OthersStay(t) /\ (Busy(t)' => Top(t)'.pc = "called") /\ ~Told(t)'
      /\ HoldsAdmission(t)' => HoldsAdmission(t)
      /\ InCallbacks(t)' => InCallbacks(t)
  BY Popped, NotTold DEF ToolInv, OthersStay
<1>2. ~HoldsMu(t)' /\ ~At(t, "admit")' /\ ~At(t, "running")' /\ ~At(t, "signal")'
      /\ ~At(t, "publish")' /\ ~At(t, "quiesce")'
  BY <1>1, MuNext DEF MuPoints, At
<1>3. DestroyHeeded(t)
  BY HeededOnReturn
<1>4. QED
  BY <1>1, <1>2, <1>3, Neutral

(* A turn goes on with the session mutex held: the engine starts, answers, *)
(* its answer is announced, and the session decides.                       *)
LEMMA TurnMoves ==
  ASSUME ToolInv, NEW t \in Threads, BeginGeneration(t) \/ Announce(t) \/ Decide(t) \/ AskTool(t)
  PROVE  ToolInv'
<1>1. PICK p \in {"running", "notify", "decide", "admit"} :
        /\ Busy(t) /\ Goto(t, p)
        /\ Top(t).pc \in {"begin", "running", "notify", "notifying", "decide"}
        /\ p = "running" => ~cancel
        /\ p = "admit" => calls < MaxToolCalls
        /\ aborted => aborted' \/ ~cancel
        /\ UNCHANGED <<life, auto, state, calls, callback, cancel, destroying, acked, gone>>
        /\ aborted' \in BOOLEAN /\ queue' \in Seq(Events)
  <2>1. CASE BeginGeneration(t)
    BY <2>1 DEF BeginGeneration, At, Starts, ToolInv, Typed
  <2>2. CASE Announce(t)
    BY <2>2 DEF Announce, At, ToolInv, Typed
  <2>3. CASE Decide(t)
    BY <2>3 DEF Decide, At, ToolInv, Typed
  <2>4. CASE AskTool(t)
    BY <2>4 DEF AskTool, At, ToolInv, Typed, Events
  <2>5. QED
    BY <2>1, <2>2, <2>3, <2>4
<1>2. ~Told(t) /\ HoldsMu(t)
  BY <1>1, NotTold, MuSeen DEF ToolInv, MuPoints
<1>3. Top(t).call \notin {"cancel", "destroy"}
  BY <1>1, TopIn DEF ToolInv, FrameOK
<1>4. /\ StackInv' /\ OthersStay(t) /\ Busy(t)' /\ Top(t)'.pc = p
      /\ Top(t)'.call = Top(t).call
      /\ HoldsAdmission(t)' => HoldsAdmission(t)
      /\ InCallbacks(t)' => InCallbacks(t)
  BY <1>1, <1>2, <1>3, Moved DEF ToolInv, OthersStay, Points
<1>5. HoldsMu(t)' /\ (At(t, "admit")' => calls < MaxToolCalls) /\ ~At(t, "signal")'
      /\ ~At(t, "publish")' /\ ~At(t, "quiesce")' /\ (At(t, "running")' => ~cancel)
  BY <1>1, <1>4, MuNext DEF MuPoints, At
<1>6. Typed'
  BY <1>1 DEF ToolInv, Typed
<1>7. DestroyHeeded(t)
  BY <1>1, <1>4, HeededInFrame
<1>8. QED
  BY <1>1, <1>2, <1>4, <1>5, <1>6, <1>7, MuKept, AdmissionKept, CancelKept, GoneKept DEF ToolInv, Typed

(* A turn ends: whatever it concludes, the session mutex is let go.        *)
LEMMA Concluded ==
  ASSUME ToolInv, NEW t \in Threads, Busy(t), Top(t).pc \in MuPoints, NEW events \in Seq(Events),
         NEW outcome \in {"waiting", "completed", "failed", "cancelled"},
         Conclude(t, events, outcome), calls' \in 0 .. MaxToolCalls
  PROVE  ToolInv'
<1>1. /\ queue' = queue \o events /\ state' = outcome /\ Goto(t, "drain")
      /\ UNCHANGED <<life, auto, callback, cancel, destroying, aborted, acked, gone>>
  BY DEF Conclude
<1>2. ~Told(t) /\ HoldsMu(t)
  BY NotTold, MuSeen DEF ToolInv, MuPoints
<1>3. Top(t).call \notin {"cancel", "destroy"}
  BY TopIn DEF ToolInv, FrameOK, MuPoints
<1>4. /\ StackInv' /\ OthersStay(t) /\ Busy(t)' /\ Top(t)'.pc = "drain"
      /\ Top(t)'.call = Top(t).call /\ ~Told(t)'
      /\ HoldsAdmission(t)' => HoldsAdmission(t)
      /\ InCallbacks(t)' => InCallbacks(t)
  BY <1>1, <1>2, <1>3, Moved DEF ToolInv, OthersStay, Points
<1>5. ~HoldsMu(t)' /\ ~At(t, "running")' /\ ~At(t, "signal")' /\ ~At(t, "publish")'
      /\ ~At(t, "quiesce")'
  BY <1>4, MuNext DEF MuPoints, At
<1>6. Typed'
  <2>1. queue' \in Seq(Events)
    BY <1>1 DEF ToolInv, Typed
  <2>2. QED
    BY <1>1, <2>1 DEF ToolInv, Typed
<1>7. DestroyHeeded(t)
  BY <1>1, <1>4, HeededInFrame DEF MuPoints
<1>8. QED
  BY <1>1, <1>2, <1>4, <1>5, <1>6, <1>7, MuDropped, AdmissionKept, CancelKept, GoneKept
     DEF ToolInv, Typed

LEMMA TurnEnds ==
  ASSUME ToolAssumption, ToolInv, NEW t \in Threads,
         Cancelled(t) \/ Fails(t) \/ Answers(t) \/ RejectCall(t) \/ GrantTool(t)
  PROVE  ToolInv'
<1>1. calls \in 0 .. MaxToolCalls /\ MaxToolCalls \in Nat
  BY DEF ToolInv, Typed, ToolAssumption
<1>2. Busy(t) /\ Top(t).pc \in MuPoints
  BY DEF Cancelled, Fails, Answers, RejectCall, GrantTool, At, MuPoints
<1>3. calls' \in 0 .. MaxToolCalls
  <2>1. CASE Cancelled(t) \/ Fails(t) \/ Answers(t)
    BY <1>1, <2>1 DEF Cancelled, Fails, Answers
  <2>2. CASE RejectCall(t)
    BY <1>1, <2>2 DEF RejectCall
  <2>3. CASE GrantTool(t)
    <3>1. calls < MaxToolCalls /\ calls' = calls + 1
      BY <2>3 DEF GrantTool, ToolInv, MuOK
    <3>2. QED
      BY <1>1, <3>1
  <2>4. QED
    BY <2>1, <2>2, <2>3
<1>4. PICK events \in {<<"error">>, <<"text", "error">>, <<"text", "final">>, <<"tool">>, <<"final">>},
           outcome \in {"waiting", "completed", "failed", "cancelled"} :
        Conclude(t, events, outcome)
  <2>1. CASE Cancelled(t)
    BY <2>1, Zenon DEF Cancelled
  <2>2. CASE Fails(t)
    BY <2>2, Zenon DEF Fails
  <2>3. CASE Answers(t)
    BY <2>3, Zenon DEF Answers
  <2>4. CASE RejectCall(t)
    BY <2>4, Zenon DEF RejectCall
  <2>5. CASE GrantTool(t)
    <3>1. Conclude(t, <<"tool">>, "waiting") \/ Conclude(t, <<"final">>, "completed")
      BY <2>5, Zenon DEF GrantTool
    <3>2. QED
      BY <3>1, Zenon
  <2>6. QED
    BY <2>1, <2>2, <2>3, <2>4, <2>5
<1>5. events \in Seq(Events)
  <2>1. <<"error">> \in Seq(Events) /\ <<"tool">> \in Seq(Events) /\ <<"final">> \in Seq(Events)
    BY DEF Events
  <2>2. <<"text", "error">> \in Seq(Events)
    BY DEF Events
  <2>3. <<"text", "final">> \in Seq(Events)
    BY DEF Events
  <2>4. QED
    BY <2>1, <2>2, <2>3, Zenon
<1>6. QED
  BY <1>2, <1>3, <1>4, <1>5, Concluded

LEMMA SnapshotStep ==
  ASSUME ToolInv, NEW t \in Threads, Snapshot(t)
  PROVE  ToolInv'
<1>1. /\ Busy(t) /\ Top(t).pc = "snapshot" /\ queue' = <<>>
      /\ UNCHANGED <<life, auto, state, calls, callback, cancel, destroying, aborted, acked, gone>>
  BY DEF Snapshot, At
<1>2. Typed'
  BY <1>1 DEF ToolInv, Typed
<1>3. ~HoldsMu(t) /\ ~Told(t)
  BY <1>1, NoMu, NotTold DEF ToolInv, MuPoints
<1>4. CASE callback /\ queue # <<>>
  <2> DEFINE f == [Top(t) EXCEPT !.pc = "deliver", !.batch = queue]
  <2>1. Becomes(t, f)
    BY <1>4 DEF Snapshot
  <2>2. FrameOK(f) /\ ~ToolFrame(f)
    <3>1. Top(t) \in FrameType /\ FrameOK(Top(t))
      BY <1>1, TopIn DEF ToolInv
    <3>2. f.pc = "deliver" /\ f.call = Top(t).call
      BY <3>1 DEF FrameType
    <3>3. QED
      BY <1>1, <3>1, <3>2 DEF FrameOK, ToolFrame
  <2>3. queue \in Seq(Events) /\ "deliver" \in Points
    BY DEF ToolInv, Typed, Points
  <2>4. /\ StackInv' /\ OthersStay(t) /\ Busy(t)' /\ Top(t)'.pc = "deliver"
        /\ Top(t)'.call = Top(t).call /\ ~Told(t)'
        /\ HoldsAdmission(t)' => HoldsAdmission(t)
    BY <1>1, <1>3, <2>1, <2>2, <2>3, Rewritten DEF ToolInv, OthersStay
  <2>5. /\ ~HoldsMu(t)' /\ ~At(t, "admit")' /\ ~At(t, "running")'
        /\ ~At(t, "signal")' /\ ~At(t, "publish")' /\ ~At(t, "quiesce")'
    BY <2>4, MuNext DEF MuPoints, At
  <2>6. DestroyHeeded(t)
    BY <1>1, <2>4, HeededInFrame
  <2>7. QED
    BY <1>1, <1>2, <1>3, <1>4, <2>4, <2>5, <2>6, Neutral
<1>5. CASE ~(callback /\ queue # <<>>)
  <2>1. Pop(t)
    BY <1>5 DEF Snapshot
  <2>2. QED
    BY <1>1, <1>2, <1>3, <2>1, PopStep
<1>6. QED
  BY <1>4, <1>5

(* The frame drops the event it has dealt with.                            *)
LEMMA NextEvent ==
  ASSUME ToolInv, NEW t \in Threads, Busy(t), InCallbacks(t), Top(t).batch # <<>>,
         Top(t).pc \in {"gate", "callback", "called"}, Top(t).pc # "called" \/ ~destroying,
         Becomes(t, [Top(t) EXCEPT !.pc = "deliver", !.batch = Tail(@)]),
         UNCHANGED <<life, auto, state, calls, queue, callback, cancel, destroying, aborted,
                     acked, gone>>
  PROVE  ToolInv'
<1> DEFINE b == Tail(Top(t).batch)
           f == [Top(t) EXCEPT !.pc = "deliver", !.batch = b]
<1>1. Top(t) \in FrameType /\ FrameOK(Top(t))
  BY TopIn DEF ToolInv
<1>2. b \in Seq(Events) /\ "deliver" \in Points
  <2>1. Top(t).batch \in Seq(Events)
    BY <1>1 DEF FrameType
  <2>2. QED
    BY <2>1 DEF Points
<1>3. f.pc = "deliver" /\ f.call = Top(t).call
  BY <1>1 DEF FrameType
<1>4. FrameOK(f) /\ ~ToolFrame(f)
  BY <1>1, <1>3 DEF FrameOK, ToolFrame
<1>5. Becomes(t, f)
  BY <1>1 DEF FrameType
<1>6. ~HoldsMu(t) /\ ~Told(t)
  BY NoMu, NotTold DEF ToolInv, MuPoints
<1>7. /\ StackInv' /\ OthersStay(t) /\ Busy(t)' /\ Top(t)'.pc = "deliver"
      /\ Top(t)'.call = Top(t).call /\ ~Told(t)'
      /\ HoldsAdmission(t)' => HoldsAdmission(t)
  <2> HIDE DEF b
  <2>1. QED
    BY <1>2, <1>4, <1>5, <1>6, Rewritten DEF ToolInv, OthersStay
<1>8. /\ ~HoldsMu(t)' /\ ~At(t, "admit")' /\ ~At(t, "running")'
      /\ ~At(t, "signal")' /\ ~At(t, "publish")' /\ ~At(t, "quiesce")'
  BY <1>7, MuNext DEF MuPoints, At
<1>9. Typed'
  BY DEF ToolInv, Typed
<1>10. DestroyHeeded(t)
  BY <1>7, HeededInFrame
<1>11. QED
  BY <1>6, <1>7, <1>8, <1>9, <1>10, Neutral

(* Steps of a delivery that only move on in the frame.                     *)
LEMMA DeliveryMoves ==
  ASSUME ToolInv, NEW t \in Threads, Drain(t) \/ Deliver(t) \/ PublishTool(t)
  PROVE  ToolInv'
<1>1. /\ Busy(t) /\ Top(t).pc \in {"drain", "deliver", "publish"}
      /\ UNCHANGED <<life, auto, state, calls, queue, callback, cancel, destroying, aborted,
                     acked, gone>>
  BY DEF Drain, Deliver, PublishTool, At
<1>2. PICK p \in {"snapshot", "gate", "callback"} :
        /\ Goto(t, p)
        /\ p = "snapshot" => Top(t).pc = "drain"
        /\ p = "gate" => Top(t).pc = "deliver" /\ Top(t).batch # <<>> /\ Top(t).batch[1] = "tool"
        /\ p = "callback" => \/ Top(t).pc = "deliver" /\ Top(t).batch # <<>>
                                /\ Top(t).batch[1] # "tool"
                             \/ Top(t).pc = "publish"
  <2>1. CASE Drain(t)
    BY <2>1 DEF Drain, At
  <2>2. CASE Deliver(t)
    <3>1. CASE Top(t).batch[1] = "tool"
      BY <2>2, <3>1 DEF Deliver, At
    <3>2. CASE Top(t).batch[1] # "tool"
      BY <2>2, <3>2 DEF Deliver, At
    <3>3. QED
      BY <3>1, <3>2
  <2>3. CASE PublishTool(t)
    BY <2>3 DEF PublishTool, At
  <2>4. QED
    BY <2>1, <2>2, <2>3
<1>3. FrameOK(Top(t)) /\ (Top(t).pc \in {"deliver", "publish"} => InCallbacks(t))
      /\ (ToolFrame(Top(t)) => HoldsAdmission(t))
  BY <1>1, TopIn DEF ToolInv
<1>4. ~HoldsMu(t) /\ ~Told(t)
  BY <1>1, NoMu, NotTold DEF ToolInv, MuPoints
<1>5. Top(t).call \notin {"cancel", "destroy"}
  BY <1>1, <1>3 DEF FrameOK
<1>6. /\ StackInv' /\ OthersStay(t) /\ Busy(t)' /\ Top(t)'.pc = p
      /\ Top(t)'.call = Top(t).call /\ ~Told(t)'
      /\ HoldsAdmission(t)' => HoldsAdmission(t) \/ (p = "callback" /\ Top(t).batch[1] = "tool")
      /\ InCallbacks(t)' => InCallbacks(t) \/ p \in {"gate", "callback"}
  BY <1>1, <1>2, <1>3, <1>4, <1>5, Moved DEF ToolInv, OthersStay, Points, FrameOK
<1>7. HoldsAdmission(t)' => HoldsAdmission(t)
  BY <1>2, <1>3, <1>6 DEF ToolFrame
<1>8. InCallbacks(t)' => InCallbacks(t)
  BY <1>2, <1>3, <1>6
<1>9. /\ ~HoldsMu(t)' /\ ~At(t, "admit")' /\ ~At(t, "running")'
      /\ ~At(t, "signal")' /\ ~At(t, "publish")' /\ ~At(t, "quiesce")'
  BY <1>6, MuNext DEF MuPoints, At
<1>10. Typed'
  BY <1>1 DEF ToolInv, Typed
<1>11. DestroyHeeded(t)
  BY <1>1, <1>6, HeededInFrame
<1>12. QED
  BY <1>1, <1>4, <1>6, <1>7, <1>8, <1>9, <1>10, <1>11, Neutral

LEMMA CheckStep ==
  ASSUME ToolInv, NEW t \in Threads, CheckTool(t)
  PROVE  ToolInv'
<1>1. /\ Busy(t) /\ Top(t).pc = "gate" /\ Admissible(t)
      /\ UNCHANGED <<life, auto, state, calls, queue, callback, cancel, destroying, aborted,
                     acked, gone>>
  BY DEF CheckTool, At
<1>2. /\ InCallbacks(t) /\ Top(t).batch # <<>> /\ Top(t).batch[1] = "tool"
      /\ Top(t).call \notin {"cancel", "destroy"}
  BY <1>1, TopIn DEF ToolInv, FrameOK
<1>3. ~HoldsMu(t) /\ ~Told(t)
  BY <1>1, NoMu, NotTold DEF ToolInv, MuPoints
<1>4. CASE cancel \/ destroying
  <2>1. Becomes(t, [Top(t) EXCEPT !.pc = "deliver", !.batch = Tail(@)])
    BY <1>4 DEF CheckTool
  <2>2. QED
    BY <1>1, <1>2, <2>1, NextEvent
<1>5. CASE ~(cancel \/ destroying)
  <2>1. Goto(t, "publish")
    BY <1>5 DEF CheckTool
  <2>2. /\ StackInv' /\ OthersStay(t) /\ Busy(t)' /\ Top(t)'.pc = "publish"
        /\ Top(t)'.call = Top(t).call /\ ~Told(t)'
    BY <1>1, <1>2, <1>3, <2>1, Moved DEF ToolInv, OthersStay, Points
  <2>3. ~HoldsMu(t)' /\ ~At(t, "admit")' /\ ~At(t, "running")' /\ ~At(t, "signal")'
        /\ ~At(t, "quiesce")'
    BY <2>2, MuNext DEF MuPoints, At
  <2>4. Typed'
    BY <1>1 DEF ToolInv, Typed
  <2>5. DestroyHeeded(t)
    BY <1>1, <2>2, HeededInFrame
  <2>6. QED
    BY <1>1, <1>2, <1>3, <1>5, <2>2, <2>3, <2>4, <2>5, MuKept, AdmissionKept, CancelKept, GoneKept
       DEF ToolInv, Typed
<1>6. QED
  BY <1>4, <1>5

LEMMA CallbackStep ==
  ASSUME ToolInv, NEW t \in Threads, CallbackReturns(t)
  PROVE  ToolInv'
<1>1. /\ Busy(t) /\ Top(t).pc \in {"callback", "called"}
      /\ UNCHANGED <<life, auto, state, calls, queue, callback, cancel, destroying, aborted,
                     acked, gone>>
  BY DEF CallbackReturns, At
<1>2. InCallbacks(t) /\ Top(t).batch # <<>> /\ ~HoldsMu(t)
  BY <1>1, TopIn, NoMu DEF ToolInv, FrameOK, MuPoints
<1>3. CASE destroying
  <2>1. Pop(t) /\ Typed'
    BY <1>1, <1>3 DEF CallbackReturns, Stops, ToolInv, Typed
  <2>2. QED
    BY <1>1, <1>2, <2>1, PopStep
<1>4. CASE ~destroying
  <2>1. Becomes(t, [Top(t) EXCEPT !.pc = "deliver", !.batch = Tail(@)])
    BY <1>4 DEF CallbackReturns, Stops
  <2>2. QED
    BY <1>1, <1>2, <1>4, <2>1, NextEvent
<1>5. QED
  BY <1>3, <1>4

LEMMA Returns ==
  ASSUME ToolInv, NEW t \in Threads, Refuse(t) \/ DeliveryDone(t)
  PROVE  ToolInv'
<1>1. /\ Busy(t) /\ Top(t).pc \in {"enter", "deliver"} /\ Pop(t)
      /\ UNCHANGED <<life, auto, state, calls, queue, callback, cancel, destroying, aborted,
                     acked, gone>>
  BY DEF Refuse, DeliveryDone, At
<1>2. ~HoldsMu(t)
  <2>1. CASE Refuse(t)
    BY <2>1 DEF Refuse, MuFree
  <2>2. CASE DeliveryDone(t)
    BY <2>2, NoMu DEF DeliveryDone, At, ToolInv, MuPoints
  <2>3. QED
    BY <2>1, <2>2
<1>3. Typed'
  BY <1>1 DEF ToolInv, Typed
<1>4. QED
  BY <1>1, <1>2, <1>3, PopStep

(* The latch is taken with admission free, so no other thread is about to  *)
(* publish, and the latching thread is not either.                         *)
LEMMA LatchStep ==
  ASSUME ToolInv, NEW t \in Threads, Latch(t)
  PROVE  ToolInv'
<1>1. /\ Busy(t) /\ Top(t).pc = "latch" /\ Admissible(t) /\ cancel' = TRUE /\ Goto(t, "signal")
      /\ UNCHANGED <<life, auto, state, calls, queue, callback, aborted, acked, gone>>
  BY DEF Latch, At
<1>2. /\ StackInv' /\ OthersStay(t) /\ Busy(t)' /\ Top(t)'.pc = "signal"
      /\ Top(t)'.call = Top(t).call /\ (Told(t)' <=> Told(t))
      /\ HoldsAdmission(t)' => HoldsAdmission(t)
      /\ InCallbacks(t)' => InCallbacks(t)
  <2>1. Top(t).call \in {"cancel", "destroy"}
    BY <1>1, TopIn DEF ToolInv, FrameOK
  <2>2. QED
    BY <1>1, <2>1, Moved DEF ToolInv, OthersStay, Points
<1>3. (HoldsMu(t)' <=> HoldsMu(t)) /\ ~At(t, "admit")' /\ ~At(t, "running")' /\ ~At(t, "publish")'
      /\ ~At(t, "quiesce")'
  BY <1>1, <1>2, MuSeen, MuNext DEF MuPoints, At, ToolInv
<1>4. Typed'
  <2>1. destroying' \in BOOLEAN
    BY DEF Latch, ToolInv, Typed
  <2>2. QED
    BY <1>1, <2>1 DEF ToolInv, Typed
<1>5. ASSUME NEW u \in Threads
      PROVE  ~At(u, "publish")'
  <2>1. CASE u = t
    BY <1>3, <2>1
  <2>2. CASE u # t
    <3>1. ASSUME At(u, "publish")
          PROVE  FALSE
      <4>1. Busy(u) /\ Top(u).pc = "publish"
        BY <3>1 DEF At
      <4>2. HoldsAdmission(u)
        BY <4>1, TopIn DEF ToolInv, FrameOK, ToolFrame
      <4>3. QED
        BY <1>1, <2>2, <4>2 DEF Admissible
    <3>2. QED
      BY <1>2, <2>2, <3>1, OthersSame
  <2>3. QED
    BY <2>1, <2>2
<1>6. CancelOK'
  <2>1. acked' => \A u \in Threads : At(u, "running")' => aborted'
    BY <1>1, <1>2, <1>3, OthersSame DEF ToolInv, CancelOK
  <2>2. QED
    BY <1>1, <1>5, <2>1 DEF CancelOK
<1>7. DestroyHeeded(t)
  <2>1. destroying' = (destroying \/ Top(t).call = "destroy")
    BY DEF Latch
  <2>2. t # gone
    BY <1>1, NotGone
  <2>3. Top(t).call = "destroy" => life = "retired"
    BY <1>1 DEF ToolInv, GoneOK
  <2>4. QED
    BY <1>1, <1>2, <2>1, <2>2, <2>3 DEF DestroyHeeded
<1>8. QED
  BY <1>1, <1>2, <1>3, <1>4, <1>6, <1>7, MuKept, AdmissionKept, GoneKept DEF ToolInv, Typed

LEMMA SignalStep ==
  ASSUME ToolInv, NEW t \in Threads, Signal(t)
  PROVE  ToolInv'
<1>1. /\ Busy(t) /\ Top(t).pc = "signal" /\ cancel
      /\ aborted' = (aborted \/ \E u \in Threads : At(u, "running"))
      /\ UNCHANGED <<life, auto, state, calls, queue, callback, cancel, destroying, gone>>
  BY DEF Signal, At, ToolInv, CancelOK
<1>2. \/ Top(t).call = "cancel" /\ Pop(t) /\ acked' = TRUE
      \/ Top(t).call # "cancel" /\ Goto(t, "clear") /\ UNCHANGED acked
  BY DEF Signal
<1>3. /\ StackInv' /\ OthersStay(t) /\ (Busy(t)' => Top(t)'.pc \in {"called", "notifying", "clear"})
      /\ HoldsMu(t)' <=> HoldsMu(t)
      /\ HoldsAdmission(t)' => HoldsAdmission(t)
      /\ InCallbacks(t)' => InCallbacks(t)
      /\ DestroyHeeded(t)
  <2>1. HoldsMu(t) <=> Told(t)
    BY <1>1, MuSeen DEF ToolInv, MuPoints
  <2>2. CASE Pop(t)
    <3>1. /\ StackInv' /\ OthersStay(t) /\ (Busy(t)' => Top(t)'.pc \in {"called", "notifying"})
          /\ ~Told(t)' /\ (Told(t) <=> Busy(t)' /\ Top(t)'.pc = "notifying")
          /\ HoldsAdmission(t)' => HoldsAdmission(t)
          /\ InCallbacks(t)' => InCallbacks(t)
      BY <1>1, <2>2, Popped DEF ToolInv, OthersStay
    <3>2. HoldsMu(t)' <=> Told(t)
      BY <3>1, MuNext DEF MuPoints
    <3>3. DestroyHeeded(t)
      BY <1>1, <2>2, HeededOnReturn
    <3>4. QED
      BY <2>1, <3>1, <3>2, <3>3
  <2>3. CASE Top(t).call # "cancel" /\ Goto(t, "clear")
    <3>1. Top(t).call = "destroy"
      BY <1>1, <2>3, TopIn DEF ToolInv, FrameOK
    <3>2. /\ StackInv' /\ OthersStay(t) /\ Busy(t)' /\ Top(t)'.pc = "clear"
          /\ Top(t)'.call = Top(t).call /\ (Told(t)' <=> Told(t))
          /\ HoldsAdmission(t)' => HoldsAdmission(t)
          /\ InCallbacks(t)' => InCallbacks(t)
      BY <1>1, <2>3, <3>1, Moved DEF ToolInv, OthersStay, Points
    <3>3. HoldsMu(t)' <=> Told(t)
      BY <3>2, MuNext DEF MuPoints
    <3>4. DestroyHeeded(t)
      BY <1>1, <3>2, HeededInFrame
    <3>5. QED
      BY <2>1, <3>2, <3>3, <3>4
  <2>4. QED
    BY <1>2, <2>2, <2>3
<1>4. ~At(t, "admit")' /\ ~At(t, "running")' /\ ~At(t, "publish")'
      /\ ~At(t, "signal")' /\ ~At(t, "quiesce")'
  BY <1>3 DEF At
<1>5. Typed'
  <2>1. aborted' \in BOOLEAN /\ acked' \in BOOLEAN
    BY <1>1, <1>2 DEF ToolInv, Typed
  <2>2. QED
    BY <1>1, <2>1 DEF ToolInv, Typed
<1>6. CancelOK'
  <2>1. \A u \in Threads : At(u, "running")' => aborted'
    BY <1>1, <1>3, <1>4, OthersSame
  <2>2. \A u \in Threads : ~At(u, "publish")'
    BY <1>1, <1>3, <1>4, OthersSame DEF ToolInv, CancelOK
  <2>3. QED
    BY <1>1, <2>1, <2>2 DEF CancelOK
<1>7. QED
  BY <1>1, <1>3, <1>4, <1>5, <1>6, MuKept, AdmissionKept, GoneKept DEF ToolInv, Typed

LEMMA ClearStep ==
  ASSUME ToolInv, NEW t \in Threads, ClearCallback(t)
  PROVE  ToolInv'
<1>1. /\ Busy(t) /\ Top(t).pc = "clear" /\ MuFree /\ callback' = FALSE /\ Goto(t, "quiesce")
      /\ UNCHANGED <<life, auto, state, calls, queue, cancel, destroying, aborted, acked, gone>>
  BY DEF ClearCallback, At
<1>2. ~HoldsMu(t) /\ ~Told(t)
  BY <1>1, NotTold DEF ToolInv, MuFree
<1>3. Top(t).call = "destroy"
  BY <1>1, TopIn DEF ToolInv, FrameOK
<1>4. /\ StackInv' /\ OthersStay(t) /\ Busy(t)' /\ Top(t)'.pc = "quiesce"
      /\ Top(t)'.call = Top(t).call /\ ~Told(t)'
      /\ HoldsAdmission(t)' => HoldsAdmission(t)
      /\ InCallbacks(t)' => InCallbacks(t)
  BY <1>1, <1>2, <1>3, Moved DEF ToolInv, OthersStay, Points
<1>5. ~HoldsMu(t)' /\ ~At(t, "admit")' /\ ~At(t, "running")' /\ ~At(t, "publish")'
      /\ ~At(t, "signal")'
  BY <1>4, MuNext DEF MuPoints, At
<1>6. Typed'
  BY <1>1 DEF ToolInv, Typed
<1>7. DestroyHeeded(t)
  BY <1>1, <1>4, HeededInFrame
<1>8. QED
  BY <1>1, <1>2, <1>4, <1>5, <1>6, <1>7, MuKept, AdmissionKept, CancelKept, GoneKept
     DEF ToolInv, Typed

LEMMA DestroyStep ==
  ASSUME ToolInv, NEW t \in Threads, DestroyReturns(t)
  PROVE  ToolInv'
<1>1. /\ Busy(t) /\ Top(t).pc = "quiesce" /\ Pop(t) /\ gone' = t /\ ~callback
      /\ \A u \in Threads \ {t} : Quiet(u)
      /\ UNCHANGED <<life, auto, state, calls, queue, callback, cancel, destroying, aborted, acked>>
  BY DEF DestroyReturns, At, ToolInv, GoneOK
<1>2. ~HoldsMu(t) /\ ~Told(t)
  BY <1>1, NoMu, NotTold DEF ToolInv, MuPoints
<1>3. /\ StackInv' /\ OthersStay(t) /\ (Busy(t)' => Top(t)'.pc = "called") /\ ~Told(t)'
      /\ \A i \in 1..Len(stack'[t]) : stack'[t][i].pc = "called"
      /\ HoldsAdmission(t)' => HoldsAdmission(t)
  BY <1>1, <1>2, Popped DEF ToolInv, OthersStay
<1>4. ~HoldsMu(t)' /\ ~At(t, "admit")' /\ ~At(t, "running")' /\ ~At(t, "publish")'
      /\ ~At(t, "signal")' /\ ~At(t, "quiesce")'
  BY <1>3, MuNext DEF MuPoints, At
<1>5. Typed'
  BY <1>1 DEF ToolInv, Typed
<1>6. life = "retired" /\ destroying
  <2>1. Top(t).call = "destroy"
    BY <1>1, TopIn DEF ToolInv, FrameOK
  <2>2. QED
    BY <1>1, <2>1 DEF ToolInv, GoneOK
<1>7. \A u \in Threads \ {t} : ~InCallbacks(u)'
  <2>1. \A u \in Threads \ {t} : ~InCallbacks(u)
    BY <1>1 DEF Quiet, Dispatching, InCallbacks
  <2>2. QED
    BY <1>3, <2>1, OthersSame
<1>8. GoneOK'
  <2>1. DestroyHeeded(t)
    BY <1>1, HeededOnReturn
  <2>2. \A u \in Threads : Busy(u)' /\ Top(u)'.call = "destroy" =>
          life' = "retired" /\ (Top(u)'.pc = "latch" \/ destroying')
    BY <1>1, <1>3, <2>1, OthersSame DEF ToolInv, GoneOK, DestroyHeeded
  <2>3. QED
    BY <1>1, <1>3, <1>6, <1>7, <2>2 DEF GoneOK
<1>9. QED
  BY <1>1, <1>2, <1>3, <1>4, <1>5, <1>8, MuKept, AdmissionKept, CancelKept DEF ToolInv

-----------------------------------------------------------------------------
(* The invariant holds in every reachable state.                           *)
LEMMA ToolInitially ==
  ASSUME ToolAssumption, ToolInit
  PROVE  ToolInv
<1>1. \A t \in Threads : stack[t] = <<>> /\ Len(stack[t]) = 0
  BY DEF ToolInit
<1>2. \A t \in Threads : ~Busy(t) /\ ~HoldsAdmission(t) /\ ~InCallbacks(t)
  <2>1. \A t \in Threads : \A i \in 1..Len(stack[t]) : FALSE
    BY <1>1
  <2>2. QED
    BY <1>1, <2>1, Zenon DEF Busy, HoldsAdmission, InCallbacks
<1>3. \A t \in Threads : ~HoldsMu(t) /\ ~Told(t)
  <2>1. \A t \in Threads : \A i \in 1..Len(stack[t]) : FALSE
    BY <1>1
  <2>2. \A t \in Threads : ~HoldsMu(t)
    BY <2>1, Zenon DEF HoldsMu
  <2>3. \A t \in Threads : ~Told(t)
    <3>1. ASSUME NEW t \in Threads, Told(t)
          PROVE  FALSE
      <4>1. Len(stack[t]) = 0 /\ Len(stack[t]) > 1
        BY <1>1, <3>1, Zenon DEF Told
      <4>2. QED
        BY <4>1
    <3>2. QED
      BY <3>1
  <2>4. QED
    BY <2>2, <2>3
<1>4. Typed
  <2>1. calls \in 0 .. MaxToolCalls /\ queue \in Seq(Events) /\ gone \in Threads \cup {NoThread}
    BY DEF ToolAssumption, ToolInit
  <2>2. QED
    BY <2>1, Zenon DEF ToolInit, Typed
<1>5. StackInv
  <2>1. stack \in [Threads -> Seq(FrameType)]
    BY DEF ToolInit
  <2>2. QED
    BY <1>1, <1>3, <2>1 DEF StackInv
<1>6. MuOK /\ AdmissionOK /\ CancelOK /\ GoneOK
  BY <1>2, <1>3 DEF ToolInit, MuOK, AdmissionOK, CancelOK, GoneOK, At
<1>7. QED
  BY <1>4, <1>5, <1>6 DEF ToolInv

LEMMA ToolStepInv ==
  ASSUME ToolAssumption, ToolInv, [ToolNext]_vars
  PROVE  ToolInv'
<1>1. CASE UNCHANGED vars
  BY <1>1 DEF vars, ToolInv, Typed, StackInv, MuOK, AdmissionOK, CancelOK, GoneOK,
     HoldsMu, MuFrame, Told, HoldsAdmission, ToolFrame, InCallbacks, At, Busy, Top
<1>2. ASSUME NEW t \in Threads, CallStep(t)
      PROVE  ToolInv'
  <2>1. CASE Cancelled(t) \/ Fails(t) \/ Answers(t) \/ RejectCall(t) \/ GrantTool(t)
    BY <2>1, TurnEnds
  <2>2. CASE Drain(t) \/ Deliver(t) \/ PublishTool(t)
    BY <2>2, DeliveryMoves
  <2>3. CASE Refuse(t) \/ DeliveryDone(t)
    BY <2>3, Returns
  <2>4. CASE Enter(t)
    BY <2>4, EnterStep
  <2>5. CASE BeginGeneration(t) \/ Announce(t) \/ Decide(t) \/ AskTool(t)
    BY <2>5, TurnMoves
  <2>6. CASE Snapshot(t)
    BY <2>6, SnapshotStep
  <2>7. CASE CheckTool(t)
    BY <2>7, CheckStep
  <2>8. CASE CallbackReturns(t)
    BY <2>8, CallbackStep
  <2>9. CASE Latch(t)
    BY <2>9, LatchStep
  <2>10. CASE Signal(t)
    BY <2>10, SignalStep
  <2>11. CASE ClearCallback(t)
    BY <2>11, ClearStep
  <2>12. CASE DestroyReturns(t)
    BY <2>12, DestroyStep
  <2>13. QED
    BY <1>2, <2>1, <2>2, <2>3, <2>4, <2>5, <2>6, <2>7, <2>8, <2>9, <2>10, <2>11, <2>12,
       Zenon DEF CallStep
<1>3. ASSUME NEW t \in Threads, Call(t)
      PROVE  ToolInv'
  BY <1>3, CallIn
<1>4. QED
  BY <1>1, <1>2, <1>3 DEF ToolNext

(* The strengthening of the session's three safety properties that every   *)
(* step keeps: create, step, cancel and destroy, at any depth of callbacks. *)
THEOREM ToolInvariance == ToolSpec => []ToolInv
<1>1. ToolInit => ToolInv
  BY ToolAssumption, ToolInitially
<1>2. ToolInv /\ [ToolNext]_vars => ToolInv'
  BY ToolAssumption, ToolStepInv
<1>3. QED
  BY <1>1, <1>2, PTL DEF ToolSpec

(* Types; the session mutex and the admission mutex each have one holder,  *)
(* and the state says "generating" exactly while a thread drives the       *)
(* session (run_generate_once, under session->mu).                         *)
THEOREM ToolTypeCorrect == ToolSpec => []ToolTypeOK
<1>1. ToolInv => ToolTypeOK
  BY DEF ToolInv, Typed, StackInv, FrameType, MuOK, AdmissionOK, ToolTypeOK
<1>2. QED
  BY <1>1, ToolInvariance, PTL

(* Once a cancel has returned, the generation it found has been told to    *)
(* stop and no thread is about to publish a tool call.                     *)
THEOREM CancelHolds == ToolSpec => []CancelledIsInert
<1>1. ToolInv => CancelledIsInert
  BY DEF ToolInv, CancelOK, CancelledIsInert
<1>2. QED
  BY <1>1, ToolInvariance, PTL

(* Once destroy has returned no other thread is in a callback of the       *)
(* session, then or later, and its own begins none: what is left are the   *)
(* callbacks that destroy was called from.                                 *)
THEOREM DestroyIsQuiet == ToolSpec => []QuietAfterDestroy
<1>1. ToolInv => QuietAfterDestroy
  <2> SUFFICES ASSUME ToolInv, gone # NoThread, NEW t \in Threads
               PROVE  /\ ~At(t, "callback")
                      /\ t # gone => \A i \in 1..Len(stack[t]) : stack[t][i].pc # "called"
    BY DEF QuietAfterDestroy
  <2>1. CASE t = gone
    BY <2>1, NotGone DEF At
  <2>2. CASE t # gone
    <3>1. ~InCallbacks(t)
      BY <2>2 DEF ToolInv, GoneOK
    <3>2. ~At(t, "callback")
      BY <3>1, TopIn DEF ToolInv, At
    <3>3. \A i \in 1..Len(stack[t]) : stack[t][i].pc # "called"
      BY <3>1 DEF InCallbacks
    <3>4. QED
      BY <3>2, <3>3
  <2>3. QED
    BY <2>1, <2>2
<1>2. QED
  BY <1>1, ToolInvariance, PTL
=============================================================================
