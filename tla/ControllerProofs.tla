--------------------------- MODULE ControllerProofs ---------------------------
(***************************************************************************)
(* Proofs about Controller: whatever the order in which the registers are  *)
(* noticed, device and host agree about the entries of the rings of both   *)
(* queue pairs, and no interrupt and no I/O doorbell is lost.              *)
(***************************************************************************)
EXTENDS Controller, FiniteSetTheorems, SequenceTheorems, TLAPS

-----------------------------------------------------------------------------
(***************************************************************************)
(* Rings of n slots.                                                       *)
(***************************************************************************)
\* The slot behind slot a, and the way from slot a to slot b.
Step(a, n) == IF a + 1 = n THEN 0 ELSE a + 1
Gap(a, b, n) == IF a <= b THEN b - a ELSE b - a + n

\* The slots from slot a on, up to slot b and without it.
Between(a, b, n) == {s \in Slots(n) : Gap(a, s, n) < Gap(a, b, n)}

LEMMA ModLess ==
  ASSUME NEW n \in Nat, n > 0, NEW x \in 0 .. 2 * n - 1
  PROVE  x % n = IF x < n THEN x ELSE x - n
OBVIOUS

LEMMA StepGap ==
  ASSUME NEW n \in Nat, NEW a \in Slots(n), NEW b \in Slots(n)
  PROVE  /\ Step(a, n) \in Slots(n)
         /\ Gap(a, b, n) \in Nat /\ Gap(a, b, n) < n
         /\ Gap(a, b, n) = 0 <=> a = b
         /\ Gap(a, b, n) + 1 < n => Gap(a, Step(b, n), n) = Gap(a, b, n) + 1
         /\ a # b => Gap(Step(a, n), b, n) = Gap(a, b, n) - 1
BY DEF Slots, Step, Gap

\* One more slot is in use.
LEMMA Push ==
  ASSUME NEW n \in Nat, NEW a \in Slots(n), NEW b \in Slots(n), Gap(a, b, n) + 1 < n
  PROVE  /\ Between(a, Step(b, n), n) = Between(a, b, n) \cup {b}
         /\ b \notin Between(a, b, n)
BY DEF Slots, Step, Gap, Between

\* The first slot is given back.
LEMMA Take ==
  ASSUME NEW n \in Nat, NEW a \in Slots(n), NEW b \in Slots(n), a # b
  PROVE  /\ a \in Between(a, b, n)
         /\ Between(Step(a, n), b, n) = Between(a, b, n) \ {a}
BY DEF Slots, Step, Gap, Between

\* A completion ring: the host expects the phase ph from its head h to the
\* last slot and the other phase before it; seq are the completions it has
\* not taken.
Expected(s, h, ph) == IF s >= h THEN ph ELSE 1 - ph

RingOk(ring, n, h, ph, seq) ==
  \A s \in Slots(n) :
    IF Gap(h, s, n) < Len(seq)
    THEN ring[s].phase = Expected(s, h, ph) /\ ring[s].cid = seq[Gap(h, s, n) + 1]
    ELSE ring[s].phase # Expected(s, h, ph)

\* The phase behind slot a, and a ring whose slot h has been taken.
Flip(a, ph, n) == IF a + 1 = n THEN 1 - ph ELSE ph
Cleared(ring, h) == [ring EXCEPT ![h].cid = NULL]

\* The device's head p and phase pph are behind the last completion.
EndAt(p, pph, h, ph, len, n) == Gap(h, p, n) = len /\ pph = Expected(p, h, ph)

LEMMA RingHolds ==
  ASSUME NEW n \in Nat, NEW ring, NEW side, NEW seq, Len(seq) \in Nat, Len(seq) < n,
         side.head \in Slots(n), RingOk(ring, n, side.head, side.phase, seq)
  PROVE  Holds(ring, n, side, seq)
<1> SUFFICES ASSUME NEW i \in 0 .. Len(seq)
             PROVE  LET e == ring[(side.head + i) % n]
                        expect == IF side.head + i < n THEN side.phase ELSE 1 - side.phase
                    IN  IF i < Len(seq) THEN e.phase = expect /\ e.cid = seq[i + 1]
                        ELSE e.phase # expect
  BY DEF Holds
<1> DEFINE h == side.head
           s == IF h + i < n THEN h + i ELSE h + i - n
<1>1. h \in Nat /\ h < n /\ i \in Nat /\ i < n
  BY DEF Slots
<1> HIDE DEF h
<1>2. (h + i) % n = s
  BY <1>1, ModLess
<1>3. s \in Slots(n) /\ Gap(h, s, n) = i /\ (s >= h <=> h + i < n)
  BY <1>1 DEF Slots, Gap
<1> HIDE DEF s
<1> QED BY <1>2, <1>3 DEF RingOk, Expected, h
\* A completion c is posted.
LEMMA Post ==
  ASSUME NEW n \in Nat, NEW h \in Slots(n), NEW p \in Slots(n), NEW ph \in {0, 1}, NEW pph,
         NEW C, NEW seq \in Seq(C), NEW c \in C, Len(seq) + 1 < n,
         EndAt(p, pph, h, ph, Len(seq), n),
         NEW ring, DOMAIN ring = Slots(n), RingOk(ring, n, h, ph, seq)
  PROVE  /\ RingOk([ring EXCEPT ![p] = [cid |-> c, phase |-> pph]], n, h, ph, Append(seq, c))
         /\ EndAt(Step(p, n), Flip(p, pph, n), h, ph, Len(Append(seq, c)), n)
<1> DEFINE nr == [ring EXCEPT ![p] = [cid |-> c, phase |-> pph]]
           k == Len(seq)
<1>1. /\ Append(seq, c) \in Seq(C) /\ Len(Append(seq, c)) = k + 1 /\ k \in Nat
      /\ \A i \in 1 .. k : Append(seq, c)[i] = seq[i]
      /\ Append(seq, c)[k + 1] = c
  BY AppendProperties, LenProperties
<1>2. /\ nr[p].phase = pph /\ nr[p].cid = c
      /\ \A s \in Slots(n) : s # p => nr[s] = ring[s]
  OBVIOUS
<1>3. Gap(h, p, n) = k /\ pph = Expected(p, h, ph) /\ h \in Nat /\ p \in Nat /\ h < n /\ p < n
  BY DEF EndAt, Slots
<1> HIDE DEF nr, k
<1>4. \A s \in Slots(n) : Gap(h, s, n) = k <=> s = p
  BY <1>1, <1>3 DEF Gap, Slots
<1>5. \A s \in Slots(n) : Gap(h, s, n) \in Nat
  BY StepGap
<1>6. RingOk(nr, n, h, ph, Append(seq, c))
  <2> SUFFICES ASSUME NEW s \in Slots(n)
               PROVE  IF Gap(h, s, n) < Len(Append(seq, c))
                      THEN /\ nr[s].phase = Expected(s, h, ph)
                           /\ nr[s].cid = Append(seq, c)[Gap(h, s, n) + 1]
                      ELSE nr[s].phase # Expected(s, h, ph)
    BY DEF RingOk
  <2>1. CASE s = p
    BY <2>1, <1>1, <1>2, <1>3
  <2>2. CASE s # p
    <3>1. nr[s] = ring[s] /\ Gap(h, s, n) \in Nat /\ Gap(h, s, n) # k
      BY <2>2, <1>2, <1>4, <1>5
    <3>2. IF Gap(h, s, n) < k
          THEN ring[s].phase = Expected(s, h, ph) /\ ring[s].cid = seq[Gap(h, s, n) + 1]
          ELSE ring[s].phase # Expected(s, h, ph)
      BY DEF RingOk, k
    <3>3. Gap(h, s, n) < k => Append(seq, c)[Gap(h, s, n) + 1] = seq[Gap(h, s, n) + 1]
      BY <1>1, <3>1
    <3> QED BY <1>1, <3>1, <3>2, <3>3
  <2> QED BY <2>1, <2>2
<1>7. Gap(h, Step(p, n), n) = k + 1
  BY <1>1, <1>3, StepGap DEF k
<1>8. Flip(p, pph, n) = Expected(Step(p, n), h, ph)
  <2>1. k + 1 < n
    BY DEF k
  <2> QED BY <1>1, <1>3, <2>1 DEF Expected, Step, Gap, Flip
<1> QED BY <1>1, <1>6, <1>7, <1>8 DEF EndAt, nr

\* The host takes the completion at its head.
LEMMA Reap ==
  ASSUME NEW n \in Nat, NEW h \in Slots(n), NEW ph \in {0, 1},
         NEW C, NEW seq \in Seq(C), Len(seq) < n,
         NEW ring, DOMAIN ring = Slots(n), RingOk(ring, n, h, ph, seq), ring[h].phase = ph
  PROVE  /\ seq # << >> /\ ring[h].cid = Head(seq)
         /\ RingOk(Cleared(ring, h), n, Step(h, n), Flip(h, ph, n), Tail(seq))
         /\ \A p \in Slots(n) : \A pph : EndAt(p, pph, h, ph, Len(seq), n) =>
              EndAt(p, pph, Step(h, n), Flip(h, ph, n), Len(Tail(seq)), n)
<1> DEFINE k == Len(seq)
           h1 == Step(h, n)
           ph1 == Flip(h, ph, n)
           nr == Cleared(ring, h)
<1>1. h \in Nat /\ h < n /\ Gap(h, h, n) = 0 /\ Expected(h, h, ph) = ph /\ k \in Nat /\ k < n
  BY LenProperties DEF Slots, Gap, Expected
<1>2. k > 0 /\ ring[h].cid = seq[1]
  BY <1>1 DEF RingOk
<1>3. seq # << >> /\ ring[h].cid = Head(seq)
  BY <1>2, EmptySeq, HeadTailProperties
<1>4. /\ Tail(seq) \in Seq(C) /\ Len(Tail(seq)) = k - 1
      /\ \A i \in 1 .. k - 1 : Tail(seq)[i] = seq[i + 1]
  BY <1>3, HeadTailProperties
<1>5. \A s \in Slots(n) : nr[s].phase = ring[s].phase /\ (s # h => nr[s] = ring[s])
  BY DEF Cleared
<1>6. h1 \in Slots(n) /\ \A s \in Slots(n) : s # h => Gap(h1, s, n) = Gap(h, s, n) - 1
  BY StepGap
<1>7. Gap(h1, h, n) = n - 1
  BY <1>1 DEF Gap, Step
<1>8. \A s \in Slots(n) : /\ s # h => Expected(s, h1, ph1) = Expected(s, h, ph)
                          /\ s = h => Expected(s, h1, ph1) = 1 - ph
  BY <1>1 DEF Expected, Step, Slots, Flip
<1>9. \A s \in Slots(n) : Gap(h, s, n) \in Nat /\ (Gap(h, s, n) = 0 <=> s = h)
  BY StepGap
<1> HIDE DEF nr, k, h1, ph1
<1>10. RingOk(nr, n, h1, ph1, Tail(seq))
  <2> SUFFICES ASSUME NEW s \in Slots(n)
               PROVE  IF Gap(h1, s, n) < Len(Tail(seq))
                      THEN /\ nr[s].phase = Expected(s, h1, ph1)
                           /\ nr[s].cid = Tail(seq)[Gap(h1, s, n) + 1]
                      ELSE nr[s].phase # Expected(s, h1, ph1)
    BY DEF RingOk
  <2>1. CASE s = h
    <3>1. nr[s].phase = ph
      BY <2>1, <1>5
    <3> QED BY <2>1, <3>1, <1>1, <1>4, <1>7, <1>8
  <2>2. CASE s # h
    <3>1. /\ nr[s] = ring[s] /\ Gap(h, s, n) \in Nat /\ Gap(h, s, n) > 0
          /\ Gap(h1, s, n) = Gap(h, s, n) - 1
          /\ Expected(s, h1, ph1) = Expected(s, h, ph)
      BY <2>2, <1>5, <1>6, <1>8, <1>9
    <3>2. IF Gap(h, s, n) < k
          THEN ring[s].phase = Expected(s, h, ph) /\ ring[s].cid = seq[Gap(h, s, n) + 1]
          ELSE ring[s].phase # Expected(s, h, ph)
      BY DEF RingOk, k
    <3>3. Gap(h, s, n) < k => Tail(seq)[Gap(h, s, n)] = seq[Gap(h, s, n) + 1]
      BY <1>1, <1>4, <3>1
    <3> QED BY <1>1, <1>4, <3>1, <3>2, <3>3
  <2> QED BY <2>1, <2>2
<1>11. \A p \in Slots(n) : \A pph : EndAt(p, pph, h, ph, k, n) => EndAt(p, pph, h1, ph1, k - 1, n)
  BY <1>1, <1>2, <1>6, <1>8, <1>9 DEF EndAt
<1> QED BY <1>3, <1>4, <1>10, <1>11 DEF nr, k, h1, ph1

-----------------------------------------------------------------------------
(***************************************************************************)
(* Registers.                                                              *)
(***************************************************************************)
RegsInv ==
  /\ bar \in [Regs -> 0 .. 2] /\ old_bar \in [Regs -> 0 .. 2] /\ rdy \in BOOLEAN
  /\ \A r \in Regs : old_bar[r] <= bar[r] /\ bar[r] <= Set[r]
  /\ admin_q = NULL <=> old_bar["aqa"] = 0
  /\ admin_q = NULL => ~rdy

LEMMA SetValues ==
  /\ Regs = {"aqa", "asq", "acq", "cc"}
  /\ Set["aqa"] = 1 /\ Set["asq"] = 2 /\ Set["acq"] = 2 /\ Set["cc"] = 1
  /\ \A r \in Regs : Set[r] \in {1, 2}
BY DEF Regs, Set

\* Steps that do not touch the registers and keep an admin queue.
LEMMA RegsAside ==
  ASSUME RegsInv, UNCHANGED <<bar, old_bar, rdy>>, admin_q' = NULL <=> admin_q = NULL
  PROVE  RegsInv'
BY DEF RegsInv

LEMMA RegsBars ==
  ASSUME RegsInv, ProcBars, admin_q \in {NULL} \cup [head : Slots(AqDepth), phase : {0, 1}]
  PROVE  RegsInv'
<1>1. UNCHANGED bar
  BY DEF ProcBars
<1>2. ASSUME NEW r \in Regs \ {"aqa"}, old_bar' = [old_bar EXCEPT ![r] = bar[r]],
             rdy' => rdy \/ admin_q # NULL, rdy' \in BOOLEAN, admin_q' = NULL <=> admin_q = NULL
      PROVE  RegsInv'
  BY <1>1, <1>2, SetValues DEF RegsInv
<1>3. CASE BarAqa
  <2>1. admin_q' # NULL
    BY <1>3, NullAssumption, ControllerAssumption DEF BarAqa, Slots
  <2>2. old_bar["aqa"] # bar["aqa"] /\ old_bar' = [old_bar EXCEPT !["aqa"] = bar["aqa"]] /\ rdy' = rdy
    BY <1>3 DEF BarAqa, Found, Seen, Changed
  <2>3. bar["aqa"] > 0
    BY <2>2, SetValues DEF RegsInv
  <2> QED BY <1>1, <2>1, <2>2, <2>3, SetValues DEF RegsInv
<1>4. CASE BarAsq
  <2>1. CASE admin_q = NULL
    BY <1>1, <1>4, <2>1, RegsAside DEF BarAsq
  <2>2. CASE admin_q # NULL
    BY <1>2, <1>4, <2>2, SetValues DEF BarAsq, Seen, RegsInv
  <2> QED BY <2>1, <2>2
<1>5. CASE BarAcq
  <2>1. CASE admin_q = NULL
    BY <1>1, <1>5, <2>1, RegsAside DEF BarAcq
  <2>2. CASE admin_q # NULL
    <3>1. Seen("acq") /\ UNCHANGED rdy /\ admin_q' = [admin_q EXCEPT !.head = 0]
      BY <1>5, <2>2 DEF BarAcq
    <3>2. 0 \in Slots(AqDepth)
      BY ControllerAssumption DEF Slots
    <3>3. admin_q' # NULL
      BY <2>2, <3>1, <3>2, NullAssumption
    <3> QED BY <1>2, <2>2, <3>1, <3>3, SetValues DEF Seen, RegsInv
  <2> QED BY <2>1, <2>2
<1>6. CASE BarCc
  BY <1>2, <1>6, SetValues DEF BarCc, Seen
<1>7. ASSUME NEW pc, NEW r, NEW next, NotFound(pc, r, next) PROVE RegsInv'
  BY <1>1, <1>7, RegsAside DEF NotFound
<1> QED BY <1>3, <1>4, <1>5, <1>6, <1>7 DEF ProcBars

LEMMA RegsWrite == ASSUME RegsInv, NEW r \in Regs, WriteReg(r) PROVE RegsInv'
<1>1. /\ bar[r] < Set[r] /\ bar' = [bar EXCEPT ![r] = @ + 1]
      /\ r = "cc" => \A s \in Regs \ {"cc"} : bar[s] = Set[s]
      /\ UNCHANGED <<old_bar, rdy, admin_q>>
  BY DEF WriteReg, devVars
<1>3. bar' \in [Regs -> 0 .. 2]
  BY <1>1, SetValues DEF RegsInv
<1>4. \A s \in Regs : old_bar[s] <= bar'[s] /\ bar'[s] <= Set[s]
  BY <1>1, SetValues DEF RegsInv
<1> QED BY <1>1, <1>3, <1>4 DEF RegsInv

-----------------------------------------------------------------------------
(***************************************************************************)
(* Outstanding commands.  Each is in one place: in a slot of the           *)
(* submission ring, in the work queue, or among the completions that the   *)
(* host has not taken.                                                     *)
(***************************************************************************)
Among(c, seq) == \E k \in 1 .. Len(seq) : seq[k] = c

SplitUp(S, ring, P, W, seq) ==
  /\ W \subseteq S
  /\ \A s \in P : ring[s] \in S \ W
  /\ \A s, t \in P : ring[s] = ring[t] => s = t
  /\ \A k \in 1 .. Len(seq) : seq[k] \in S \ W
  /\ \A k, m \in 1 .. Len(seq) : seq[k] = seq[m] => k = m
  /\ \A s \in P, k \in 1 .. Len(seq) : ring[s] # seq[k]
  /\ \A c \in S \ W : (\E s \in P : ring[s] = c) \/ Among(c, seq)


LEMMA SplitSubmit ==
  ASSUME NEW S, NEW ring, NEW P, NEW W, NEW seq, SplitUp(S, ring, P, W, seq),
         NEW c, c \notin S, NEW t \in DOMAIN ring, t \notin P, P \subseteq DOMAIN ring
  PROVE  SplitUp(S \cup {c}, [ring EXCEPT ![t] = c], P \cup {t}, W, seq)
<1> DEFINE nr == [ring EXCEPT ![t] = c]
<1>1. nr[t] = c /\ \A s \in P : nr[s] = ring[s]
  OBVIOUS
<1> HIDE DEF nr
<1>2. SplitUp(S \cup {c}, nr, P \cup {t}, W, seq)
  BY <1>1 DEF SplitUp
<1> QED BY <1>2 DEF nr

LEMMA SplitAccept ==
  ASSUME NEW S, NEW ring, NEW P, NEW W, NEW seq, SplitUp(S, ring, P, W, seq),
         NEW s \in P, P \subseteq DOMAIN ring
  PROVE  /\ SplitUp(S, [ring EXCEPT ![s] = NULL], P \ {s}, W \cup {ring[s]}, seq)
         /\ ring[s] \in S \ W
<1> DEFINE nr == [ring EXCEPT ![s] = NULL]
<1>1. \A t \in P \ {s} : nr[t] = ring[t]
  OBVIOUS
<1> HIDE DEF nr
<1>2. SplitUp(S, nr, P \ {s}, W \cup {ring[s]}, seq)
  BY <1>1 DEF SplitUp
<1> QED BY <1>2 DEF nr, SplitUp

LEMMA SplitPost ==
  ASSUME NEW S, NEW ring, NEW P, NEW W, NEW C, NEW seq \in Seq(C),
         SplitUp(S, ring, P, W, seq), NEW c \in W, c \in C
  PROVE  SplitUp(S, ring, P, W \ {c}, Append(seq, c))
<1> DEFINE k == Len(seq)
           ns == Append(seq, c)
<1>1. /\ k \in Nat /\ Len(ns) = k + 1 /\ ns[k + 1] = c
      /\ \A i \in 1 .. k : ns[i] = seq[i]
  BY AppendProperties, LenProperties
<1>2. \A i \in 1 .. k + 1 : i \in 1 .. k \/ i = k + 1
  BY <1>1
<1>3. 1 .. k \subseteq 1 .. k + 1 /\ k + 1 \in 1 .. k + 1
  BY <1>1
<1> HIDE DEF k, ns
<1>4. SplitUp(S, ring, P, W \ {c}, ns)
  BY <1>1, <1>2, <1>3 DEF SplitUp, Among, k
<1> QED BY <1>4 DEF ns

LEMMA SplitReap ==
  ASSUME NEW S, NEW ring, NEW P, NEW W, NEW C, NEW seq \in Seq(C),
         SplitUp(S, ring, P, W, seq), seq # << >>
  PROVE  /\ SplitUp(S \ {Head(seq)}, ring, P, W, Tail(seq))
         /\ Head(seq) \in S /\ Head(seq) = seq[1]
         /\ \A c : Among(c, seq) <=> c = Head(seq) \/ Among(c, Tail(seq))
<1> DEFINE k == Len(seq)
           ns == Tail(seq)
<1>1. /\ k \in Nat /\ k >= 1 /\ Len(ns) = k - 1 /\ Head(seq) = seq[1]
      /\ \A i \in 1 .. k - 1 : ns[i] = seq[i + 1]
  BY HeadTailProperties, LenProperties, EmptySeq
<1>2. \A i \in 1 .. k : i = 1 \/ (i - 1 \in 1 .. k - 1 /\ ns[i - 1] = seq[i])
  BY <1>1
<1>3. \A i \in 1 .. k - 1 : i + 1 \in 1 .. k /\ i + 1 # 1
  BY <1>1
<1>4. 1 \in 1 .. k
  BY <1>1
<1>5. \A i, j \in 1 .. k - 1 : i + 1 = j + 1 => i = j
  BY <1>1
<1> HIDE DEF k, ns
<1>6. \A c : (\E i \in 1 .. k : seq[i] = c) <=> c = seq[1] \/ (\E i \in 1 .. k - 1 : ns[i] = c)
  BY <1>1, <1>2, <1>3, <1>4, ZenonT(30)
<1>7. \A c : Among(c, seq) <=> c = seq[1] \/ Among(c, ns)
  <2> SUFFICES ASSUME NEW c PROVE Among(c, seq) <=> c = seq[1] \/ Among(c, ns)
    OBVIOUS
  <2>1. Among(c, seq) <=> \E i \in 1 .. k : seq[i] = c
    BY DEF Among, k
  <2>2. Among(c, ns) <=> \E i \in 1 .. k - 1 : ns[i] = c
    BY <1>1 DEF Among
  <2> QED BY <1>6, <2>1, <2>2
<1>8. SplitUp(S \ {seq[1]}, ring, P, W, ns)
  <2>1. \A i \in 1 .. Len(ns) : ns[i] \in (S \ {seq[1]}) \ W
    BY <1>1, <1>3, <1>4 DEF SplitUp, k
  <2>2. \A i, j \in 1 .. Len(ns) : ns[i] = ns[j] => i = j
    BY <1>1, <1>3, <1>5 DEF SplitUp, k
  <2>3. \A s \in P, i \in 1 .. Len(ns) : ring[s] # ns[i]
    BY <1>1, <1>3 DEF SplitUp, k
  <2>4. /\ W \subseteq S \ {seq[1]}
        /\ \A s \in P : ring[s] \in (S \ {seq[1]}) \ W
        /\ \A s, t \in P : ring[s] = ring[t] => s = t
    BY <1>4 DEF SplitUp, k
  <2>5. \A c \in (S \ {seq[1]}) \ W : (\E s \in P : ring[s] = c) \/ Among(c, ns)
    BY <1>7 DEF SplitUp
  <2> QED BY <2>1, <2>2, <2>3, <2>4, <2>5 DEF SplitUp
<1>9. seq[1] \in S
  BY <1>4 DEF SplitUp, k
<1> QED BY <1>1, <1>7, <1>8, <1>9 DEF ns

-----------------------------------------------------------------------------
(***************************************************************************)
(* The invariant.                                                          *)
(***************************************************************************)
Taken(q, a, n) == IF disp.pc = q THEN (a + disp.seq) % n ELSE a

AFrom == Taken("asq", old_dbs["asq"], AqDepth)

Fetching(q, from, tail, n) ==
  disp.pc = q => /\ disp.seq \in Nat /\ disp.num \in Slots(n) /\ disp.seq <= disp.num
                 /\ disp.num - disp.seq <= Gap(from, tail, n)

AdmTypes ==
  /\ asqe \in [Slots(AqDepth) -> AdminCmds \cup {NULL}]
  /\ acqe \in [Slots(AqDepth) -> CqeType(AdminCmds)]
  /\ hadm \in SideType(AqDepth)
  /\ admin_q \in {NULL} \cup [head : Slots(AqDepth), phase : {0, 1}]
  /\ aposted \in Seq(AdminCmds)
  /\ hout \subseteq AdminCmds

\* The host's doorbell is there, or has been set back.
Rung == \/ dbs["asq"] = hadm.tail
        \/ dbs["asq"] = 0 /\ old_dbs["asq"] = 0 /\ disp.pc # "asq"

\* No admin command has been carried out yet.
Fresh ==
  /\ hadm.head = 0 /\ hadm.phase = 1 /\ aposted = << >> /\ old_dbs["asq"] = 0
  /\ disp.pc = "asq" => disp.seq = 0
  /\ admin_q # NULL => admin_q = [head |-> 0, phase |-> 1]

AdmInv ==
  /\ AdmTypes
  /\ Rung /\ old_dbs["asq"] \in Slots(AqDepth)
  /\ Fetching("asq", AFrom, hadm.tail, AqDepth)
  /\ disp.pc = "asq" => rdy
  /\ SplitUp(hout, asqe, Between(AFrom, hadm.tail, AqDepth), {}, aposted)
  /\ Cardinality(hout) = Gap(AFrom, hadm.tail, AqDepth) + Len(aposted)
  /\ Cardinality(hout) < AqDepth
  /\ RingOk(acqe, AqDepth, hadm.head, hadm.phase, aposted)
  /\ rdy => EndAt(admin_q.head, admin_q.phase, hadm.head, hadm.phase, Len(aposted), AqDepth)
  /\ ~RingsKnown => Fresh
  /\ ~rdy => Fresh /\ hadm = HostSide /\ hout = {}

Done(c) == Among(c, aposted)

Life ==
  /\ hq \in {"boot", "none", "cq", "both", "closing"}
  /\ \A c, d \in hout \cap QueueCmds : c = d
  /\ "num_queues" \in hout => hq = "boot"
  /\ "create_cq" \in hout => hq = "none"
  /\ "create_sq" \in hout => hq = "cq"
  /\ "delete_sq" \in hout => hq = "both"
  /\ "delete_cq" \in hout => hq = "closing"
  /\ sq \in BOOLEAN
  /\ sq <=> \/ hq = "cq" /\ Done("create_sq")
            \/ hq = "both" /\ ~Done("delete_sq")
  /\ cq # NULL <=> \/ hq = "none" /\ Done("create_cq")
                   \/ hq \in {"cq", "both"}
                   \/ hq = "closing" /\ ~Done("delete_cq")

IoFrom == Taken("sq", old_dbs["sq"], QSize)
IoGap == IF sq THEN Gap(IoFrom, hio.tail, QSize) ELSE 0
IoSlots == IF sq THEN Between(IoFrom, hio.tail, QSize) ELSE {}

IoTypes ==
  /\ sqe \in [Slots(QSize) -> Tags \cup {NULL}]
  /\ cqe \in [Slots(QSize) -> CqeType(Tags)]
  /\ cq \in {NULL} \cup [head : Slots(QSize), phase : {0, 1}, ready : BOOLEAN]
  /\ hio \in SideType(QSize)
  /\ busy \subseteq Tags
  /\ posted \in Seq(Tags)
  /\ worker \in {"pass", "filled", "signal"}

IoInv ==
  /\ IoTypes
  /\ dbs["sq"] \in Slots(QSize) /\ old_dbs["sq"] \in Slots(QSize)
  /\ sq => dbs["sq"] = hio.tail
  /\ disp.pc = "sq" => sq
  /\ Fetching("sq", IoFrom, hio.tail, QSize)
  /\ SplitUp(busy, sqe, IoSlots, work, posted)
  /\ Cardinality(busy) = IoGap + Cardinality(work) + Len(posted)

IoRing ==
  /\ RingOk(cqe, QSize, hio.head, hio.phase, posted)
  /\ cq # NULL =>
       IF worker = "filled"
       THEN EndAt(Step(cq.head, QSize), Flip(cq.head, cq.phase, QSize),
                  hio.head, hio.phase, Len(posted), QSize)
       ELSE EndAt(cq.head, cq.phase, hio.head, hio.phase, Len(posted), QSize)

IoQuiet ==
  /\ hq \in {"boot", "none", "cq"} \/ "delete_cq" \in hout => busy = {}
  /\ hq \in {"boot", "none", "cq", "closing"} \/ "delete_sq" \in hout =>
       work = {} /\ worker # "filled" /\ disp.pc # "sq" /\ IoGap = 0
  /\ "create_cq" \in hout \/ hq = "cq" => hio = HostSide

\* The dispatcher, and which doorbells there are.
Pcs == {"idle", "bar_asq", "bar_acq", "bar_cc", "asq", "sq", "astray"}

Disp ==
  /\ disp \in [pc : Pcs, seq : Nat, num : Nat]
  /\ disp.pc = "idle" => disp = Idle
  /\ DOMAIN dbs = Doorbells /\ DOMAIN old_dbs = Doorbells

Flags == nr_sq \in {0, 1} /\ irq \subseteq {0, 1} /\ handling \subseteq {0, 1}

ControllerInv ==
  RegsInv /\ Disp /\ Flags /\ AdmInv /\ Life /\ IoInv /\ IoRing /\ IoQuiet

-----------------------------------------------------------------------------
LEMMA AdvanceHead ==
  ASSUME NEW n \in Nat, NEW q \in [head : Slots(n), phase : {0, 1}]
  PROVE  /\ Advance(q, n) \in [head : Slots(n), phase : {0, 1}]
         /\ Advance(q, n).head = Step(q.head, n)
         /\ Advance(q, n).phase = Flip(q.head, q.phase, n)
<1>1. q.head + 1 = n => 0 \in Slots(n) /\ 1 - q.phase \in {0, 1}
  BY DEF Slots
<1>2. q.head + 1 # n => q.head + 1 \in Slots(n)
  BY DEF Slots
<1> QED BY <1>1, <1>2 DEF Advance, Step, Flip

LEMMA AdvanceSide ==
  ASSUME NEW n \in Nat, NEW q \in SideType(n)
  PROVE  /\ Advance(q, n) \in SideType(n)
         /\ Advance(q, n).tail = q.tail
         /\ Advance(q, n).head = Step(q.head, n)
         /\ Advance(q, n).phase = Flip(q.head, q.phase, n)
<1>1. q.head + 1 = n => 0 \in Slots(n) /\ 1 - q.phase \in {0, 1}
  BY DEF SideType, Slots
<1>2. q.head + 1 # n => q.head + 1 \in Slots(n)
  BY DEF SideType, Slots
<1> QED BY <1>1, <1>2 DEF Advance, Step, Flip, SideType

LEMMA AdvanceCq ==
  ASSUME NEW n \in Nat, NEW q \in [head : Slots(n), phase : {0, 1}, ready : BOOLEAN], NEW q1,
         q1 = [Advance(q, n) EXCEPT !.ready = TRUE]
  PROVE  /\ q1 \in [head : Slots(n), phase : {0, 1}, ready : BOOLEAN]
         /\ q1.head = Step(q.head, n)
         /\ q1.phase = Flip(q.head, q.phase, n)
<1>1. q.head + 1 = n => 0 \in Slots(n) /\ 1 - q.phase \in {0, 1}
  BY DEF Slots
<1>2. q.head + 1 # n => q.head + 1 \in Slots(n)
  BY DEF Slots
<1> QED BY <1>1, <1>2 DEF Advance, Step, Flip

\* Doorbell arithmetic: positions and distances in a ring.
LEMMA RingMod ==
  ASSUME NEW n \in Nat, NEW a \in Slots(n), NEW k \in Nat, k < n
  PROVE  /\ (a + k) % n \in Slots(n)
         /\ (a + 0) % n = a
         /\ (a + (k + 1)) % n = Step((a + k) % n, n)
         /\ \A b \in Slots(n) : (b - a) % n = Gap(a, b, n)
<1>1. n > 0 /\ a \in Nat /\ a < n
  BY DEF Slots
<1>2. (a + k) % n = IF a + k < n THEN a + k ELSE a + k - n
  BY <1>1, ModLess
<1>3. a + (k + 1) < 2 * n =>
        (a + (k + 1)) % n = IF a + (k + 1) < n THEN a + (k + 1) ELSE a + (k + 1) - n
  BY <1>1, ModLess
<1>4. (a + 0) % n = a
  BY <1>1, ModLess
<1>5. ASSUME NEW b \in Slots(n) PROVE (b - a) % n = Gap(a, b, n)
  BY <1>1 DEF Slots, Gap
<1> QED BY <1>1, <1>2, <1>3, <1>4, <1>5 DEF Slots, Step

LEMMA TakenSlot ==
  ASSUME NEW q, NEW n \in Nat, NEW a \in Slots(n), NEW tail \in Slots(n),
         Fetching(q, Taken(q, a, n), tail, n)
  PROVE  Taken(q, a, n) \in Slots(n)
<1>1. CASE disp.pc = q
  <2>1. disp.seq \in Nat /\ disp.seq < n
    BY <1>1 DEF Fetching, Slots
  <2> QED BY <1>1, <2>1, RingMod DEF Taken
<1>2. CASE disp.pc # q
  BY <1>2 DEF Taken
<1> QED BY <1>1, <1>2

LEMMA AdmFacts ==
  ASSUME AdmInv
  PROVE  /\ AqDepth \in Nat /\ AqDepth > 1
         /\ AFrom \in Slots(AqDepth) /\ hadm.tail \in Slots(AqDepth)
         /\ hadm.head \in Slots(AqDepth) /\ hadm.phase \in {0, 1}
         /\ Len(aposted) \in Nat /\ Len(aposted) < AqDepth
         /\ Gap(AFrom, hadm.tail, AqDepth) \in Nat
         /\ IsFiniteSet(hout)
<1>1. AqDepth \in Nat /\ AqDepth > 1
  BY ControllerAssumption
<1>2. /\ hadm.tail \in Slots(AqDepth) /\ hadm.head \in Slots(AqDepth) /\ hadm.phase \in {0, 1}
      /\ Len(aposted) \in Nat
  BY LenProperties DEF AdmInv, AdmTypes, SideType
<1>3. AFrom \in Slots(AqDepth)
  BY <1>1, <1>2, TakenSlot DEF AdmInv, AFrom
<1>4. Gap(AFrom, hadm.tail, AqDepth) \in Nat
  BY <1>1, <1>2, <1>3, StepGap
<1>5. IsFiniteSet(hout)
  <2>1. IsFiniteSet(AdminCmds)
    <3>1. ASSUME NEW x, NEW y, NEW z PROVE IsFiniteSet({x, y, z})
      <4>1. IsFiniteSet({x} \cup {y})
        BY FS_Singleton, FS_AddElement
      <4>2. IsFiniteSet(({x} \cup {y}) \cup {z})
        BY <4>1, FS_AddElement
      <4> QED BY <4>2
    <3>2. AdminCmds = {"num_queues", "create_cq", "create_sq"}
                        \cup {"delete_sq", "delete_cq", "other"}
      BY DEF AdminCmds, QueueCmds
    <3>3. /\ IsFiniteSet({"num_queues", "create_cq", "create_sq"})
          /\ IsFiniteSet({"delete_sq", "delete_cq", "other"})
      BY <3>1
    <3> QED BY <3>2, <3>3, FS_Union
  <2> QED BY <2>1, FS_Subset DEF AdmInv, AdmTypes
<1> QED BY <1>1, <1>2, <1>3, <1>4, <1>5 DEF AdmInv

\* Steps that do not touch the admin queue.
LEMMA AdmAside ==
  ASSUME AdmInv, UNCHANGED <<old_bar, rdy, admin_q, asqe, acqe, hadm, hout, aposted>>,
         dbs'["asq"] = dbs["asq"], old_dbs'["asq"] = old_dbs["asq"],
         disp' = disp \/ (disp.pc # "asq" /\ disp'.pc # "asq")
  PROVE  AdmInv'
<1>1. AFrom' = AFrom
  BY DEF AFrom, Taken
<1>2. Fetching("asq", AFrom, hadm.tail, AqDepth)'
  BY <1>1 DEF AdmInv, Fetching
<1>3. AdmTypes'
  BY DEF AdmInv, AdmTypes
<1>4. Rung' /\ (Fresh => Fresh') /\ RingsKnown' = RingsKnown
  BY DEF AdmInv, Rung, Fresh, RingsKnown
<1> QED BY <1>1, <1>2, <1>3, <1>4 DEF AdmInv

\* A register is noticed before any admin command has been carried out: what
\* the pass sets back is at its start, but for the host's doorbell.
LEMMA AdmReset ==
  ASSUME AdmInv, Fresh, UNCHANGED <<asqe, acqe, hadm, hout, aposted>>,
         old_dbs'["asq"] = 0, dbs'["asq"] \in {0, dbs["asq"]},
         admin_q' \in {NULL, [head |-> 0, phase |-> 1]}, rdy' => admin_q' # NULL, rdy => rdy',
         disp.pc # "asq", disp'.pc # "asq"
  PROVE  AdmInv'
<1>1. AFrom = 0 /\ AFrom' = 0 /\ hadm.head = 0 /\ hadm.phase = 1 /\ Len(aposted) = 0
  BY DEF AFrom, Taken, Fresh
<1>2. 0 \in Slots(AqDepth) /\ [head |-> 0, phase |-> 1] \in [head : Slots(AqDepth), phase : {0, 1}]
  BY ControllerAssumption DEF Slots
<1>3. AdmTypes'
  BY <1>2 DEF AdmInv, AdmTypes
<1>4. rdy' => EndAt(admin_q.head, admin_q.phase, hadm.head, hadm.phase, Len(aposted), AqDepth)'
  BY <1>1 DEF EndAt, Gap, Expected
<1>5. Fetching("asq", AFrom, hadm.tail, AqDepth)'
  BY DEF Fetching
<1>6. Rung' /\ Fresh'
  BY DEF AdmInv, Rung, Fresh
<1> QED BY <1>1, <1>2, <1>3, <1>4, <1>5, <1>6 DEF AdmInv

LEMMA AdmBars ==
  ASSUME RegsInv, AdmInv, Disp, ProcBars
  PROVE  AdmInv' /\ disp.pc \notin {"asq", "sq"} /\ disp'.pc \notin {"asq", "sq"}
<1>1. /\ UNCHANGED <<asqe, acqe, hadm, hout, aposted>>
      /\ disp.pc \notin {"asq", "sq"} /\ disp'.pc \notin {"asq", "sq"}
  BY DEF ProcBars, BarAqa, BarAsq, BarAcq, BarCc, Found, NotFound, At, Idle, At,
         ringVars, hostVars, histVars
<1>2. CASE BarAqa
  <2>1. admin_q = NULL
    BY <1>2, SetValues DEF BarAqa, Found, Changed, RegsInv
  <2>2. ~rdy /\ Fresh
    BY <2>1 DEF RegsInv, AdmInv
  <2>3. admin_q' = [head |-> 0, phase |-> 1] /\ dbs'["asq"] = 0 /\ old_dbs'["asq"] = 0 /\ rdy' = rdy
    BY <1>2 DEF BarAqa, Disp, Doorbells
  <2> QED BY <1>1, <2>2, <2>3, AdmReset
<1>3. ASSUME BarAsq \/ BarAcq PROVE AdmInv'
  <2>1. Fresh
    <3>1. ~RingsKnown
      BY <1>3, SetValues DEF BarAsq, BarAcq, Found, Changed, RegsInv, RingsKnown
    <3> QED BY <3>1 DEF AdmInv
  <2>2. /\ old_dbs'["asq"] = 0 /\ dbs'["asq"] \in {0, dbs["asq"]} /\ rdy' = rdy
        /\ admin_q' \in {NULL, [head |-> 0, phase |-> 1]} /\ (admin_q' = NULL => admin_q = NULL)
    <3>1. CASE BarAsq
      BY <2>1, <3>1 DEF BarAsq, Fresh, Disp, Doorbells
    <3>2. CASE BarAcq
      <4>1. CASE admin_q = NULL
        BY <2>1, <3>2, <4>1 DEF BarAcq, Fresh
      <4>2. CASE admin_q # NULL
        <5>1. admin_q = [head |-> 0, phase |-> 1] /\ admin_q' = [admin_q EXCEPT !.head = 0]
          BY <2>1, <3>2, <4>2 DEF BarAcq, Fresh
        <5>2. admin_q' = admin_q
          BY <5>1
        <5> QED BY <2>1, <3>2, <4>2, <5>1, <5>2 DEF BarAcq, Fresh
      <4> QED BY <4>1, <4>2
    <3> QED BY <1>3, <3>1, <3>2
  <2> QED BY <1>1, <2>1, <2>2, AdmReset DEF RegsInv
<1>4. CASE BarCc
  <2>1. UNCHANGED <<admin_q, dbs, old_dbs>> /\ rdy' = (admin_q # NULL) /\ (RingsKnown' <=> RingsKnown)
    BY <1>4 DEF BarCc, Seen, RingsKnown, RegsInv
  <2>2. CASE rdy
    <3>1. rdy' /\ AFrom' = AFrom /\ Rung' /\ (Fresh => Fresh') /\ AdmTypes'
      BY <1>1, <2>1, <2>2 DEF RegsInv, AFrom, Taken, AdmInv, Rung, Fresh, AdmTypes
    <3>2. Fetching("asq", AFrom, hadm.tail, AqDepth)'
      BY <1>1 DEF Fetching
    <3> QED BY <1>1, <2>1, <2>2, <3>1, <3>2 DEF AdmInv
  <2>3. CASE ~rdy
    BY <1>1, <2>1, <2>3, AdmReset DEF AdmInv, Fresh
  <2> QED BY <2>2, <2>3
<1>5. ASSUME NEW pc, NEW r, NEW next, NotFound(pc, r, next) PROVE AdmInv'
  BY <1>1, <1>5, AdmAside DEF NotFound
<1> QED BY <1>1, <1>2, <1>3, <1>4, <1>5 DEF ProcBars

LEMMA AdmSee ==
  ASSUME AdmInv, SeeDoorbell("asq", AqDepth)
  PROVE  AdmInv'
<1> DEFINE n == AqDepth
           num == (hadm.tail - old_dbs["asq"]) % n
<1>1. /\ disp = Idle /\ hadm.tail # old_dbs["asq"] /\ dbs["asq"] = hadm.tail
      /\ disp' = [pc |-> "asq", seq |-> 0, num |-> num]
      /\ UNCHANGED <<old_bar, rdy, admin_q, asqe, acqe, hadm, hout, aposted, dbs, old_dbs>>
  BY DEF SeeDoorbell, AdmInv, Rung, devVars, ringVars, hostVars, histVars
<1>2. AFrom = old_dbs["asq"]
  BY <1>1 DEF AFrom, Taken, Idle, At
<1>3. n \in Nat /\ n > 1 /\ old_dbs["asq"] \in Slots(n) /\ hadm.tail \in Slots(n)
  BY AdmFacts DEF AdmInv
<1>4. /\ (old_dbs["asq"] + 0) % n = old_dbs["asq"]
      /\ num = Gap(old_dbs["asq"], hadm.tail, n)
  BY <1>3, RingMod
<1>5. num \in Slots(n)
  <2>1. Gap(old_dbs["asq"], hadm.tail, n) \in Nat /\ Gap(old_dbs["asq"], hadm.tail, n) < n
    BY <1>3, StepGap
  <2> HIDE DEF num
  <2> QED BY <1>3, <1>4, <2>1 DEF Slots
<1>6. AFrom' = AFrom
  BY <1>1, <1>2, <1>4 DEF AFrom, Taken
<1>7. Fetching("asq", AFrom, hadm.tail, AqDepth)'
  <2>1. num \in Nat /\ num - 0 <= num /\ 0 <= num
    BY <1>5 DEF Slots
  <2> HIDE DEF num
  <2> QED BY <1>1, <1>2, <1>4, <1>5, <1>6, <2>1 DEF Fetching
<1>8. rdy
  BY <1>1 DEF AdmInv, Fresh, HostSide
<1>9. AdmTypes'
  BY <1>1 DEF AdmInv, AdmTypes
<1>10. Rung' /\ (Fresh => Fresh') /\ RingsKnown' = RingsKnown
  BY <1>1 DEF Rung, Fresh, RingsKnown
<1> QED BY <1>1, <1>6, <1>7, <1>8, <1>9, <1>10 DEF AdmInv

\* The rings are not known yet: the dispatcher is lost.
LEMMA AdmLost ==
  ASSUME AdmInv, AdminAstray
  PROVE  AdmInv'
<1>1. /\ disp.pc = "asq" /\ disp'.pc = "astray" /\ ~RingsKnown
      /\ UNCHANGED <<old_bar, rdy, admin_q, asqe, acqe, hadm, hout, aposted, dbs, old_dbs>>
  BY DEF AdminAstray, At, devVars, ringVars, hostVars, histVars
<1>2. Fresh
  BY <1>1 DEF AdmInv
<1>3. AFrom = 0 /\ AFrom' = 0
  <2>1. AFrom = (0 + 0) % AqDepth
    BY <1>1, <1>2 DEF AFrom, Taken, Fresh
  <2>2. (0 + 0) % AqDepth = 0
    BY ControllerAssumption
  <2> QED BY <1>1, <1>2, <2>1, <2>2 DEF AFrom, Taken, Fresh
<1>4. Fetching("asq", AFrom, hadm.tail, AqDepth)'
  BY <1>1 DEF Fetching
<1>5. AdmTypes' /\ Rung' /\ Fresh'
  BY <1>1, <1>2 DEF AdmInv, AdmTypes, Rung, Fresh
<1> QED BY <1>1, <1>3, <1>4, <1>5 DEF AdmInv

LEMMA AdmEnd ==
  ASSUME AdmInv, Disp, EndAdmin
  PROVE  AdmInv'
<1>1. /\ disp.pc = "asq" /\ disp.seq = disp.num /\ disp' = Idle
      /\ old_dbs' = [old_dbs EXCEPT !["asq"] = (@ + disp.num) % AqDepth]
      /\ UNCHANGED <<old_bar, rdy, admin_q, asqe, acqe, hadm, hout, aposted, dbs>>
  BY DEF EndAdmin, ringVars, hostVars, histVars
<1>2. AFrom = (old_dbs["asq"] + disp.num) % AqDepth
  BY <1>1 DEF AFrom, Taken
<1>3. old_dbs'["asq"] = AFrom
  BY <1>1, <1>2 DEF Disp, Doorbells
<1>4. AFrom' = AFrom /\ AFrom \in Slots(AqDepth)
  BY <1>1, <1>3, AdmFacts DEF AFrom, Taken, Idle, At
<1>5. Fetching("asq", AFrom, hadm.tail, AqDepth)'
  BY <1>1 DEF Fetching, Idle, At
<1>6. AdmTypes'
  BY <1>1 DEF AdmInv, AdmTypes
<1>7. rdy /\ disp'.pc # "asq"
  BY <1>1 DEF AdmInv, Idle, At
<1>8. Rung' /\ RingsKnown' = RingsKnown
  BY <1>1 DEF AdmInv, Rung, RingsKnown
<1>9. Fresh => Fresh'
  <2>1. ASSUME Fresh PROVE AFrom = 0
    <3>1. AFrom = (0 + 0) % AqDepth
      BY <1>1, <2>1 DEF AFrom, Taken, Fresh
    <3> QED BY <3>1, ControllerAssumption
  <2> QED BY <1>1, <1>3, <1>7, <2>1 DEF Fresh
<1> QED BY <1>1, <1>3, <1>4, <1>5, <1>6, <1>7, <1>8, <1>9 DEF AdmInv

\* nvmev_proc_admin_sq: a command leaves its slot and is answered.
LEMMA AdmTake ==
  ASSUME RegsInv, AdmInv, Disp, AdminReq
  PROVE  /\ AdmInv'
         /\ asqe[AFrom] \in hout /\ ~Done(asqe[AFrom])
         /\ \A c : Done(c)' <=> Done(c) \/ c = asqe[AFrom]
<1> DEFINE n == AqDepth
           s == AFrom
           c == asqe[s]
           g == Gap(s, hadm.tail, n)
<1>0. (old_dbs["asq"] + disp.seq) % AqDepth = s /\ disp.pc = "asq" /\ disp.seq < disp.num
  BY DEF AdminReq, AFrom, Taken
<1>1. /\ asqe' = [asqe EXCEPT ![s] = NULL]
      /\ acqe' = [acqe EXCEPT ![admin_q.head] = [cid |-> c, phase |-> admin_q.phase]]
      /\ aposted' = Append(aposted, c)
      /\ admin_q' = Advance(admin_q, n)
      /\ disp' = [disp EXCEPT !.seq = @ + 1]
      /\ UNCHANGED <<rdy, hadm, hout>> /\ RingsKnown' /\ Rung'
      /\ dbs'["asq"] = dbs["asq"] /\ old_dbs'["asq"] = old_dbs["asq"]
  BY <1>0 DEF AdminReq, AdminEffect, hostVars, Disp, Doorbells, RingsKnown, AdmInv, Rung
<1>2. /\ n \in Nat /\ n > 1 /\ s \in Slots(n) /\ hadm.tail \in Slots(n) /\ g \in Nat
      /\ hadm.head \in Slots(n) /\ hadm.phase \in {0, 1}
  BY AdmFacts
<1>3. /\ disp.seq \in Nat /\ disp.num \in Slots(n) /\ disp.num - disp.seq <= g
  BY <1>0 DEF AdmInv, Fetching
<1>4. g > 0 /\ s # hadm.tail /\ disp.seq < n
  <2>1. g = 0 <=> s = hadm.tail
    BY <1>2, StepGap
  <2> HIDE DEF g, n
  <2> QED BY <1>0, <1>2, <1>3, <2>1 DEF Slots
<1>5. AFrom' = Step(s, n)
  <2>1. AFrom' = (old_dbs["asq"] + (disp.seq + 1)) % n
    BY <1>0, <1>1 DEF AFrom, Taken, Disp
  <2>2. old_dbs["asq"] \in Slots(n)
    BY DEF AdmInv
  <2> QED BY <1>0, <1>2, <1>3, <1>4, <2>1, <2>2, RingMod
<1>6. rdy /\ admin_q # NULL /\ admin_q \in [head : Slots(n), phase : {0, 1}]
  BY <1>0 DEF AdmInv, AdmTypes, RegsInv
<1>7. aposted \in Seq(AdminCmds) /\ hout \subseteq AdminCmds /\ DOMAIN asqe = Slots(n)
      /\ DOMAIN acqe = Slots(n)
  BY DEF AdmInv, AdmTypes
<1> DEFINE B == Between(s, hadm.tail, n)
           B1 == Between(Step(s, n), hadm.tail, n)
<1>8. s \in B /\ B1 = B \ {s} /\ B \subseteq Slots(n)
  BY <1>2, <1>4, Take DEF Between
<1>9. Gap(Step(s, n), hadm.tail, n) = g - 1
  BY <1>2, <1>4, StepGap
<1> HIDE DEF s, g, n, B, B1
<1>10. SplitUp(hout, asqe, B, {}, aposted)
  BY DEF AdmInv, B, s, n
<1>11. SplitUp(hout, [asqe EXCEPT ![s] = NULL], B \ {s}, {} \cup {c}, aposted) /\ c \in hout
  BY <1>7, <1>8, <1>10, SplitAccept
<1>12. c \in AdminCmds /\ c \in {} \cup {c}
  BY <1>7, <1>11
<1> HIDE DEF c
<1>13. SplitUp(hout, [asqe EXCEPT ![s] = NULL], B \ {s}, ({} \cup {c}) \ {c}, Append(aposted, c))
  BY <1>7, <1>11, <1>12, SplitPost
<1>14. SplitUp(hout, asqe', B1, {}, aposted')
  <2>1. ({} \cup {c}) \ {c} = {}
    OBVIOUS
  <2> QED BY <1>1, <1>8, <1>13, <2>1
<1>15. Cardinality(hout) = g + Len(aposted) /\ Len(aposted) \in Nat /\ Cardinality(hout) < n
  BY <1>7, LenProperties DEF AdmInv, g, n, s
<1>16. Len(aposted') = Len(aposted) + 1 /\ aposted' \in Seq(AdminCmds)
  BY <1>1, <1>7, <1>12, AppendProperties
<1>17. Len(aposted) + 1 < n
  BY <1>2, <1>4, <1>15
<1>18. /\ RingOk(acqe, n, hadm.head, hadm.phase, aposted)
       /\ EndAt(admin_q.head, admin_q.phase, hadm.head, hadm.phase, Len(aposted), n)
  BY <1>6 DEF AdmInv, n
<1>19. /\ RingOk([acqe EXCEPT ![admin_q.head] = [cid |-> c, phase |-> admin_q.phase]], n,
                 hadm.head, hadm.phase, Append(aposted, c))
       /\ EndAt(Step(admin_q.head, n), Flip(admin_q.head, admin_q.phase, n),
                hadm.head, hadm.phase, Len(Append(aposted, c)), n)
  <2>1. admin_q.head \in Slots(n)
    BY <1>6
  <2> QED BY <1>2, <1>7, <1>12, <1>17, <1>18, <2>1, Post
<1>20. /\ admin_q' \in [head : Slots(n), phase : {0, 1}]
       /\ admin_q'.head = Step(admin_q.head, n)
       /\ admin_q'.phase = Flip(admin_q.head, admin_q.phase, n)
  BY <1>1, <1>2, <1>6, AdvanceHead
<1>21. AdmTypes'
  <2>1. asqe' \in [Slots(AqDepth) -> AdminCmds \cup {NULL}]
    BY <1>1 DEF AdmInv, AdmTypes
  <2>2. acqe' \in [Slots(AqDepth) -> CqeType(AdminCmds)]
    BY <1>1, <1>6, <1>12 DEF AdmInv, AdmTypes, CqeType
  <2> QED BY <1>1, <1>16, <1>20, <2>1, <2>2 DEF AdmInv, AdmTypes, n
<1>22. Fetching("asq", AFrom, hadm.tail, AqDepth)'
  <2>1. disp'.pc = "asq" /\ disp'.seq = disp.seq + 1 /\ disp'.num = disp.num
    BY <1>0, <1>1 DEF Disp
  <2>2. disp.num \in Nat
    BY <1>2, <1>3 DEF Slots
  <2>3. disp.seq + 1 \in Nat /\ disp.seq + 1 <= disp.num /\ disp.num - (disp.seq + 1) <= g - 1
    BY <1>0, <1>2, <1>3, <2>2
  <2> QED BY <1>1, <1>3, <1>5, <1>9, <2>1, <2>3 DEF Fetching, n
<1>23. AdmInv'
  <2>1. SplitUp(hout, asqe, Between(AFrom, hadm.tail, AqDepth), {}, aposted)'
    BY <1>1, <1>5, <1>14 DEF B1, n
  <2>2. (Cardinality(hout) = Gap(AFrom, hadm.tail, AqDepth) + Len(aposted))'
    <3>1. g + Len(aposted) = (g - 1) + (Len(aposted) + 1)
      BY <1>2, <1>15
    <3> QED BY <1>1, <1>5, <1>9, <1>15, <1>16, <3>1 DEF n
  <2>3. RingOk(acqe, AqDepth, hadm.head, hadm.phase, aposted)'
    BY <1>1, <1>19 DEF n
  <2>4. EndAt(admin_q.head, admin_q.phase, hadm.head, hadm.phase, Len(aposted), AqDepth)'
    BY <1>1, <1>19, <1>20 DEF n
  <2> QED BY <1>1, <1>6, <1>21, <1>22, <2>1, <2>2, <2>3, <2>4 DEF AdmInv
<1>24. ~Done(c)
  BY <1>8, <1>10 DEF SplitUp, Done, Among, c
<1>25. \A x : Done(x)' <=> Done(x) \/ x = c
  <2>1. /\ Len(aposted) \in Nat /\ Len(aposted') = Len(aposted) + 1
        /\ \A k \in 1 .. Len(aposted) : aposted'[k] = aposted[k]
        /\ aposted'[Len(aposted) + 1] = c
    BY <1>1, <1>7, <1>12, <1>15, AppendProperties
  <2>2. \A k \in 1 .. Len(aposted) + 1 : k \in 1 .. Len(aposted) \/ k = Len(aposted) + 1
    BY <2>1
  <2>3. /\ Len(aposted) + 1 \in 1 .. Len(aposted) + 1
        /\ 1 .. Len(aposted) \subseteq 1 .. Len(aposted) + 1
    BY <2>1
  <2> QED BY <2>1, <2>2, <2>3 DEF Done, Among
<1> QED BY <1>11, <1>23, <1>24, <1>25 DEF c, s

\* The host rings the doorbell of the admin queue.
LEMMA AdmSubmit ==
  ASSUME AdmInv, Disp, NEW c \in AdminCmds, SubmitAdmin(c)
  PROVE  AdmInv'
<1> DEFINE n == AqDepth
           t == hadm.tail
           B == Between(AFrom, t, n)
           g == Gap(AFrom, t, n)
<1>1. /\ rdy /\ Cardinality(hout) < n - 1 /\ c \notin hout
      /\ asqe' = [asqe EXCEPT ![t] = c]
      /\ hadm' = [hadm EXCEPT !.tail = (@ + 1) % n]
      /\ dbs' = [dbs EXCEPT !["asq"] = (t + 1) % n]
      /\ hout' = hout \cup {c}
      /\ UNCHANGED <<old_bar, rdy, admin_q, acqe, old_dbs, disp, aposted>>
  BY DEF SubmitAdmin, MayIssue, devVars, histVars
<1>2. /\ n \in Nat /\ n > 1 /\ AFrom \in Slots(n) /\ t \in Slots(n) /\ g \in Nat
      /\ Len(aposted) \in Nat /\ IsFiniteSet(hout)
  BY AdmFacts
<1>3. (t + 1) % n = Step(t, n) /\ Step(t, n) \in Slots(n)
  <2>1. (t + (0 + 1)) % n = Step((t + 0) % n, n) /\ (t + 0) % n = t
    BY <1>2, RingMod
  <2>2. t + (0 + 1) = t + 1
    OBVIOUS
  <2> QED BY <1>2, <2>1, <2>2, StepGap
<1>4. /\ hadm'.tail = Step(t, n) /\ hadm'.head = hadm.head /\ hadm'.phase = hadm.phase
      /\ hadm' \in SideType(n)
  <2>1. hadm \in SideType(n)
    BY DEF AdmInv, AdmTypes
  <2> HIDE DEF n
  <2> QED BY <1>1, <1>3, <2>1 DEF SideType
<1>5. dbs'["asq"] = Step(t, n)
  BY <1>1, <1>3 DEF Disp, Doorbells
<1>6. AFrom' = AFrom
  BY <1>1 DEF AFrom, Taken
<1>7. Cardinality(hout) = g + Len(aposted) /\ Cardinality(hout') = Cardinality(hout) + 1
  BY <1>1, <1>2, FS_AddElement DEF AdmInv
<1>8. g + 1 < n
  <2>1. g + Len(aposted) < n - 1
    BY <1>1, <1>7
  <2> HIDE DEF g, n
  <2> QED BY <1>2, <2>1
<1>9. Gap(AFrom, Step(t, n), n) = g + 1
  BY <1>2, <1>8, StepGap
<1>10. Between(AFrom, Step(t, n), n) = B \cup {t} /\ t \notin B /\ B \subseteq Slots(n)
  BY <1>2, <1>8, Push DEF Between
<1> HIDE DEF n, t, B, g
<1>11. SplitUp(hout \cup {c}, [asqe EXCEPT ![t] = c], B \cup {t}, {}, aposted)
  <2>1. SplitUp(hout, asqe, B, {}, aposted) /\ DOMAIN asqe = Slots(n)
    BY DEF AdmInv, AdmTypes, B, n, t
  <2> QED BY <1>1, <1>2, <1>10, <2>1, SplitSubmit
<1>12. AdmTypes'
  <2>1. asqe' \in [Slots(AqDepth) -> AdminCmds \cup {NULL}]
    BY <1>1 DEF AdmInv, AdmTypes
  <2> QED BY <1>1, <1>4, <2>1 DEF AdmInv, AdmTypes, n
<1>13. Fetching("asq", AFrom, hadm.tail, AqDepth)'
  <2>1. disp.pc = "asq" => /\ disp.seq \in Nat /\ disp.num \in Slots(n) /\ disp.seq <= disp.num
                           /\ disp.num - disp.seq <= g
    BY DEF AdmInv, Fetching, g, t, n
  <2>2. disp.pc = "asq" => disp.num - disp.seq <= g + 1
    BY <1>2, <2>1 DEF Slots
  <2> QED BY <1>1, <1>4, <1>6, <1>9, <2>1, <2>2 DEF Fetching, n
<1>14. SplitUp(hout, asqe, Between(AFrom, hadm.tail, AqDepth), {}, aposted)'
  BY <1>1, <1>4, <1>6, <1>10, <1>11 DEF n
<1>15. (Cardinality(hout) = Gap(AFrom, hadm.tail, AqDepth) + Len(aposted)
        /\ Cardinality(hout) < AqDepth)'
  <2>1. g + Len(aposted) + 1 = (g + 1) + Len(aposted) /\ g + Len(aposted) + 1 < n
    BY <1>1, <1>2, <1>7
  <2> QED BY <1>1, <1>4, <1>6, <1>7, <1>9, <2>1 DEF n
<1>16. RingOk(acqe, AqDepth, hadm.head, hadm.phase, aposted)'
  BY <1>1, <1>4 DEF AdmInv
<1>17. EndAt(admin_q.head, admin_q.phase, hadm.head, hadm.phase, Len(aposted), AqDepth)'
  BY <1>1, <1>4 DEF AdmInv
<1>18. old_dbs'["asq"] \in Slots(AqDepth)
  BY <1>1 DEF AdmInv
<1>19. Rung' /\ (Fresh => Fresh') /\ RingsKnown' = RingsKnown
  BY <1>1, <1>4, <1>5 DEF Rung, Fresh, RingsKnown
<1> QED BY <1>1, <1>4, <1>12, <1>13, <1>14, <1>15, <1>16, <1>17, <1>18, <1>19 DEF AdmInv

\* The host takes an answer: it is one of an outstanding command.
LEMMA AdmReap ==
  ASSUME RegsInv, AdmInv, Disp, ReapAdmin, acqe[hadm.head].phase = hadm.phase
  PROVE  /\ AdmInv'
         /\ acqe[hadm.head].cid \in hout /\ Done(acqe[hadm.head].cid)
         /\ hout' = hout \ {acqe[hadm.head].cid}
         /\ \A c : Done(c) <=> Done(c)' \/ c = acqe[hadm.head].cid
         /\ ~Among(acqe[hadm.head].cid, aposted')
<1> DEFINE n == AqDepth
           h == hadm.head
           c == acqe[h].cid
           g == Gap(AFrom, hadm.tail, n)
<1>1. /\ hadm' = Advance(hadm, n)
      /\ hout' = hout \ {c}
      /\ acqe' = Cleared(acqe, h)
      /\ aposted' = Tail(aposted)
      /\ UNCHANGED <<old_bar, rdy, admin_q, asqe, dbs, old_dbs, disp>>
  BY DEF ReapAdmin, devVars, Cleared
<1>2. /\ n \in Nat /\ n > 1 /\ AFrom \in Slots(n) /\ hadm.tail \in Slots(n) /\ g \in Nat
      /\ h \in Slots(n) /\ hadm.phase \in {0, 1}
      /\ Len(aposted) \in Nat /\ Len(aposted) < n /\ IsFiniteSet(hout)
  BY AdmFacts
<1>3. /\ aposted \in Seq(AdminCmds) /\ hadm \in SideType(n)
      /\ DOMAIN acqe = Slots(n) /\ RingOk(acqe, n, h, hadm.phase, aposted)
      /\ acqe[h].phase = hadm.phase
  BY DEF AdmInv, AdmTypes
<1>4. /\ hadm' \in SideType(n) /\ hadm'.tail = hadm.tail /\ hadm'.head = Step(h, n)
      /\ hadm'.phase = Flip(h, hadm.phase, n)
  BY <1>1, <1>2, <1>3, AdvanceSide
<1> DEFINE ph1 == Flip(h, hadm.phase, n)
<1> HIDE DEF n, h, g
<1>5. /\ aposted # << >> /\ c = Head(aposted)
      /\ RingOk(Cleared(acqe, h), n, Step(h, n), ph1, Tail(aposted))
  BY <1>2, <1>3, Reap
<1>6. ASSUME rdy
      PROVE  EndAt(admin_q.head, admin_q.phase, Step(h, n), ph1, Len(Tail(aposted)), n)
  <2>1. EndAt(admin_q.head, admin_q.phase, h, hadm.phase, Len(aposted), n)
    BY <1>6 DEF AdmInv, n, h
  <2>2. admin_q.head \in Slots(n)
    BY <1>6 DEF RegsInv, AdmInv, AdmTypes, n
  <2> QED BY <1>2, <1>3, <2>1, <2>2, Reap
<1>7. SplitUp(hout, asqe, Between(AFrom, hadm.tail, n), {}, aposted)
  BY DEF AdmInv, n
<1>8. /\ SplitUp(hout \ {c}, asqe, Between(AFrom, hadm.tail, n), {}, Tail(aposted))
      /\ c \in hout /\ c = aposted[1]
      /\ \A x : Among(x, aposted) <=> x = c \/ Among(x, Tail(aposted))
  BY <1>3, <1>5, <1>7, SplitReap
<1>9. /\ Len(Tail(aposted)) = Len(aposted) - 1 /\ Tail(aposted) \in Seq(AdminCmds)
      /\ Len(aposted) > 0
  BY <1>3, <1>5, HeadTailProperties, LenProperties, EmptySeq
<1> HIDE DEF c, ph1
<1>10. AFrom' = AFrom
  BY <1>1 DEF AFrom, Taken
<1>11. rdy
  BY <1>8 DEF AdmInv
<1>12. AdmTypes'
  <2>1. acqe' \in [Slots(AqDepth) -> CqeType(AdminCmds)]
    BY <1>1 DEF AdmInv, AdmTypes, CqeType, Cleared
  <2> QED BY <1>1, <1>4, <1>9, <2>1 DEF AdmInv, AdmTypes, n
<1>13. Fetching("asq", AFrom, hadm.tail, AqDepth)'
  BY <1>1, <1>4, <1>10 DEF AdmInv, Fetching
<1>14. SplitUp(hout, asqe, Between(AFrom, hadm.tail, AqDepth), {}, aposted)'
  BY <1>1, <1>4, <1>8, <1>10 DEF n
<1>15. (Cardinality(hout) = Gap(AFrom, hadm.tail, AqDepth) + Len(aposted)
        /\ Cardinality(hout) < AqDepth)'
  <2>1. Cardinality(hout) = g + Len(aposted) /\ Cardinality(hout) < n
    BY DEF AdmInv, g, n
  <2>2. Cardinality(hout') = Cardinality(hout) - 1
    BY <1>1, <1>2, <1>8, FS_RemoveElement
  <2>4. Gap(AFrom', hadm'.tail, n) = g
    BY <1>4, <1>10 DEF g
  <2>5. Cardinality(hout') = g + Len(aposted') /\ Cardinality(hout') < n
    BY <1>1, <1>2, <1>9, <2>1, <2>2
  <2> QED BY <2>4, <2>5 DEF n
<1>16. RingOk(acqe, AqDepth, hadm.head, hadm.phase, aposted)'
  BY <1>1, <1>4, <1>5 DEF n, ph1
<1>17. EndAt(admin_q.head, admin_q.phase, hadm.head, hadm.phase, Len(aposted), AqDepth)'
  BY <1>1, <1>4, <1>6, <1>11 DEF n, ph1
<1>21. RingsKnown' /\ Rung'
  BY <1>1, <1>4, <1>5 DEF AdmInv, Fresh, Rung, RingsKnown
<1>18. AdmInv'
  BY <1>1, <1>4, <1>11, <1>12, <1>13, <1>14, <1>15, <1>16, <1>17, <1>21 DEF AdmInv
<1>19. ~Among(c, aposted')
  <2>1. \A k \in 1 .. Len(Tail(aposted)) : Tail(aposted)[k] # c
    BY <1>8 DEF SplitUp
  <2> QED BY <1>1, <2>1 DEF Among
<1>20. \A x : Done(x) <=> Done(x)' \/ x = c
  BY <1>1, <1>8 DEF Done
<1> QED BY <1>1, <1>8, <1>18, <1>19, <1>20 DEF c, h

-----------------------------------------------------------------------------
(***************************************************************************)
(* The life of the I/O queues.                                             *)
(***************************************************************************)
LEMMA DoneOut ==
  ASSUME AdmInv, NEW c, Done(c)
  PROVE  c \in hout
BY DEF AdmInv, SplitUp, Done, Among

LEMMA LifeAside ==
  ASSUME Life, UNCHANGED <<hq, hout, sq, aposted>>, cq' = NULL <=> cq = NULL
  PROVE  Life'
BY DEF Life, Done

LEMMA NewCq ==
  /\ QSize \in Nat /\ QSize > 0 /\ 0 \in Slots(QSize) /\ Cardinality(Tags) \in Nat
  /\ [head |-> 0, phase |-> 1, ready |-> FALSE]
       \in [head : Slots(QSize), phase : {0, 1}, ready : BOOLEAN]
  /\ [head |-> 0, phase |-> 1, ready |-> FALSE] # NULL
<1>1. QSize \in Nat /\ QSize > 0 /\ Cardinality(Tags) \in Nat
  BY ControllerAssumption, FS_CardinalityType
<1>2. 0 \in Slots(QSize)
  BY <1>1 DEF Slots
<1>3. [head |-> 0, phase |-> 1, ready |-> FALSE]
        \in [head : Slots(QSize), phase : {0, 1}, ready : BOOLEAN]
  BY <1>2, Zenon
<1> QED BY <1>1, <1>2, <1>3, NullAssumption

\* A command is carried out.
LEMMA LifeTake ==
  ASSUME Life, NEW c \in hout, ~Done(c), AdminEffect(c), UNCHANGED <<hq, hout>>,
         \A x : Done(x)' <=> Done(x) \/ x = c,
         \A x : Done(x) => x \in hout
  PROVE  Life'
<1>1. /\ sq' = (c = "create_sq" \/ (sq /\ c # "delete_sq"))
      /\ cq' = CASE c = "create_cq" -> [head |-> 0, phase |-> 1, ready |-> FALSE]
                 [] c = "delete_cq" -> NULL
                 [] OTHER -> cq
  BY DEF AdminEffect
<1>2. c \in QueueCmds => \A x \in QueueCmds : x # c => x \notin hout /\ ~Done(x)
  BY DEF Life
<1>3. CASE c \notin QueueCmds
  <2>1. (sq' <=> sq) /\ sq' \in BOOLEAN /\ cq' = cq
    BY <1>1, <1>3 DEF QueueCmds, Life
  <2>2. \A x \in QueueCmds : Done(x)' <=> Done(x)
    BY <1>3
  <2> QED BY <2>1, <2>2 DEF Life, QueueCmds
<1>4. CASE c = "num_queues"
  <2>1. (sq' <=> sq) /\ sq' \in BOOLEAN /\ cq' = cq /\ hq = "boot"
    BY <1>1, <1>4 DEF Life
  <2> QED BY <1>4, <2>1 DEF Life
<1>5. CASE c = "create_cq"
  <2>1. (sq' <=> sq) /\ sq' \in BOOLEAN /\ cq' # NULL /\ hq = "none"
    BY <1>1, <1>5, NewCq DEF Life
  <2> QED BY <1>5, <2>1 DEF Life
<1>6. CASE c = "create_sq"
  <2>1. sq' = TRUE /\ cq' = cq /\ hq = "cq"
    BY <1>1, <1>6 DEF Life
  <2> QED BY <1>6, <2>1 DEF Life
<1>7. CASE c = "delete_sq"
  <2>1. sq' = FALSE /\ cq' = cq /\ hq = "both"
    BY <1>1, <1>7 DEF Life
  <2> QED BY <1>7, <2>1 DEF Life
<1>8. CASE c = "delete_cq"
  <2>1. (sq' <=> sq) /\ sq' \in BOOLEAN /\ cq' = NULL /\ hq = "closing"
    BY <1>1, <1>8 DEF Life
  <2> QED BY <1>8, <2>1 DEF Life
<1> QED BY <1>3, <1>4, <1>5, <1>6, <1>7, <1>8 DEF QueueCmds

\* A command is issued.
LEMMA LifeSubmit ==
  ASSUME Life, AdmInv, NEW c \in AdminCmds, SubmitAdmin(c)
  PROVE  Life'
<1>1. /\ MayIssue(c) /\ hout' = hout \cup {c}
      /\ UNCHANGED <<hq, sq, cq, aposted>>
  BY DEF SubmitAdmin, devVars, histVars
<1>2. \A x, y \in hout' \cap QueueCmds : x = y
  BY <1>1 DEF Life, MayIssue
<1>3. \A x : Done(x)' <=> Done(x)
  BY <1>1 DEF Done
<1>4. /\ "num_queues" \in hout' => hq = "boot"
      /\ "create_cq" \in hout' => hq = "none"
      /\ "create_sq" \in hout' => hq = "cq"
      /\ "delete_sq" \in hout' => hq = "both"
      /\ "delete_cq" \in hout' => hq = "closing"
  BY <1>1 DEF Life, MayIssue
<1> QED BY <1>1, <1>2, <1>3, <1>4 DEF Life

\* The host takes the answer to a command.
LEMMA LifeReap ==
  ASSUME Life, NEW c \in hout, Done(c), hout' = hout \ {c}, UNCHANGED <<sq, cq>>,
         hq' = CASE c \in {"num_queues", "delete_cq"} -> "none"
                 [] c = "create_cq" -> "cq"
                 [] c = "create_sq" -> "both"
                 [] c = "delete_sq" -> "closing"
                 [] OTHER -> hq,
         \A x : Done(x) <=> Done(x)' \/ x = c,
         \A x : Done(x) => x \in hout,
         ~Among(c, aposted')
  PROVE  Life'
<1>1. c \in QueueCmds => \A x \in QueueCmds : x \notin hout' /\ ~Done(x)'
  <2>1. ASSUME c \in QueueCmds, NEW x \in QueueCmds, x # c PROVE x \notin hout /\ ~Done(x)
    BY <2>1 DEF Life
  <2>2. c \notin hout' /\ ~Done(c)'
    BY DEF Done
  <2> QED BY <2>1, <2>2
<1>2. CASE c \notin QueueCmds
  <2>1. hq' = hq
    BY <1>2 DEF QueueCmds
  <2>2. \A x \in QueueCmds : Done(x)' <=> Done(x)
    BY <1>2
  <2> QED BY <2>1, <2>2 DEF Life, QueueCmds
<1>3. CASE c = "num_queues"
  <2>1. hq' = "none" /\ hq = "boot"
    BY <1>3 DEF Life
  <2> QED BY <1>1, <1>3, <2>1 DEF Life, QueueCmds
<1>4. CASE c = "create_cq"
  <2>1. hq' = "cq" /\ hq = "none"
    BY <1>4 DEF Life
  <2> QED BY <1>1, <1>4, <2>1 DEF Life, QueueCmds
<1>5. CASE c = "create_sq"
  <2>1. hq' = "both" /\ hq = "cq"
    BY <1>5 DEF Life
  <2> QED BY <1>1, <1>5, <2>1 DEF Life, QueueCmds
<1>6. CASE c = "delete_sq"
  <2>1. hq' = "closing" /\ hq = "both"
    BY <1>6 DEF Life
  <2> QED BY <1>1, <1>6, <2>1 DEF Life, QueueCmds
<1>7. CASE c = "delete_cq"
  <2>1. hq' = "none" /\ hq = "closing"
    BY <1>7 DEF Life
  <2> QED BY <1>1, <1>7, <2>1 DEF Life, QueueCmds
<1> QED BY <1>2, <1>3, <1>4, <1>5, <1>6, <1>7 DEF QueueCmds

-----------------------------------------------------------------------------
(***************************************************************************)
(* The I/O queue pair.                                                     *)
(***************************************************************************)
LEMMA IoFacts ==
  ASSUME IoInv
  PROVE  /\ QSize \in Nat /\ QSize > 0
         /\ IoFrom \in Slots(QSize) /\ hio.tail \in Slots(QSize)
         /\ hio.head \in Slots(QSize) /\ hio.phase \in {0, 1}
         /\ IoGap \in Nat /\ IoGap < QSize /\ IoSlots \subseteq Slots(QSize)
         /\ IsFiniteSet(busy) /\ IsFiniteSet(work) /\ work \subseteq busy
         /\ Cardinality(work) \in Nat /\ Len(posted) \in Nat
         /\ Cardinality(busy) \in Nat /\ Cardinality(busy) < QSize
         /\ Len(posted) < QSize
<1>1. QSize \in Nat /\ QSize > 0
  BY NewCq
<1>2. /\ hio.tail \in Slots(QSize) /\ hio.head \in Slots(QSize) /\ hio.phase \in {0, 1}
      /\ Len(posted) \in Nat
  BY LenProperties DEF IoInv, IoTypes, SideType
<1>3. IoFrom \in Slots(QSize)
  BY <1>1, <1>2, TakenSlot DEF IoInv, IoFrom
<1>4. IoGap \in Nat /\ IoGap < QSize /\ IoSlots \subseteq Slots(QSize)
  BY <1>1, <1>2, <1>3, StepGap DEF IoGap, IoSlots, Between
<1>5. /\ IsFiniteSet(busy) /\ IsFiniteSet(work) /\ work \subseteq busy
      /\ Cardinality(busy) \in Nat /\ Cardinality(work) \in Nat
      /\ Cardinality(busy) <= Cardinality(Tags)
  BY ControllerAssumption, FS_Subset, FS_CardinalityType DEF IoInv, IoTypes, SplitUp
<1>6. Cardinality(busy) < QSize /\ Len(posted) < QSize
  BY <1>1, <1>2, <1>4, <1>5, NewCq, ControllerAssumption DEF IoInv
<1> QED BY <1>1, <1>2, <1>3, <1>4, <1>5, <1>6

\* Steps that do not touch the queue pair.
LEMMA IoAside ==
  ASSUME IoInv, IoTypes', UNCHANGED <<sqe, hio, busy, posted, work, sq>>,
         dbs'["sq"] = dbs["sq"], old_dbs'["sq"] = old_dbs["sq"],
         disp' = disp \/ (disp.pc # "sq" /\ disp'.pc # "sq")
  PROVE  IoInv' /\ IoGap' = IoGap
<1>1. IoFrom' = IoFrom
  BY DEF IoFrom, Taken
<1>2. Fetching("sq", IoFrom, hio.tail, QSize)'
  BY <1>1 DEF IoInv, Fetching
<1>3. IoGap' = IoGap /\ IoSlots' = IoSlots
  BY <1>1 DEF IoGap, IoSlots
<1> QED BY <1>1, <1>2, <1>3 DEF IoInv

LEMMA RingAside ==
  ASSUME IoRing, UNCHANGED <<cqe, hio, posted>>, cq' # NULL => cq # NULL,
         cq' # NULL => cq'.head = cq.head /\ cq'.phase = cq.phase,
         worker' = "filled" <=> worker = "filled"
  PROVE  IoRing'
BY DEF IoRing

LEMMA QuietAside ==
  ASSUME IoQuiet, UNCHANGED <<hq, hout, busy, work, hio>>, IoGap' = IoGap,
         worker' = "filled" => worker = "filled",
         disp'.pc = "sq" => disp.pc = "sq"
  PROVE  IoQuiet'
BY DEF IoQuiet

\* nvmev_proc_dbs sees the doorbell of the submission queue.
LEMMA IoSee ==
  ASSUME IoInv, SeeDoorbell("sq", QSize)
  PROVE  IoInv' /\ IoGap' = IoGap /\ IoGap > 0 /\ sq
<1> DEFINE n == QSize
           a == old_dbs["sq"]
           num == (hio.tail - a) % n
<1>1. /\ disp = Idle /\ sq /\ hio.tail # a
      /\ disp' = [pc |-> "sq", seq |-> 0, num |-> num]
      /\ UNCHANGED <<sqe, cqe, cq, hio, busy, posted, worker, work, sq, dbs, old_dbs>>
  BY DEF SeeDoorbell, IoInv, devVars, ringVars, hostVars, histVars
<1>2. IoFrom = a
  BY <1>1 DEF IoFrom, Taken, Idle, At
<1>3. n \in Nat /\ n > 0 /\ a \in Slots(n) /\ hio.tail \in Slots(n)
  BY IoFacts DEF IoInv
<1>4. (a + 0) % n = a /\ num = Gap(a, hio.tail, n)
  BY <1>3, RingMod
<1>5. num \in Slots(n) /\ num # 0
  <2>1. /\ Gap(a, hio.tail, n) \in Nat /\ Gap(a, hio.tail, n) < n
        /\ Gap(a, hio.tail, n) = 0 <=> a = hio.tail
    BY <1>3, StepGap
  <2> HIDE DEF num
  <2> QED BY <1>1, <1>3, <1>4, <2>1 DEF Slots
<1>6. IoFrom' = IoFrom
  BY <1>1, <1>2, <1>4 DEF IoFrom, Taken
<1>7. Fetching("sq", IoFrom, hio.tail, QSize)'
  <2>1. num \in Nat /\ num - 0 <= num /\ 0 <= num
    BY <1>5 DEF Slots
  <2> HIDE DEF num
  <2> QED BY <1>1, <1>2, <1>4, <1>5, <1>6, <2>1 DEF Fetching
<1>8. IoTypes'
  BY <1>1 DEF IoInv, IoTypes
<1>9. IoGap' = IoGap /\ IoSlots' = IoSlots
  BY <1>1, <1>6 DEF IoGap, IoSlots
<1>10. IoGap = num
  BY <1>1, <1>2, <1>4 DEF IoGap
<1>11. IoGap > 0
  <2> HIDE DEF num
  <2> QED BY <1>5, <1>10 DEF Slots
<1> QED BY <1>1, <1>6, <1>7, <1>8, <1>9, <1>11 DEF IoInv

\* nvmev_proc_io_sq: a command goes from its slot to the work queue.
LEMMA IoAccept ==
  ASSUME IoInv, Disp, Accept
  PROVE  IoInv' /\ IoGap > 0
<1> DEFINE n == QSize
           s == IoFrom
           t == sqe[s]
           g == Gap(s, hio.tail, n)
<1>0. /\ (old_dbs["sq"] + disp.seq) % QSize = s
      /\ disp.pc = "sq" /\ disp.seq < disp.num /\ sq
  BY DEF Accept, IoFrom, Taken, IoInv
<1>1. /\ work' = work \cup {t}
      /\ sqe' = [sqe EXCEPT ![s] = NULL]
      /\ disp' = [disp EXCEPT !.seq = @ + 1]
      /\ UNCHANGED <<cqe, cq, hio, busy, posted, worker, sq, dbs, old_dbs>>
  BY <1>0 DEF Accept, devVars, hostVars, histVars
<1>2. /\ n \in Nat /\ n > 0 /\ s \in Slots(n) /\ hio.tail \in Slots(n)
      /\ IsFiniteSet(work) /\ Cardinality(work) \in Nat /\ Len(posted) \in Nat
  BY IoFacts
<1>3. IoGap = g /\ g \in Nat /\ IoSlots = Between(s, hio.tail, n)
  BY <1>0, <1>2, StepGap DEF IoGap, IoSlots
<1>4. disp.seq \in Nat /\ disp.num \in Slots(n) /\ disp.num - disp.seq <= g
  BY <1>0 DEF IoInv, Fetching
<1>5. g > 0 /\ s # hio.tail /\ disp.seq < n
  <2>1. g = 0 <=> s = hio.tail
    BY <1>2, StepGap
  <2> HIDE DEF g, n
  <2> QED BY <1>0, <1>2, <1>3, <1>4, <2>1 DEF Slots
<1>6. IoFrom' = Step(s, n)
  <2>1. IoFrom' = (old_dbs["sq"] + (disp.seq + 1)) % n
    BY <1>0, <1>1 DEF IoFrom, Taken, Disp
  <2>2. old_dbs["sq"] \in Slots(n)
    BY DEF IoInv
  <2> QED BY <1>0, <1>2, <1>4, <1>5, <2>1, <2>2, RingMod
<1>7. s \in IoSlots /\ IoSlots' = IoSlots \ {s} /\ IoSlots \subseteq Slots(n)
  BY <1>0, <1>1, <1>2, <1>3, <1>5, <1>6, Take DEF IoSlots, Between
<1>8. IoGap' = g - 1
  BY <1>0, <1>1, <1>2, <1>5, <1>6, StepGap DEF IoGap
<1> HIDE DEF s, g, n
<1>9. SplitUp(busy, sqe, IoSlots, work, posted) /\ DOMAIN sqe = Slots(n)
  BY DEF IoInv, IoTypes, n
<1>10. SplitUp(busy, [sqe EXCEPT ![s] = NULL], IoSlots \ {s}, work \cup {t}, posted)
       /\ t \in busy \ work
  BY <1>7, <1>9, SplitAccept
<1> HIDE DEF t
<1>11. SplitUp(busy, sqe, IoSlots, work, posted)'
  BY <1>1, <1>7, <1>10
<1>12. Cardinality(work') = Cardinality(work) + 1
  BY <1>1, <1>2, <1>10, FS_AddElement
<1>13. (Cardinality(busy) = IoGap + Cardinality(work) + Len(posted))'
  <2>1. Cardinality(busy) = g + Cardinality(work) + Len(posted)
    BY <1>3 DEF IoInv
  <2>2. g + Cardinality(work) + Len(posted) = (g - 1) + (Cardinality(work) + 1) + Len(posted)
    BY <1>2, <1>3
  <2> QED BY <1>1, <1>8, <1>12, <2>1, <2>2
<1>14. IoTypes'
  <2>1. sqe' \in [Slots(QSize) -> Tags \cup {NULL}]
    BY <1>1 DEF IoInv, IoTypes
  <2> QED BY <1>1, <2>1 DEF IoInv, IoTypes
<1>15. Fetching("sq", IoFrom, hio.tail, QSize)'
  <2>1. disp'.pc = "sq" /\ disp'.seq = disp.seq + 1 /\ disp'.num = disp.num
    BY <1>0, <1>1 DEF Disp
  <2>2. disp.num \in Nat
    BY <1>2, <1>4 DEF Slots
  <2>3. disp.seq + 1 \in Nat /\ disp.seq + 1 <= disp.num /\ disp.num - (disp.seq + 1) <= g - 1
    BY <1>0, <1>3, <1>4, <2>2
  <2>4. Gap(IoFrom', hio'.tail, n) = g - 1
    BY <1>0, <1>1, <1>8 DEF IoGap, n
  <2> QED BY <1>1, <1>4, <2>1, <2>3, <2>4 DEF Fetching, n
<1> QED BY <1>0, <1>1, <1>3, <1>5, <1>11, <1>13, <1>14, <1>15 DEF IoInv

\* The dispatcher stops, with what it has taken.
LEMMA IoEnd ==
  ASSUME IoInv, Disp, EndFetch
  PROVE  IoInv' /\ IoGap' = IoGap
<1>1. /\ disp.pc = "sq" /\ disp' = Idle
      /\ old_dbs' = [old_dbs EXCEPT !["sq"] = (@ + disp.seq) % QSize]
      /\ UNCHANGED <<sqe, cqe, cq, hio, busy, posted, worker, work, sq, dbs>>
  BY DEF EndFetch, ringVars, hostVars, histVars
<1>2. old_dbs'["sq"] = IoFrom
  BY <1>1 DEF IoFrom, Taken, Disp, Doorbells
<1>3. IoFrom' = IoFrom /\ IoFrom \in Slots(QSize)
  BY <1>1, <1>2, IoFacts DEF IoFrom, Taken, Idle, At
<1>4. Fetching("sq", IoFrom, hio.tail, QSize)' /\ disp'.pc # "sq"
  BY <1>1 DEF Fetching, Idle, At
<1>5. IoTypes'
  BY <1>1 DEF IoInv, IoTypes
<1>6. IoGap' = IoGap /\ IoSlots' = IoSlots
  BY <1>1, <1>3 DEF IoGap, IoSlots
<1> QED BY <1>1, <1>2, <1>3, <1>4, <1>5, <1>6 DEF IoInv

\* The host rings the doorbell of the submission queue.
LEMMA IoSubmit ==
  ASSUME AdmInv, Life, IoInv, Disp, NEW t \in Tags, SubmitIo(t)
  PROVE  IoInv'
<1> DEFINE n == QSize
           z == hio.tail
           g == Gap(IoFrom, z, n)
           B == Between(IoFrom, z, n)
<1>1. /\ hq = "both" /\ "delete_sq" \notin hout /\ t \notin busy
      /\ sqe' = [sqe EXCEPT ![z] = t]
      /\ hio' = [hio EXCEPT !.tail = (@ + 1) % n]
      /\ dbs' = [dbs EXCEPT !["sq"] = (z + 1) % n]
      /\ busy' = busy \cup {t}
      /\ UNCHANGED <<cqe, cq, posted, worker, work, sq, old_dbs, disp>>
  BY DEF SubmitIo, devVars, histVars
<1>2. sq
  BY <1>1, DoneOut DEF Life
<1>3. /\ n \in Nat /\ n > 0 /\ IoFrom \in Slots(n) /\ z \in Slots(n)
      /\ IsFiniteSet(busy) /\ Cardinality(busy) \in Nat
      /\ Cardinality(work) \in Nat /\ Len(posted) \in Nat
  BY IoFacts
<1>4. IoGap = g /\ g \in Nat /\ IoSlots = B
  BY <1>2, <1>3, StepGap DEF IoGap, IoSlots
<1>5. (z + 1) % n = Step(z, n) /\ Step(z, n) \in Slots(n)
  <2>1. (z + (0 + 1)) % n = Step((z + 0) % n, n) /\ (z + 0) % n = z
    BY <1>3, RingMod
  <2>2. z + (0 + 1) = z + 1
    OBVIOUS
  <2> QED BY <1>3, <2>1, <2>2, StepGap
<1>6. hio'.tail = Step(z, n) /\ hio' \in SideType(n)
  <2>1. hio \in SideType(n)
    BY DEF IoInv, IoTypes
  <2> HIDE DEF n
  <2> QED BY <1>1, <1>5, <2>1 DEF SideType
<1>7. dbs'["sq"] = Step(z, n)
  BY <1>1, <1>5 DEF Disp, Doorbells
<1>8. Cardinality(busy') = Cardinality(busy) + 1 /\ Cardinality(busy) + 1 < n
  <2>1. Cardinality(busy') = Cardinality(busy) + 1
    BY <1>1, <1>3, FS_AddElement
  <2>2. busy' \subseteq Tags
    BY <1>1 DEF IoInv, IoTypes
  <2>3. Cardinality(busy') <= Cardinality(Tags)
    BY <2>2, ControllerAssumption, FS_Subset
  <2> QED BY <1>3, <2>1, <2>3, NewCq, ControllerAssumption
<1>9. IoFrom' = IoFrom
  BY <1>1 DEF IoFrom, Taken
<1>10. Cardinality(busy) = g + Cardinality(work) + Len(posted)
  BY <1>4 DEF IoInv
<1>11. g + 1 < n
  <2> HIDE DEF g, n
  <2> QED BY <1>3, <1>4, <1>8, <1>10
<1>12. Gap(IoFrom, Step(z, n), n) = g + 1
  BY <1>3, <1>11, StepGap
<1>13. Between(IoFrom, Step(z, n), n) = B \cup {z} /\ z \notin B /\ B \subseteq Slots(n)
  BY <1>3, <1>11, Push DEF Between
<1> HIDE DEF n, z, B, g
<1>14. SplitUp(busy \cup {t}, [sqe EXCEPT ![z] = t], B \cup {z}, work, posted)
  <2>1. SplitUp(busy, sqe, B, work, posted) /\ DOMAIN sqe = Slots(n)
    BY <1>4 DEF IoInv, IoTypes, n
  <2> QED BY <1>1, <1>3, <1>13, <2>1, SplitSubmit
<1>15. IoGap' = g + 1 /\ IoSlots' = B \cup {z}
  BY <1>1, <1>2, <1>6, <1>9, <1>12, <1>13 DEF IoGap, IoSlots, n
<1>16. IoTypes'
  <2>1. sqe' \in [Slots(QSize) -> Tags \cup {NULL}]
    BY <1>1 DEF IoInv, IoTypes
  <2>2. busy' \subseteq Tags
    BY <1>1 DEF IoInv, IoTypes
  <2> QED BY <1>1, <1>6, <2>1, <2>2 DEF IoInv, IoTypes, n
<1>17. Fetching("sq", IoFrom, hio.tail, QSize)'
  <2>1. disp.pc = "sq" => /\ disp.seq \in Nat /\ disp.num \in Slots(n) /\ disp.seq <= disp.num
                          /\ disp.num - disp.seq <= g
    BY DEF IoInv, Fetching, g, z, n
  <2>2. disp.pc = "sq" => disp.num - disp.seq <= g + 1
    BY <1>4, <2>1 DEF Slots
  <2> QED BY <1>1, <1>6, <1>9, <1>12, <2>1, <2>2 DEF Fetching, n
<1>18. SplitUp(busy, sqe, IoSlots, work, posted)'
  BY <1>1, <1>14, <1>15
<1>19. (Cardinality(busy) = IoGap + Cardinality(work) + Len(posted))'
  <2>1. Cardinality(busy) + 1 = (g + 1) + Cardinality(work) + Len(posted)
    BY <1>3, <1>4, <1>10
  <2> QED BY <1>1, <1>8, <1>15, <2>1
<1>20. dbs'["sq"] \in Slots(QSize) /\ dbs'["sq"] = hio'.tail /\ old_dbs'["sq"] \in Slots(QSize)
  BY <1>1, <1>5, <1>6, <1>7 DEF IoInv, n
<1> QED BY <1>1, <1>2, <1>16, <1>17, <1>18, <1>19, <1>20 DEF IoInv

\* There is a queue pair while there is work in it.
LEMMA WorkHasQueue ==
  ASSUME Life, IoQuiet, work # {} \/ worker = "filled"
  PROVE  /\ hq = "both" /\ cq # NULL /\ "delete_sq" \notin hout /\ "delete_cq" \notin hout
         /\ "create_cq" \notin hout
<1>1. hq = "both" /\ "delete_sq" \notin hout
  BY DEF Life, IoQuiet
<1> QED BY <1>1 DEF Life

\* __fill_cq_result: a command is answered, and then the head moves on.
LEMMA IoFill ==
  ASSUME Life, IoInv, IoRing, IoQuiet, NEW t \in Tags, Fill(t)
  PROVE  IoInv' /\ IoRing' /\ IoGap' = IoGap
<1> DEFINE n == QSize
           k == Len(posted)
<1>1. /\ worker = "pass" /\ t \in work /\ worker' = "filled"
      /\ cqe' = [cqe EXCEPT ![cq.head] = [cid |-> t, phase |-> cq.phase]]
      /\ posted' = Append(posted, t)
      /\ work' = work \ {t}
      /\ UNCHANGED <<sqe, cq, hio, busy, sq, dbs, old_dbs, disp>>
  BY DEF Fill, devVars, hostVars
<1>2. cq # NULL
  BY <1>1, WorkHasQueue
<1>3. cq \in [head : Slots(n), phase : {0, 1}, ready : BOOLEAN]
  BY <1>2 DEF IoInv, IoTypes
<1>4. cq.head \in Slots(n) /\ cq.phase \in {0, 1}
  BY <1>3
<1>5. posted \in Seq(Tags) /\ DOMAIN cqe = Slots(n)
  BY DEF IoInv, IoTypes
<1>6. /\ n \in Nat /\ hio.head \in Slots(n) /\ hio.phase \in {0, 1}
      /\ IoGap \in Nat /\ IsFiniteSet(work) /\ Cardinality(work) \in Nat /\ k \in Nat
      /\ Cardinality(busy) < n
  BY IoFacts
<1>7. Cardinality(work') = Cardinality(work) - 1 /\ Cardinality(work) > 0
  <2>1. IsFiniteSet(work') /\ Cardinality(work') = Cardinality(work) - 1
    BY <1>1, <1>6, FS_RemoveElement
  <2>2. Cardinality(work') \in Nat
    BY <2>1, FS_CardinalityType
  <2> QED BY <1>6, <2>1, <2>2
<1>8. Cardinality(busy) = IoGap + Cardinality(work) + k
  BY DEF IoInv
<1> HIDE DEF n, k
<1>9. k + 1 < n
  BY <1>6, <1>7, <1>8
<1>10. /\ RingOk(cqe, n, hio.head, hio.phase, posted)
       /\ EndAt(cq.head, cq.phase, hio.head, hio.phase, Len(posted), n)
  BY <1>1, <1>2 DEF IoRing, n
<1>11. /\ RingOk([cqe EXCEPT ![cq.head] = [cid |-> t, phase |-> cq.phase]], n,
                 hio.head, hio.phase, Append(posted, t))
       /\ EndAt(Step(cq.head, n), Flip(cq.head, cq.phase, n),
                hio.head, hio.phase, Len(Append(posted, t)), n)
  BY <1>4, <1>5, <1>6, <1>9, <1>10, Post DEF k
<1>12. IoRing'
  BY <1>1, <1>11 DEF IoRing, n
<1>13. SplitUp(busy, sqe, IoSlots, work \ {t}, Append(posted, t))
  BY <1>1, <1>5, SplitPost DEF IoInv
<1>14. posted' \in Seq(Tags) /\ Len(posted') = k + 1
  BY <1>1, <1>5, AppendProperties DEF k
<1>15. IoFrom' = IoFrom
  BY <1>1 DEF IoFrom, Taken
<1>16. IoGap' = IoGap /\ IoSlots' = IoSlots
  BY <1>1, <1>15 DEF IoGap, IoSlots
<1>17. IoTypes'
  <2>1. cqe' \in [Slots(QSize) -> CqeType(Tags)]
    BY <1>1, <1>4 DEF IoInv, IoTypes, CqeType, n
  <2> QED BY <1>1, <1>14, <2>1 DEF IoInv, IoTypes
<1>18. (Cardinality(busy) = IoGap + Cardinality(work) + Len(posted))'
  <2>1. IoGap + Cardinality(work) + k = IoGap + (Cardinality(work) - 1) + (k + 1)
    BY <1>6
  <2> QED BY <1>1, <1>7, <1>8, <1>14, <1>16, <2>1
<1>19. SplitUp(busy, sqe, IoSlots, work, posted)'
  BY <1>1, <1>13, <1>16
<1>20. Fetching("sq", IoFrom, hio.tail, QSize)'
  BY <1>1, <1>15 DEF IoInv, Fetching
<1> QED BY <1>1, <1>12, <1>16, <1>17, <1>18, <1>19, <1>20 DEF IoInv

LEMMA IoFilled ==
  ASSUME Life, IoInv, IoRing, IoQuiet, Filled
  PROVE  IoInv' /\ IoRing' /\ IoGap' = IoGap /\ cq # NULL /\ cq' # NULL
<1>1. /\ worker = "filled" /\ worker' = "pass"
      /\ cq' = [Advance(cq, QSize) EXCEPT !.ready = TRUE]
      /\ UNCHANGED <<sqe, cqe, hio, busy, posted, work, sq, dbs, old_dbs, disp>>
  BY DEF Filled, ringVars, hostVars, histVars
<1>2. cq # NULL
  BY <1>1, WorkHasQueue
<1>3. cq \in [head : Slots(QSize), phase : {0, 1}, ready : BOOLEAN]
  BY <1>2 DEF IoInv, IoTypes
<1>4. /\ cq' \in [head : Slots(QSize), phase : {0, 1}, ready : BOOLEAN]
      /\ cq'.head = Step(cq.head, QSize) /\ cq'.phase = Flip(cq.head, cq.phase, QSize)
  BY <1>1, <1>3, NewCq, AdvanceCq
<1>5. IoTypes'
  BY <1>1, <1>4 DEF IoInv, IoTypes
<1>6. IoInv' /\ IoGap' = IoGap
  BY <1>1, <1>5, IoAside
<1>7. IoRing'
  BY <1>1, <1>2, <1>4 DEF IoRing
<1>8. cq' # NULL
  BY <1>4, NullAssumption
<1> QED BY <1>2, <1>6, <1>7, <1>8

\* The host takes a completion.
LEMMA IoReap ==
  ASSUME Life, IoInv, IoRing, IoQuiet, ReapIo, cqe[hio.head].phase = hio.phase, hq # "none"
  PROVE  IoInv' /\ IoRing' /\ IoQuiet'
<1> DEFINE n == QSize
           h == hio.head
           t == cqe[h].cid
           ph1 == Flip(h, hio.phase, n)
<1>1. /\ hio' = Advance(hio, n)
      /\ busy' = busy \ {t}
      /\ cqe' = Cleared(cqe, h)
      /\ posted' = Tail(posted)
      /\ UNCHANGED <<sqe, cq, worker, work, sq, dbs, old_dbs, disp, hq, hout>>
  BY DEF ReapIo, devVars, Cleared
<1>2. /\ n \in Nat /\ h \in Slots(n) /\ hio.phase \in {0, 1}
      /\ IoGap \in Nat /\ Len(posted) \in Nat /\ Len(posted) < n
      /\ IsFiniteSet(busy) /\ Cardinality(work) \in Nat
  BY IoFacts
<1>3. /\ posted \in Seq(Tags) /\ hio \in SideType(n) /\ DOMAIN cqe = Slots(n)
      /\ RingOk(cqe, n, h, hio.phase, posted) /\ cqe[h].phase = hio.phase
  BY DEF IoInv, IoTypes, IoRing
<1>4. /\ hio' \in SideType(n) /\ hio'.tail = hio.tail /\ hio'.head = Step(h, n)
      /\ hio'.phase = ph1
  BY <1>1, <1>2, <1>3, AdvanceSide
<1> HIDE DEF n, h, ph1
<1>5. /\ posted # << >> /\ t = Head(posted)
      /\ RingOk(Cleared(cqe, h), n, Step(h, n), ph1, Tail(posted))
  BY <1>2, <1>3, Reap DEF ph1
<1>6. ASSUME NEW p \in Slots(n), NEW pph, EndAt(p, pph, h, hio.phase, Len(posted), n)
      PROVE  EndAt(p, pph, Step(h, n), ph1, Len(Tail(posted)), n)
  BY <1>2, <1>3, <1>6, Reap DEF ph1
<1>7. /\ SplitUp(busy \ {t}, sqe, IoSlots, work, Tail(posted)) /\ t \in busy
  BY <1>3, <1>5, SplitReap DEF IoInv
<1>8. /\ Len(Tail(posted)) = Len(posted) - 1 /\ Tail(posted) \in Seq(Tags)
  BY <1>3, <1>5, HeadTailProperties, LenProperties, EmptySeq
<1> HIDE DEF t
<1>9. IoFrom' = IoFrom
  BY <1>1 DEF IoFrom, Taken
<1>10. IoGap' = IoGap /\ IoSlots' = IoSlots
  BY <1>1, <1>4, <1>9 DEF IoGap, IoSlots
<1>11. IoTypes'
  <2>1. cqe' \in [Slots(QSize) -> CqeType(Tags)]
    BY <1>1 DEF IoInv, IoTypes, CqeType, Cleared
  <2> QED BY <1>1, <1>4, <1>8, <2>1 DEF IoInv, IoTypes, n
<1>12. (Cardinality(busy) = IoGap + Cardinality(work) + Len(posted))'
  <2>1. Cardinality(busy') = Cardinality(busy) - 1
    BY <1>1, <1>2, <1>7, FS_RemoveElement
  <2>2. Cardinality(busy) = IoGap + Cardinality(work) + Len(posted)
    BY DEF IoInv
  <2> QED BY <1>1, <1>2, <1>8, <1>10, <2>1, <2>2
<1>13. SplitUp(busy, sqe, IoSlots, work, posted)'
  BY <1>1, <1>7, <1>10
<1>14. Fetching("sq", IoFrom, hio.tail, QSize)'
  BY <1>1, <1>4, <1>9 DEF IoInv, Fetching
<1>15. IoInv'
  BY <1>1, <1>4, <1>11, <1>12, <1>13, <1>14 DEF IoInv
<1>16. IoRing'
  <2>1. RingOk(cqe, QSize, hio.head, hio.phase, posted)'
    BY <1>1, <1>4, <1>5 DEF n
  <2>2. ASSUME cq # NULL
        PROVE  IF worker = "filled"
               THEN EndAt(Step(cq.head, n), Flip(cq.head, cq.phase, n),
                          Step(h, n), ph1, Len(Tail(posted)), n)
               ELSE EndAt(cq.head, cq.phase, Step(h, n), ph1, Len(Tail(posted)), n)
    <3>1. cq.head \in Slots(n) /\ Step(cq.head, n) \in Slots(n)
      <4>1. cq.head \in Slots(n)
        BY <2>2 DEF IoInv, IoTypes, n
      <4> QED BY <1>2, <4>1, StepGap
    <3>2. IF worker = "filled"
          THEN EndAt(Step(cq.head, n), Flip(cq.head, cq.phase, n), h, hio.phase, Len(posted), n)
          ELSE EndAt(cq.head, cq.phase, h, hio.phase, Len(posted), n)
      BY <2>2 DEF IoRing, n, h
    <3> QED BY <1>6, <3>1, <3>2
  <2> QED BY <1>1, <1>4, <2>1, <2>2 DEF IoRing, n
<1>17. IoQuiet'
  <2>1. busy # {}
    BY <1>7
  <2>2. hq # "cq" /\ "create_cq" \notin hout
    BY <2>1 DEF IoQuiet, Life
  <2> QED BY <1>1, <1>10, <2>2 DEF IoQuiet
<1> QED BY <1>15, <1>16, <1>17

\* Nothing is outstanding, so nothing is in the work queue or posted.
LEMMA NothingBusy ==
  ASSUME IoInv, busy = {}
  PROVE  /\ work = {} /\ posted = << >> /\ Len(posted) = 0 /\ Cardinality(work) = 0
         /\ Cardinality(busy) = 0 /\ IoGap = 0
<1>1. Cardinality(busy) = 0
  BY FS_EmptySet
<1>2. Len(posted) = 0 /\ Cardinality(work) = 0 /\ IoGap = 0
  BY <1>1, IoFacts DEF IoInv
<1>3. posted \in Seq(Tags)
  BY DEF IoInv, IoTypes
<1> QED BY <1>1, <1>2, <1>3, EmptySeq, IoFacts

\* A slot of a queue that is empty.
LEMMA NoSlots ==
  ASSUME IoInv, IoGap = 0
  PROVE  IoSlots = {}
<1>1. CASE sq
  <2>1. \A s \in Slots(QSize) : Gap(IoFrom, s, QSize) \in Nat
    BY IoFacts, StepGap
  <2>2. Gap(IoFrom, hio.tail, QSize) = 0
    BY <1>1 DEF IoGap
  <2> QED BY <1>1, <2>1, <2>2 DEF IoSlots, Between
<1>2. CASE ~sq
  BY <1>2 DEF IoSlots
<1> QED BY <1>1, <1>2

\* A command that creates or deletes a queue is carried out.
LEMMA IoTake ==
  ASSUME Life, IoInv, IoRing, IoQuiet, Disp, NEW c \in hout, ~Done(c), AdminReq,
         c = asqe[(old_dbs["asq"] + disp.seq) % AqDepth]
  PROVE  IoInv' /\ IoRing' /\ IoQuiet'
<1>1. /\ AdminEffect(c) /\ disp.pc = "asq" /\ disp' = [disp EXCEPT !.seq = @ + 1]
      /\ UNCHANGED <<sqe, cqe, work, worker, hio, busy, hq, hout, posted>>
  BY DEF AdminReq, hostVars
<1>2. /\ sq' = (c = "create_sq" \/ (sq /\ c # "delete_sq"))
      /\ cq' = CASE c = "create_cq" -> [head |-> 0, phase |-> 1, ready |-> FALSE]
                 [] c = "delete_cq" -> NULL
                 [] OTHER -> cq
      /\ c # "create_sq" => dbs' = dbs /\ old_dbs' = old_dbs
      /\ c = "create_sq" => /\ dbs' = [dbs EXCEPT !["sq"] = 0]
                            /\ old_dbs' = [old_dbs EXCEPT !["sq"] = 0]
  BY <1>1 DEF AdminEffect
<1>3. disp.pc # "sq" /\ disp'.pc # "sq"
  BY <1>1 DEF Disp
<1>4. IoTypes'
  <2>1. cq' \in {NULL} \cup [head : Slots(QSize), phase : {0, 1}, ready : BOOLEAN]
    BY <1>2, NewCq DEF IoInv, IoTypes
  <2> QED BY <1>1, <2>1 DEF IoInv, IoTypes
<1>5. CASE c \notin {"create_sq", "delete_sq"}
  <2>1. sq' = sq
    <3>1. sq \in BOOLEAN
      BY DEF Life
    <3> QED BY <1>2, <1>5, <3>1
  <2>2. IoInv' /\ IoGap' = IoGap
    BY <1>1, <1>2, <1>3, <1>4, <1>5, <2>1, IoAside
  <2>3. IoQuiet'
    BY <1>1, <1>3, <2>2, QuietAside
  <2>4. CASE c = "create_cq"
    <3>1. hio = HostSide /\ busy = {} /\ worker # "filled"
      BY <2>4 DEF Life, IoQuiet
    <3>2. Len(posted) = 0
      BY <3>1, NothingBusy
    <3>3. cq' = [head |-> 0, phase |-> 1, ready |-> FALSE]
      BY <1>2, <2>4
    <3>4. EndAt(0, 1, 0, 1, 0, QSize)
      BY NewCq DEF EndAt, Gap, Expected
    <3> QED BY <1>1, <2>2, <2>3, <3>1, <3>2, <3>3, <3>4 DEF IoRing, HostSide
  <2>5. CASE c # "create_cq"
    <3>1. cq' # NULL => cq' = cq
      BY <1>2, <1>5, <2>5
    <3> QED BY <1>1, <2>2, <2>3, <3>1, RingAside
  <2> QED BY <2>4, <2>5
<1>6. CASE c = "create_sq"
  <2>1. sq' = TRUE /\ cq' = cq /\ hq = "cq" /\ ~sq
    BY <1>2, <1>6 DEF Life
  <2>2. hio = HostSide /\ work = {} /\ worker # "filled" /\ busy = {}
    BY <2>1 DEF IoQuiet
  <2>3. dbs'["sq"] = 0 /\ old_dbs'["sq"] = 0 /\ hio'.tail = 0
    BY <1>1, <1>2, <1>6, <2>2 DEF Disp, Doorbells, HostSide
  <2>4. IoFrom' = 0
    BY <1>3, <2>3 DEF IoFrom, Taken
  <2>5. IoGap' = 0 /\ IoSlots' = {} /\ IoSlots = {} /\ IoGap = 0
    <3>1. Gap(0, 0, QSize) = 0 /\ \A s \in Slots(QSize) : Gap(0, s, QSize) \in Nat
      BY NewCq DEF Gap, Slots
    <3>2. Between(0, 0, QSize) = {}
      BY <3>1 DEF Between
    <3> QED BY <2>1, <2>3, <2>4, <3>1, <3>2 DEF IoGap, IoSlots
  <2>6. Fetching("sq", IoFrom, hio.tail, QSize)'
    BY <1>3 DEF Fetching
  <2>7. IoInv'
    BY <1>1, <1>3, <1>4, <2>1, <2>3, <2>5, <2>6, NewCq DEF IoInv
  <2>8. IoQuiet'
    BY <1>1, <1>3, <2>5, QuietAside
  <2> QED BY <1>1, <2>1, <2>7, <2>8, RingAside
<1>7. CASE c = "delete_sq"
  <2>1. sq' = FALSE /\ cq' = cq /\ dbs' = dbs /\ old_dbs' = old_dbs
    BY <1>2, <1>7
  <2>2. IoGap = 0
    BY <1>7 DEF IoQuiet
  <2>3. IoGap' = 0 /\ IoSlots' = {} /\ IoSlots = {}
    BY <2>1, <2>2, NoSlots DEF IoGap, IoSlots
  <2>4. Fetching("sq", IoFrom, hio.tail, QSize)'
    BY <1>3 DEF Fetching
  <2>5. IoInv'
    BY <1>1, <1>3, <1>4, <2>1, <2>2, <2>3, <2>4 DEF IoInv
  <2>6. IoQuiet'
    BY <1>1, <1>3, <2>2, <2>3, QuietAside
  <2> QED BY <1>1, <2>1, <2>5, <2>6, RingAside
<1> QED BY <1>5, <1>6, <1>7

\* A command is issued: with "create_cq" the host clears the new ring.
LEMMA IoIssue ==
  ASSUME AdmInv, Life, IoInv, IoRing, IoQuiet, Disp, NEW c \in AdminCmds, SubmitAdmin(c)
  PROVE  IoInv' /\ IoRing' /\ IoQuiet'
<1>1. /\ MayIssue(c) /\ c \notin hout /\ hout' = hout \cup {c}
      /\ UNCHANGED <<sqe, busy, posted, work, sq, cq, worker, hq, old_dbs, disp>>
      /\ dbs'["sq"] = dbs["sq"]
      /\ IF c = "create_cq" THEN cqe' = EmptyCqes(QSize) /\ hio' = HostSide
         ELSE UNCHANGED <<cqe, hio>>
  BY DEF SubmitAdmin, MayIssue, devVars, histVars, Disp, Doorbells
<1>2. CASE c = "create_cq"
  <2>1. hq = "none" /\ cq = NULL /\ ~sq
    BY <1>1, <1>2, DoneOut DEF MayIssue, Life
  <2>2. busy = {} /\ worker # "filled" /\ work = {} /\ disp.pc # "sq"
    BY <2>1 DEF IoQuiet
  <2>3. Len(posted) = 0
    BY <2>2, NothingBusy
  <2>4. IoGap' = 0 /\ IoGap = 0 /\ IoSlots' = {} /\ IoSlots = {}
    BY <1>1, <2>1 DEF IoGap, IoSlots
  <2>5. cqe' \in [Slots(QSize) -> CqeType(Tags)] /\ hio' \in SideType(QSize)
    BY <1>1, <1>2, NewCq DEF EmptyCqes, CqeType, SideType, HostSide
  <2>6. IoTypes'
    BY <1>1, <2>5 DEF IoInv, IoTypes
  <2>7. IoInv'
    BY <1>1, <2>1, <2>2, <2>4, <2>6 DEF IoInv, Fetching
  <2>8. RingOk(EmptyCqes(QSize), QSize, 0, 1, posted)
    <3>1. \A s \in Slots(QSize) : /\ Gap(0, s, QSize) \in Nat
                                  /\ EmptyCqes(QSize)[s].phase = 0
                                  /\ Expected(s, 0, 1) = 1
      BY DEF Gap, Slots, EmptyCqes, Expected
    <3> QED BY <2>3, <3>1 DEF RingOk
  <2>9. IoRing'
    BY <1>1, <1>2, <2>1, <2>8 DEF IoRing, HostSide
  <2>10. IoQuiet'
    BY <1>1, <1>2, <2>1, <2>2, <2>4 DEF IoQuiet
  <2> QED BY <2>7, <2>9, <2>10
<1>3. CASE c # "create_cq"
  <2>1. UNCHANGED <<cqe, hio>>
    BY <1>1, <1>3
  <2>2. IoTypes'
    BY <1>1, <2>1 DEF IoInv, IoTypes
  <2>3. IoInv' /\ IoGap' = IoGap
    BY <1>1, <2>1, <2>2, IoAside
  <2>4. IoRing'
    BY <1>1, <2>1, RingAside
  <2>5. c = "delete_sq" => IoGap = 0
    <3>1. CASE c = "delete_sq" /\ sq
      <4>1. IoFrom = hio.tail
        BY <1>1, <3>1 DEF MayIssue, IoInv, IoFrom, Taken
      <4> QED BY <3>1, <4>1, IoFacts, StepGap DEF IoGap
    <3>2. CASE ~sq
      BY <3>2 DEF IoGap
    <3> QED BY <3>1, <3>2
  <2>6. IoQuiet'
    BY <1>1, <1>3, <2>1, <2>3, <2>5 DEF IoQuiet, MayIssue
  <2> QED BY <2>3, <2>4, <2>6
<1> QED BY <1>2, <1>3

\* The host takes the answer to a command.
LEMMA QuietReap ==
  ASSUME Life, IoQuiet, NEW c \in hout, hout' = hout \ {c},
         hq' = CASE c \in {"num_queues", "delete_cq"} -> "none"
                 [] c = "create_cq" -> "cq"
                 [] c = "create_sq" -> "both"
                 [] c = "delete_sq" -> "closing"
                 [] OTHER -> hq,
         UNCHANGED <<busy, work, hio, worker, disp>>, IoGap' = IoGap
  PROVE  IoQuiet'
<1>1. CASE c \notin QueueCmds
  <2>1. hq' = hq
    BY <1>1 DEF QueueCmds
  <2> QED BY <2>1 DEF IoQuiet
<1>2. CASE c = "num_queues"
  <2>1. hq' = "none" /\ hq = "boot"
    BY <1>2 DEF Life
  <2> QED BY <2>1 DEF IoQuiet
<1>3. CASE c = "create_cq"
  <2>1. hq' = "cq" /\ hq = "none"
    BY <1>3 DEF Life
  <2> QED BY <1>3, <2>1 DEF IoQuiet
<1>4. CASE c = "create_sq"
  <2>1. hq' = "both" /\ hq = "cq"
    BY <1>4 DEF Life
  <2> QED BY <2>1 DEF IoQuiet, Life
<1>5. CASE c = "delete_sq"
  <2>1. hq' = "closing" /\ hq = "both"
    BY <1>5 DEF Life
  <2> QED BY <1>5, <2>1 DEF IoQuiet, Life
<1>6. CASE c = "delete_cq"
  <2>1. hq' = "none" /\ hq = "closing"
    BY <1>6 DEF Life
  <2> QED BY <1>6, <2>1 DEF IoQuiet, Life
<1> QED BY <1>1, <1>2, <1>3, <1>4, <1>5, <1>6 DEF QueueCmds

LEMMA PairAside ==
  ASSUME IoInv, IoRing, UNCHANGED <<sqe, cqe, cq, hio, busy, posted, worker, work, sq>>,
         dbs'["sq"] = dbs["sq"], old_dbs'["sq"] = old_dbs["sq"],
         disp' = disp \/ (disp.pc # "sq" /\ disp'.pc # "sq")
  PROVE  IoInv' /\ IoRing' /\ IoGap' = IoGap
<1>1. IoTypes'
  BY DEF IoInv, IoTypes
<1> QED BY <1>1, IoAside, RingAside

-----------------------------------------------------------------------------
(***************************************************************************)
(* The invariant is inductive.                                             *)
(***************************************************************************)
LEMMA InvInit == Init => ControllerInv
<1> SUFFICES ASSUME Init PROVE ControllerInv
  OBVIOUS
<1>1. 0 \in Slots(AqDepth) /\ AqDepth \in Nat /\ AqDepth > 1
  BY ControllerAssumption DEF Slots
<1>2. 0 \in Slots(QSize) /\ QSize \in Nat
  BY NewCq
<1>3. << >> \in Seq(AdminCmds) /\ << >> \in Seq(Tags) /\ Len(<< >>) = 0
  OBVIOUS
<1>4. Cardinality({}) = 0
  BY FS_EmptySet
<1>5. RegsInv
  <2>1. /\ bar = [r \in Regs |-> 0] /\ old_bar = bar /\ rdy = FALSE
        /\ "cc" \in Regs /\ \A r \in Regs : Set[r] \in {1, 2}
    BY SetValues DEF Init
  <2>2. bar \in [Regs -> 0 .. 2] /\ \A r \in Regs : bar[r] = 0
    BY <2>1
  <2>3. /\ \A r \in Regs : old_bar[r] <= bar[r] /\ bar[r] <= Set[r]
        /\ old_bar["aqa"] = 0 /\ admin_q = NULL
    BY <2>1, <2>2, SetValues DEF Init
  <2> QED BY <2>1, <2>2, <2>3 DEF RegsInv
<1>6. Disp /\ Flags /\ disp.pc = "idle"
  BY DEF Init, Disp, Flags, Idle, At, Pcs
<1>7. ASSUME NEW n \in Nat
      PROVE  /\ RingOk(EmptyCqes(n), n, 0, 1, << >>)
             /\ Gap(0, 0, n) = 0 /\ Between(0, 0, n) = {}
  <2>1. \A s \in Slots(n) : /\ Gap(0, s, n) \in Nat /\ EmptyCqes(n)[s].phase = 0
                            /\ Expected(s, 0, 1) = 1
    BY DEF Gap, Slots, EmptyCqes, Expected
  <2>2. Gap(0, 0, n) = 0
    BY DEF Gap
  <2> QED BY <1>3, <2>1, <2>2 DEF RingOk, Between
<1>8. SplitUp({}, asqe, {}, {}, << >>) /\ SplitUp({}, sqe, {}, {}, << >>)
  BY <1>3 DEF SplitUp
<1>9. AdmInv
  <2>1. AdmTypes
    BY <1>1, <1>3 DEF Init, AdmTypes, EmptyCqes, CqeType, SideType, HostSide
  <2>2. AFrom = 0 /\ hadm.tail = 0 /\ hadm.head = 0 /\ hadm.phase = 1
    BY <1>6 DEF Init, AFrom, Taken, HostSide, Doorbells
  <2>3. Fetching("asq", AFrom, hadm.tail, AqDepth)
    BY <1>6 DEF Fetching
  <2>4. /\ dbs["asq"] = 0 /\ old_dbs["asq"] = 0 /\ ~rdy /\ hadm = HostSide /\ hout = {}
        /\ aposted = << >> /\ acqe = EmptyCqes(AqDepth) /\ admin_q = NULL
    BY DEF Init, Doorbells
  <2>8. Rung /\ Fresh
    BY <1>6, <2>2, <2>4 DEF Rung, Fresh
  <2>5. RingOk(EmptyCqes(AqDepth), AqDepth, 0, 1, << >>)
    BY <1>1, <1>7
  <2>6. Gap(0, 0, AqDepth) = 0 /\ Between(0, 0, AqDepth) = {}
    BY <1>1, <1>7
  <2>7. Cardinality(hout) = Gap(AFrom, hadm.tail, AqDepth) + Len(aposted)
        /\ Cardinality(hout) < AqDepth
    BY <1>1, <1>3, <1>4, <2>2, <2>4, <2>6
  <2> QED BY <1>1, <1>6, <1>8, <2>1, <2>2, <2>3, <2>4, <2>5, <2>6, <2>7, <2>8 DEF AdmInv
<1>10. Life
  <2>1. \A c : ~Done(c)
    BY <1>3 DEF Init, Done, Among
  <2> QED BY <2>1 DEF Init, Life
<1>11. IoInv
  <2>1. IoTypes
    BY <1>2, <1>3 DEF Init, IoTypes, EmptyCqes, CqeType, SideType, HostSide
  <2>2. IoGap = 0 /\ IoSlots = {}
    BY DEF Init, IoGap, IoSlots
  <2>3. Fetching("sq", IoFrom, hio.tail, QSize)
    BY <1>6 DEF Fetching
  <2> QED BY <1>2, <1>3, <1>4, <1>6, <1>8, <2>1, <2>2, <2>3 DEF Init, IoInv, Doorbells
<1>12. IoRing
  BY <1>2, <1>7 DEF Init, IoRing, HostSide
<1>13. IoQuiet
  BY <1>6 DEF Init, IoQuiet, IoGap
<1> QED BY <1>5, <1>6, <1>9, <1>10, <1>11, <1>12, <1>13 DEF ControllerInv

LEMMA BarsStep == ASSUME ControllerInv, ProcBars PROVE ControllerInv'
<1> USE DEF ControllerInv
<1>1. RegsInv' /\ AdmInv' /\ disp.pc # "sq" /\ disp'.pc # "sq"
  BY RegsBars, AdmBars DEF AdmInv, AdmTypes
<1>2. /\ UNCHANGED <<asqe, acqe, sqe, cqe, nr_sq, sq, cq, work, worker, irq>>
      /\ UNCHANGED <<hadm, hio, hout, busy, hq, handling, aposted, posted>>
  BY DEF ProcBars, ringVars, hostVars, histVars
<1>3. /\ DOMAIN dbs' = Doorbells /\ DOMAIN old_dbs' = Doorbells
      /\ dbs'["sq"] = dbs["sq"] /\ old_dbs'["sq"] = old_dbs["sq"]
  BY DEF ProcBars, BarAqa, BarAsq, BarAcq, BarCc, NotFound, Disp, Doorbells
<1>4. Disp' /\ Flags'
  <2>1. \E pc \in {"idle", "bar_asq", "bar_acq", "bar_cc"} : disp' = At(pc)
    BY DEF ProcBars, BarAqa, BarAsq, BarAcq, BarCc, Found, NotFound, Idle
  <2>2. disp' \in [pc : Pcs, seq : Nat, num : Nat] /\ (disp'.pc = "idle" => disp' = Idle)
    BY <2>1 DEF At, Pcs, Idle
  <2> QED BY <1>2, <1>3, <2>2 DEF Disp, Flags
<1>5. IoInv' /\ IoRing' /\ IoGap' = IoGap
  BY <1>1, <1>2, <1>3, PairAside
<1> QED BY <1>1, <1>2, <1>4, <1>5, LifeAside, QuietAside

LEMMA AstrayStep == ASSUME ControllerInv, AdminAstray PROVE ControllerInv'
<1> USE DEF ControllerInv
<1>1. /\ disp.pc = "asq" /\ disp' = At("astray")
      /\ UNCHANGED <<bar, old_bar, rdy, admin_q, old_dbs, nr_sq, sq, cq, dbs>>
      /\ UNCHANGED <<asqe, acqe, sqe, cqe, work, worker, irq>>
      /\ UNCHANGED <<hadm, hio, hout, busy, hq, handling, aposted, posted>>
  BY DEF AdminAstray, devVars, ringVars, hostVars, histVars
<1>2. AdmInv'
  BY AdmLost
<1>3. Disp' /\ Flags' /\ disp.pc # "sq" /\ disp'.pc # "sq"
  BY <1>1 DEF Disp, Flags, At, Pcs
<1>4. IoInv' /\ IoRing' /\ IoGap' = IoGap
  BY <1>1, <1>3, PairAside
<1> QED BY <1>1, <1>2, <1>3, <1>4, RegsAside, LifeAside, QuietAside

LEMMA SeeAdminStep == ASSUME ControllerInv, SeeDoorbell("asq", AqDepth) PROVE ControllerInv'
<1> USE DEF ControllerInv
<1>1. /\ disp = Idle /\ disp'.pc = "asq" /\ disp'.seq = 0
      /\ disp' = [pc |-> "asq", seq |-> 0, num |-> disp'.num]
      /\ UNCHANGED <<bar, old_bar, rdy, admin_q, old_dbs, nr_sq, sq, cq, dbs>>
      /\ UNCHANGED <<asqe, acqe, sqe, cqe, work, worker, irq>>
      /\ UNCHANGED <<hadm, hio, hout, busy, hq, handling, aposted, posted>>
  BY DEF SeeDoorbell, devVars, ringVars, hostVars, histVars
<1>2. AdmInv'
  BY AdmSee
<1>3. Disp' /\ Flags'
  <2>1. disp'.num \in Nat
    BY <1>1, <1>2 DEF AdmInv, Fetching, Slots
  <2>2. disp' \in [pc : Pcs, seq : Nat, num : Nat]
    BY <1>1, <2>1 DEF Pcs
  <2> QED BY <1>1, <2>2 DEF Disp, Flags
<1>4. disp.pc # "sq" /\ disp'.pc # "sq"
  BY <1>1 DEF Idle, At
<1>5. IoInv' /\ IoRing' /\ IoGap' = IoGap
  BY <1>1, <1>4, PairAside
<1> QED BY <1>1, <1>2, <1>3, <1>4, <1>5, RegsAside, LifeAside, QuietAside

LEMMA AdminStep == ASSUME ControllerInv, AdminReq PROVE ControllerInv'
<1> USE DEF ControllerInv
<1> DEFINE c == asqe[AFrom]
<1>1. /\ disp.pc = "asq" /\ disp' = [disp EXCEPT !.seq = @ + 1]
      /\ (old_dbs["asq"] + disp.seq) % AqDepth = AFrom /\ AdminEffect(c)
      /\ admin_q' = Advance(admin_q, AqDepth)
      /\ UNCHANGED <<bar, old_bar, rdy, irq, handling, hq, hout>>
  BY DEF AdminReq, AFrom, Taken, hostVars
<1>2. AdmInv' /\ c \in hout /\ ~Done(c) /\ \A x : Done(x)' <=> Done(x) \/ x = c
  BY AdmTake
<1>3. RegsInv'
  <2>1. admin_q' # NULL /\ admin_q # NULL
    <3>1. rdy /\ admin_q # NULL
      BY <1>1 DEF AdmInv, RegsInv
    <3>2. admin_q \in [head : Slots(AqDepth), phase : {0, 1}]
      BY <3>1 DEF AdmInv, AdmTypes
    <3> QED BY <1>1, <3>2, ControllerAssumption, NullAssumption, AdvanceHead
  <2> QED BY <1>1, <2>1, RegsAside
<1>4. Disp' /\ Flags'
  <2>1. DOMAIN dbs' = Doorbells /\ DOMAIN old_dbs' = Doorbells /\ nr_sq' \in {0, 1}
    BY <1>1 DEF AdminEffect, Disp, Flags
  <2>2. /\ disp' \in [pc : Pcs, seq : Nat, num : Nat]
        /\ disp'.pc = "asq"
    BY <1>1 DEF Disp
  <2> QED BY <1>1, <2>1, <2>2 DEF Disp, Flags
<1> HIDE DEF c
<1>5. Life'
  BY <1>1, <1>2, DoneOut, LifeTake
<1>6. IoInv' /\ IoRing' /\ IoQuiet'
  <2>1. c = asqe[(old_dbs["asq"] + disp.seq) % AqDepth]
    BY <1>1 DEF c
  <2> QED BY <1>2, <2>1, IoTake
<1> QED BY <1>2, <1>3, <1>4, <1>5, <1>6

LEMMA EndAdminStep == ASSUME ControllerInv, EndAdmin PROVE ControllerInv'
<1> USE DEF ControllerInv
<1>1. /\ disp.pc = "asq" /\ disp' = Idle /\ irq' = irq \cup {0}
      /\ old_dbs' = [old_dbs EXCEPT !["asq"] = (@ + disp.num) % AqDepth]
      /\ UNCHANGED <<bar, old_bar, rdy, admin_q, nr_sq, sq, cq, dbs>>
      /\ UNCHANGED <<asqe, acqe, sqe, cqe, work, worker>>
      /\ UNCHANGED <<hadm, hio, hout, busy, hq, handling, aposted, posted>>
  BY DEF EndAdmin, ringVars, hostVars, histVars
<1>2. AdmInv'
  BY AdmEnd
<1>3. Disp' /\ Flags'
  BY <1>1 DEF Disp, Flags, Idle, At, Pcs
<1>4. disp.pc # "sq" /\ disp'.pc # "sq" /\ old_dbs'["sq"] = old_dbs["sq"]
  BY <1>1 DEF Idle, At, Disp, Doorbells
<1>5. IoInv' /\ IoRing' /\ IoGap' = IoGap
  BY <1>1, <1>4, PairAside
<1> QED BY <1>1, <1>2, <1>3, <1>4, <1>5, RegsAside, LifeAside, QuietAside

LEMMA SeeIoStep == ASSUME ControllerInv, SeeDoorbell("sq", QSize) PROVE ControllerInv'
<1> USE DEF ControllerInv
<1>1. /\ disp = Idle /\ disp'.pc = "sq" /\ disp'.seq = 0
      /\ disp' = [pc |-> "sq", seq |-> 0, num |-> disp'.num]
      /\ UNCHANGED <<bar, old_bar, rdy, admin_q, old_dbs, nr_sq, sq, cq, dbs>>
      /\ UNCHANGED <<asqe, acqe, sqe, cqe, work, worker, irq>>
      /\ UNCHANGED <<hadm, hio, hout, busy, hq, handling, aposted, posted>>
  BY DEF SeeDoorbell, devVars, ringVars, hostVars, histVars
<1>2. IoInv' /\ IoGap' = IoGap /\ IoGap > 0 /\ sq
  BY IoSee
<1>3. Disp' /\ Flags'
  <2>1. disp'.num \in Nat
    BY <1>1, <1>2 DEF IoInv, Fetching, Slots
  <2>2. disp' \in [pc : Pcs, seq : Nat, num : Nat]
    BY <1>1, <2>1 DEF Pcs
  <2> QED BY <1>1, <2>2 DEF Disp, Flags
<1>4. AdmInv'
  BY <1>1, AdmAside DEF Idle, At
<1>5. IoRing'
  BY <1>1, RingAside
<1>6. IoQuiet'
  BY <1>1, <1>2, IoFacts DEF IoQuiet
<1> QED BY <1>1, <1>2, <1>3, <1>4, <1>5, <1>6, RegsAside, LifeAside

LEMMA AcceptStep == ASSUME ControllerInv, Accept PROVE ControllerInv'
<1> USE DEF ControllerInv
<1>1. /\ disp.pc = "sq" /\ disp' = [disp EXCEPT !.seq = @ + 1]
      /\ UNCHANGED <<bar, old_bar, rdy, admin_q, old_dbs, nr_sq, sq, cq, dbs>>
      /\ UNCHANGED <<asqe, acqe, cqe, worker, irq>>
      /\ UNCHANGED <<hadm, hio, hout, busy, hq, handling, aposted, posted>>
  BY DEF Accept, devVars, hostVars, histVars
<1>2. IoInv' /\ IoGap > 0
  BY IoAccept
<1>3. Disp' /\ Flags' /\ disp'.pc = "sq"
  BY <1>1 DEF Disp, Flags
<1>4. AdmInv'
  BY <1>1, <1>3, AdmAside
<1>5. IoRing'
  BY <1>1, RingAside
<1>6. IoQuiet'
  BY <1>1, <1>2 DEF IoQuiet
<1> QED BY <1>1, <1>2, <1>3, <1>4, <1>5, <1>6, RegsAside, LifeAside

LEMMA EndFetchStep == ASSUME ControllerInv, EndFetch PROVE ControllerInv'
<1> USE DEF ControllerInv
<1>1. /\ disp.pc = "sq" /\ disp' = Idle
      /\ old_dbs' = [old_dbs EXCEPT !["sq"] = (@ + disp.seq) % QSize]
      /\ UNCHANGED <<bar, old_bar, rdy, admin_q, nr_sq, sq, cq, dbs>>
      /\ UNCHANGED <<asqe, acqe, sqe, cqe, work, worker, irq>>
      /\ UNCHANGED <<hadm, hio, hout, busy, hq, handling, aposted, posted>>
  BY DEF EndFetch, ringVars, hostVars, histVars
<1>2. IoInv' /\ IoGap' = IoGap
  BY IoEnd
<1>3. Disp' /\ Flags' /\ disp'.pc = "idle" /\ old_dbs'["asq"] = old_dbs["asq"]
  BY <1>1 DEF Disp, Flags, Idle, At, Pcs, Doorbells
<1>4. AdmInv'
  BY <1>1, <1>3, AdmAside
<1> QED BY <1>1, <1>2, <1>3, <1>4, RegsAside, LifeAside, RingAside, QuietAside

LEMMA WorkerStep == ASSUME ControllerInv, Worker PROVE ControllerInv'
<1> USE DEF ControllerInv
<1>1. /\ UNCHANGED <<bar, old_bar, rdy, admin_q, old_dbs, nr_sq, sq, dbs, disp>>
      /\ UNCHANGED <<asqe, acqe, sqe, hadm, hio, hout, busy, hq, handling, aposted>>
      /\ irq' \in {irq, irq \cup {1}}
  BY DEF Worker, Fill, Filled, TestIrq, SignalIrq, devVars, ringVars, hostVars, histVars
<1>2. RegsInv' /\ AdmInv' /\ Disp' /\ Flags'
  BY <1>1, RegsAside, AdmAside DEF Disp, Flags
<1>3. ASSUME NEW t \in Tags, Fill(t) PROVE ControllerInv'
  <2>1. IoInv' /\ IoRing' /\ IoGap' = IoGap /\ hq = "both" /\ "delete_sq" \notin hout
    BY <1>3, IoFill, WorkHasQueue DEF Fill
  <2>2. cq' = cq
    BY <1>3 DEF Fill, devVars
  <2>3. "delete_cq" \notin hout /\ "create_cq" \notin hout
    BY <2>1 DEF Life
  <2> QED BY <1>1, <1>2, <2>1, <2>2, <2>3, LifeAside DEF IoQuiet
<1>4. CASE Filled
  <2>1. IoInv' /\ IoRing' /\ IoGap' = IoGap /\ cq # NULL /\ cq' # NULL
    BY <1>4, IoFilled
  <2>2. worker' = "pass" /\ UNCHANGED work
    BY <1>4 DEF Filled
  <2> QED BY <1>1, <1>2, <2>1, <2>2, LifeAside, QuietAside
<1>5. CASE TestIrq
  <2>1. /\ worker = "pass" /\ worker' = "signal" /\ cq # NULL
        /\ cq' = [cq EXCEPT !.ready = FALSE]
        /\ UNCHANGED <<work, cqe, posted>>
    BY <1>5 DEF TestIrq, ringVars, histVars
  <2>2. cq \in [head : Slots(QSize), phase : {0, 1}, ready : BOOLEAN]
    BY <2>1 DEF IoInv, IoTypes
  <2>3. cq' \in [head : Slots(QSize), phase : {0, 1}, ready : BOOLEAN]
    BY <2>1, <2>2
  <2>4. cq'.head = cq.head /\ cq'.phase = cq.phase /\ cq' # NULL
    BY <2>1, <2>2, <2>3, NullAssumption
  <2>5. IoTypes'
    BY <1>1, <2>1, <2>3 DEF IoInv, IoTypes
  <2>6. IoInv' /\ IoGap' = IoGap
    BY <1>1, <2>1, <2>5, IoAside
  <2>7. IoRing'
    BY <1>1, <2>1, <2>4, RingAside
  <2> QED BY <1>1, <1>2, <2>1, <2>4, <2>6, <2>7, LifeAside, QuietAside
<1>6. CASE SignalIrq
  <2>1. /\ worker = "signal" /\ worker' = "pass"
        /\ UNCHANGED <<work, cq, cqe, posted>>
    BY <1>6 DEF SignalIrq, devVars, ringVars, histVars
  <2>2. IoTypes'
    BY <1>1, <2>1 DEF IoInv, IoTypes
  <2>3. IoInv' /\ IoGap' = IoGap
    BY <1>1, <2>1, <2>2, IoAside
  <2>4. IoRing'
    BY <1>1, <2>1, RingAside
  <2> QED BY <1>1, <1>2, <2>1, <2>3, <2>4, LifeAside, QuietAside
<1> QED BY <1>3, <1>4, <1>5, <1>6 DEF Worker

LEMMA HostStep == ASSUME ControllerInv, Host PROVE ControllerInv'
<1> USE DEF ControllerInv
<1>1. ASSUME NEW r \in Regs, WriteReg(r) PROVE ControllerInv'
  <2>1. /\ UNCHANGED <<old_bar, rdy, admin_q, old_dbs, nr_sq, sq, cq, dbs>>
        /\ UNCHANGED <<asqe, acqe, sqe, cqe, work, disp, worker, irq>>
        /\ UNCHANGED <<hadm, hio, hout, busy, hq, handling, aposted, posted>>
    BY <1>1 DEF WriteReg, devVars, ringVars, hostVars, histVars
  <2>2. RegsInv' /\ AdmInv' /\ Disp' /\ Flags' /\ Life'
    BY <1>1, <2>1, RegsWrite, AdmAside, LifeAside DEF Disp, Flags
  <2>3. IoInv' /\ IoRing' /\ IoGap' = IoGap
    BY <2>1, PairAside
  <2> QED BY <2>1, <2>2, <2>3, QuietAside
<1>2. ASSUME NEW c \in AdminCmds, SubmitAdmin(c) PROVE ControllerInv'
  <2>1. /\ UNCHANGED <<bar, old_bar, rdy, admin_q, old_dbs, nr_sq, disp, irq, handling>>
        /\ dbs' = [dbs EXCEPT !["asq"] = (hadm.tail + 1) % AqDepth]
    BY <1>2 DEF SubmitAdmin, devVars
  <2>2. RegsInv' /\ Disp' /\ Flags'
    BY <2>1, RegsAside DEF Disp, Flags
  <2>3. AdmInv' /\ Life'
    BY <1>2, AdmSubmit, LifeSubmit
  <2>4. IoInv' /\ IoRing' /\ IoQuiet'
    BY <1>2, IoIssue
  <2> QED BY <2>2, <2>3, <2>4
<1>3. ASSUME NEW t \in Tags, SubmitIo(t) PROVE ControllerInv'
  <2>1. /\ UNCHANGED <<bar, old_bar, rdy, admin_q, old_dbs, nr_sq, sq, cq, disp, irq, handling>>
        /\ UNCHANGED <<asqe, acqe, cqe, work, worker, hadm, hout, hq, aposted, posted>>
        /\ dbs' = [dbs EXCEPT !["sq"] = (hio.tail + 1) % QSize]
        /\ hio' = [hio EXCEPT !.tail = (@ + 1) % QSize]
        /\ hq = "both" /\ "delete_sq" \notin hout
    BY <1>3 DEF SubmitIo, devVars, histVars
  <2>2. Disp' /\ Flags' /\ dbs'["asq"] = dbs["asq"]
    BY <2>1 DEF Disp, Flags, Doorbells
  <2>3. RegsInv' /\ AdmInv' /\ Life'
    BY <2>1, <2>2, RegsAside, AdmAside, LifeAside
  <2>4. IoInv'
    BY <1>3, IoSubmit
  <2>5. IoRing'
    <3>1. hio'.head = hio.head /\ hio'.phase = hio.phase
      BY <2>1 DEF IoInv, IoTypes, SideType
    <3> QED BY <2>1, <3>1 DEF IoRing
  <2>6. IoQuiet'
    BY <2>1 DEF Life, IoQuiet
  <2> QED BY <2>2, <2>3, <2>4, <2>5, <2>6
<1>4. ASSUME NEW v \in {0, 1}, TakeIrq(v) PROVE ControllerInv'
  <2>1. /\ UNCHANGED <<bar, old_bar, rdy, admin_q, old_dbs, nr_sq, sq, cq, dbs>>
        /\ UNCHANGED <<asqe, acqe, sqe, cqe, work, disp, worker>>
        /\ UNCHANGED <<hadm, hio, hout, busy, hq, aposted, posted>>
        /\ irq' = irq \ {v} /\ handling' = handling \cup {v}
    BY <1>4 DEF TakeIrq, devVars, ringVars, histVars
  <2>2. RegsInv' /\ AdmInv' /\ Disp' /\ Flags' /\ Life'
    BY <2>1, RegsAside, AdmAside, LifeAside DEF Disp, Flags
  <2>3. IoInv' /\ IoRing' /\ IoGap' = IoGap
    BY <2>1, PairAside
  <2> QED BY <2>1, <2>2, <2>3, QuietAside
<1>5. CASE ReapAdmin
  <2>1. /\ UNCHANGED <<bar, old_bar, rdy, admin_q, old_dbs, nr_sq, sq, cq, dbs>>
        /\ UNCHANGED <<asqe, sqe, cqe, work, disp, worker, irq, hio, busy, posted>>
        /\ handling' \subseteq handling
    BY <1>5 DEF ReapAdmin, devVars
  <2>2. RegsInv' /\ Disp' /\ Flags'
    BY <2>1, RegsAside DEF Disp, Flags
  <2>3. IoInv' /\ IoRing' /\ IoGap' = IoGap
    BY <2>1, PairAside
  <2>4. CASE acqe[hadm.head].phase # hadm.phase
    <3>1. UNCHANGED <<hadm, hout, hq, acqe, aposted>>
      BY <1>5, <2>4 DEF ReapAdmin
    <3> QED BY <2>1, <2>2, <2>3, <3>1, AdmAside, LifeAside, QuietAside
  <2>5. CASE acqe[hadm.head].phase = hadm.phase
    <3> DEFINE c == acqe[hadm.head].cid
    <3>1. /\ AdmInv' /\ c \in hout /\ Done(c) /\ hout' = hout \ {c}
          /\ \A x : Done(x) <=> Done(x)' \/ x = c
          /\ ~Among(c, aposted')
      BY <1>5, <2>5, AdmReap
    <3>2. hq' = CASE c \in {"num_queues", "delete_cq"} -> "none"
                  [] c = "create_cq" -> "cq"
                  [] c = "create_sq" -> "both"
                  [] c = "delete_sq" -> "closing"
                  [] OTHER -> hq
      BY <1>5, <2>5 DEF ReapAdmin
    <3> HIDE DEF c
    <3>3. Life'
      BY <2>1, <3>1, <3>2, DoneOut, LifeReap
    <3>4. IoQuiet'
      BY <2>1, <2>3, <3>1, <3>2, QuietReap
    <3> QED BY <2>2, <2>3, <3>1, <3>3, <3>4
  <2> QED BY <2>4, <2>5
<1>6. CASE ReapIo
  <2>1. /\ UNCHANGED <<bar, old_bar, rdy, admin_q, old_dbs, nr_sq, sq, cq, dbs>>
        /\ UNCHANGED <<asqe, acqe, sqe, work, disp, worker, irq, hadm, hout, hq, aposted>>
        /\ handling' \subseteq handling
    BY <1>6 DEF ReapIo, devVars
  <2>2. RegsInv' /\ AdmInv' /\ Disp' /\ Flags' /\ Life'
    BY <2>1, RegsAside, AdmAside, LifeAside DEF Disp, Flags
  <2>3. CASE cqe[hio.head].phase # hio.phase \/ hq = "none"
    <3>1. UNCHANGED <<hio, busy, cqe, posted>>
      BY <1>6, <2>3 DEF ReapIo
    <3>2. IoInv' /\ IoRing' /\ IoGap' = IoGap
      BY <2>1, <3>1, PairAside
    <3> QED BY <2>1, <2>2, <3>1, <3>2, QuietAside
  <2>4. CASE cqe[hio.head].phase = hio.phase /\ hq # "none"
    BY <1>6, <2>2, <2>4, IoReap
  <2> QED BY <2>3, <2>4
<1> QED BY <1>1, <1>2, <1>3, <1>4, <1>5, <1>6 DEF Host, HostIrq

LEMMA InvStutter == ASSUME ControllerInv, UNCHANGED vars PROVE ControllerInv'
<1>1. /\ UNCHANGED <<bar, old_bar, rdy, admin_q, old_dbs, nr_sq, sq, cq, dbs>>
      /\ UNCHANGED <<asqe, acqe, sqe, cqe, work, disp, worker, irq>>
      /\ UNCHANGED <<hadm, hio, hout, busy, hq, handling, aposted, posted>>
  BY DEF vars, devVars, ringVars, hostVars, histVars
<1>2. RegsInv' /\ AdmInv' /\ Disp' /\ Flags' /\ Life'
  BY <1>1, RegsAside, AdmAside, LifeAside DEF ControllerInv, Disp, Flags
<1>3. IoInv' /\ IoRing' /\ IoGap' = IoGap
  BY <1>1, PairAside DEF ControllerInv
<1> QED BY <1>1, <1>2, <1>3, QuietAside DEF ControllerInv

\* The invariant of the controller: which thread holds each outstanding
\* command, what the rings hold, and which queues exist at each point of the
\* host's life cycle, through every interleaving of dispatcher, worker and
\* host.
THEOREM ControllerInvariant == Spec => []ControllerInv
<1>1. ControllerInv /\ [Next]_vars => ControllerInv'
  <2> SUFFICES ASSUME ControllerInv, [Next]_vars PROVE ControllerInv'
    OBVIOUS
  <2>1. CASE UNCHANGED vars
    BY <2>1, InvStutter
  <2>2. CASE Dispatcher
    BY <2>2, BarsStep, SeeAdminStep, AdminStep, AstrayStep, EndAdminStep, SeeIoStep, AcceptStep,
       EndFetchStep DEF Dispatcher
  <2>3. CASE Worker
    BY <2>3, WorkerStep
  <2>4. CASE Host
    BY <2>4, HostStep
  <2> QED BY <2>1, <2>2, <2>3, <2>4 DEF Next
<1> QED BY <1>1, InvInit, PTL DEF Spec

\* Every register, doorbell, ring and queue keeps its type: no head, tail or
\* doorbell leaves its ring, whatever the depths of the queues.
THEOREM ControllerTypes == Spec => []TypeOK
<1>1. ControllerInv => TypeOK
  <2> SUFFICES ASSUME ControllerInv PROVE TypeOK
    OBVIOUS
  <2> USE DEF ControllerInv
  <2>1. dbs["asq"] \in Slots(AqDepth) /\ work \subseteq Tags
    BY AdmFacts, IoFacts DEF AdmInv, Rung, IoInv, IoTypes
  <2>2. sq \in BOOLEAN
    BY DEF Life
  <2>3. /\ dbs["asq"] \in Slots(AqDepth) /\ dbs["sq"] \in Slots(QSize)
        /\ old_dbs["asq"] \in Slots(AqDepth) /\ old_dbs["sq"] \in Slots(QSize)
    BY <2>1 DEF AdmInv, IoInv
  <2>4. \A d \in {dbs, old_dbs} : d["asq"] \in Slots(AqDepth) /\ d["sq"] \in Slots(QSize)
    BY <2>3
  <2> QED BY <2>1, <2>2, <2>4 DEF TypeOK, RegsInv, AdmInv, AdmTypes, IoInv, IoTypes, Flags
<1> QED BY <1>1, ControllerInvariant, PTL

\* In both completion rings the entries from the host's head on are the
\* completions that it has not taken, in order and with the expected phase,
\* and the entry behind them has the other phase: for every depth and number
\* of commands, around the end of the rings, and across queue pairs that are
\* deleted and created again.
THEOREM CompletionsInOrder == Spec => []RingsAgree
<1>1. ControllerInv => RingsAgree
  <2> SUFFICES ASSUME ControllerInv PROVE RingsAgree
    OBVIOUS
  <2> USE DEF ControllerInv
  <2>1. Holds(acqe, AqDepth, hadm, aposted)
    BY AdmFacts, RingHolds DEF AdmInv
  <2>2. Holds(cqe, QSize, hio, posted)
    BY IoFacts, RingHolds DEF IoRing
  <2> QED BY <2>1, <2>2 DEF RingsAgree
<1> QED BY <1>1, ControllerInvariant, PTL

-----------------------------------------------------------------------------
(***************************************************************************)
(* No signal is lost.  A completion that the host has not taken has an     *)
(* interrupt on its way, at each stage of which one thread holds it; and   *)
(* the dispatcher polls the pair whenever it exists.                       *)
(***************************************************************************)
AdminRaised == aposted # << >> => disp.pc = "asq" \/ 0 \in irq \cup handling
IoRaised == posted # << >> => \/ worker \in {"filled", "signal"}
                              \/ cq # NULL /\ cq.ready
                              \/ 1 \in irq \cup handling
Polled == hq # "boot" \/ Done("num_queues") => nr_sq = 1

SignalInv == AdminRaised /\ IoRaised /\ Polled

\* An entry with the other phase at the host's head: all have been taken.
LEMMA AllTaken ==
  ASSUME NEW n \in Nat, NEW h \in Slots(n), NEW ph \in {0, 1}, NEW C, NEW seq \in Seq(C),
         NEW ring, RingOk(ring, n, h, ph, seq), ring[h].phase # ph
  PROVE  seq = << >>
<1>1. Gap(h, h, n) = 0 /\ Expected(h, h, ph) = ph /\ Len(seq) \in Nat
  BY LenProperties DEF Gap, Expected, Slots
<1>2. ~(0 < Len(seq))
  BY <1>1 DEF RingOk
<1>3. Len(seq) = 0
  BY <1>1, <1>2
<1> QED BY <1>3, EmptySeq

LEMMA AdminRaisedStep ==
  ASSUME ControllerInv, AdminRaised, Next
  PROVE  AdminRaised'
<1>1. disp \in [pc : Pcs, seq : Nat, num : Nat]
  BY DEF ControllerInv, Disp
<1>2. CASE AdminReq
  BY <1>1, <1>2 DEF AdminReq, AdminRaised
<1>3. CASE EndAdmin
  BY <1>3 DEF EndAdmin, AdminRaised
<1>4. CASE ReapAdmin
  <2>1. CASE acqe[hadm.head].phase # hadm.phase
    <3>1. aposted = << >>
      <4>1. /\ AqDepth \in Nat /\ hadm.head \in Slots(AqDepth) /\ hadm.phase \in {0, 1}
            /\ aposted \in Seq(AdminCmds)
            /\ RingOk(acqe, AqDepth, hadm.head, hadm.phase, aposted)
        BY AdmFacts DEF ControllerInv, AdmInv, AdmTypes
      <4> QED BY <2>1, <4>1, AllTaken
    <3>2. aposted' = aposted
      BY <1>4, <2>1 DEF ReapAdmin
    <3> QED BY <3>1, <3>2 DEF AdminRaised
  <2>2. CASE acqe[hadm.head].phase = hadm.phase
    BY <1>4, <2>2 DEF ReapAdmin, AdminRaised
  <2> QED BY <2>1, <2>2
<1>5. CASE ReapIo
  <2>1. UNCHANGED <<aposted, disp, irq>> /\ (0 \in handling => 0 \in handling')
    BY <1>5 DEF ReapIo
  <2> QED BY <2>1 DEF AdminRaised
<1>6. CASE Worker
  <2>1. UNCHANGED <<aposted, disp, handling>> /\ irq \subseteq irq'
    BY <1>6 DEF Worker, Fill, Filled, TestIrq, SignalIrq, hostVars, histVars
  <2> QED BY <2>1 DEF AdminRaised
<1>12. CASE ProcBars
  <2>1. UNCHANGED <<aposted, irq, handling>>
    BY <1>12 DEF ProcBars, hostVars, histVars
  <2> QED BY <1>12, <2>1, AdmBars DEF ControllerInv, AdminRaised
<1>13. CASE AdminAstray
  BY <1>13 DEF AdminAstray, ControllerInv, AdmInv, Fresh, AdminRaised, histVars
<1>7. CASE SeeDoorbell("asq", AqDepth) \/ SeeDoorbell("sq", QSize) \/ Accept \/ EndFetch
  <2>1. UNCHANGED <<aposted, irq, handling>> /\ disp.pc # "asq"
    BY <1>7 DEF SeeDoorbell, Accept, EndFetch, Idle, At, hostVars, histVars
  <2> QED BY <2>1 DEF AdminRaised
<1>8. ASSUME NEW r \in Regs, WriteReg(r) PROVE AdminRaised'
  BY <1>8 DEF WriteReg, AdminRaised, hostVars, histVars
<1>9. ASSUME NEW c \in AdminCmds, SubmitAdmin(c) PROVE AdminRaised'
  BY <1>9 DEF SubmitAdmin, AdminRaised, histVars
<1>10. ASSUME NEW t \in Tags, SubmitIo(t) PROVE AdminRaised'
  BY <1>10 DEF SubmitIo, AdminRaised, histVars
<1>11. ASSUME NEW v \in {0, 1}, TakeIrq(v) PROVE AdminRaised'
  BY <1>11 DEF TakeIrq, AdminRaised, histVars
<1> QED BY <1>2, <1>3, <1>4, <1>5, <1>6, <1>7, <1>8, <1>9, <1>10, <1>11, <1>12, <1>13
        DEF Next, Dispatcher, Host, HostIrq

LEMMA IoRaisedStep ==
  ASSUME ControllerInv, IoRaised, Next
  PROVE  IoRaised'
<1>1. cq \in {NULL} \cup [head : Slots(QSize), phase : {0, 1}, ready : BOOLEAN]
  BY DEF ControllerInv, IoInv, IoTypes
<1>2. CASE AdminReq
  <2> DEFINE c == asqe[AFrom]
  <2>1. /\ (old_dbs["asq"] + disp.seq) % AqDepth = AFrom /\ AdminEffect(c)
        /\ UNCHANGED <<posted, worker, irq, handling>>
    BY <1>2 DEF AdminReq, AFrom, Taken, hostVars
  <2>2. c \in hout
    BY <1>2, AdmTake DEF ControllerInv
  <2>3. CASE c \in {"create_cq", "delete_cq"}
    <3>1. busy = {}
      BY <2>2, <2>3 DEF ControllerInv, IoQuiet, Life
    <3>2. posted = << >>
      BY <3>1, NothingBusy DEF ControllerInv
    <3> QED BY <2>1, <3>2 DEF IoRaised
  <2>4. CASE c \notin {"create_cq", "delete_cq"}
    <3> HIDE DEF c
    <3>1. cq' = cq
      BY <2>1, <2>4 DEF AdminEffect
    <3> QED BY <2>1, <3>1 DEF IoRaised
  <2> QED BY <2>3, <2>4
<1>3. ASSUME NEW t \in Tags, Fill(t) PROVE IoRaised'
  BY <1>3 DEF Fill, IoRaised
<1>4. CASE Filled
  <2>1. cq # NULL /\ cq' # NULL
    BY <1>4, IoFilled DEF ControllerInv
  <2>2. cq \in [head : Slots(QSize), phase : {0, 1}, ready : BOOLEAN]
    BY <1>1, <2>1
  <2>3. cq'.ready = TRUE
    <3>1. cq' = [Advance(cq, QSize) EXCEPT !.ready = TRUE]
      BY <1>4 DEF Filled
    <3> QED BY <2>2, <3>1 DEF Advance
  <2> QED BY <2>1, <2>3 DEF IoRaised
<1>5. CASE TestIrq
  BY <1>5 DEF TestIrq, IoRaised
<1>6. CASE SignalIrq
  BY <1>6 DEF SignalIrq, IoRaised
<1>7. CASE ReapIo
  <2>1. CASE cqe[hio.head].phase # hio.phase
    <3>1. posted = << >>
      <4>1. /\ QSize \in Nat /\ hio.head \in Slots(QSize) /\ hio.phase \in {0, 1}
            /\ posted \in Seq(Tags)
            /\ RingOk(cqe, QSize, hio.head, hio.phase, posted)
        BY IoFacts DEF ControllerInv, IoInv, IoTypes, IoRing
      <4> QED BY <2>1, <4>1, AllTaken
    <3>2. posted' = posted
      BY <1>7, <2>1 DEF ReapIo
    <3> QED BY <3>1, <3>2 DEF IoRaised
  <2>2. CASE hq = "none"
    <3>1. busy = {}
      BY <2>2 DEF ControllerInv, IoQuiet
    <3>2. posted = << >>
      BY <3>1, NothingBusy DEF ControllerInv
    <3>3. posted' = posted
      BY <1>7, <2>2 DEF ReapIo
    <3> QED BY <3>2, <3>3 DEF IoRaised
  <2>3. CASE cqe[hio.head].phase = hio.phase /\ hq # "none"
    BY <1>7, <2>3 DEF ReapIo, IoRaised
  <2> QED BY <2>1, <2>2, <2>3
<1>8. CASE ReapAdmin
  <2>1. UNCHANGED <<posted, worker, cq, irq>> /\ (1 \in handling => 1 \in handling')
    BY <1>8 DEF ReapAdmin, devVars
  <2> QED BY <2>1 DEF IoRaised
<1>9. CASE ProcBars \/ SeeDoorbell("asq", AqDepth) \/ AdminAstray \/ EndAdmin
  <2>1. UNCHANGED <<posted, worker, cq, handling>> /\ irq \subseteq irq'
    BY <1>9 DEF ProcBars, SeeDoorbell, AdminAstray, EndAdmin, devVars, hostVars, histVars
  <2> QED BY <2>1 DEF IoRaised
<1>10. CASE SeeDoorbell("sq", QSize) \/ Accept \/ EndFetch
  <2>1. UNCHANGED <<posted, worker, cq, handling, irq>>
    BY <1>10 DEF SeeDoorbell, Accept, EndFetch, devVars, hostVars, histVars
  <2> QED BY <2>1 DEF IoRaised
<1>11. ASSUME NEW r \in Regs, WriteReg(r) PROVE IoRaised'
  BY <1>11 DEF WriteReg, IoRaised, devVars, hostVars, histVars
<1>12. ASSUME NEW c \in AdminCmds, SubmitAdmin(c) PROVE IoRaised'
  BY <1>12 DEF SubmitAdmin, IoRaised, devVars, histVars
<1>13. ASSUME NEW t \in Tags, SubmitIo(t) PROVE IoRaised'
  BY <1>13 DEF SubmitIo, IoRaised, devVars, histVars
<1>14. ASSUME NEW v \in {0, 1}, TakeIrq(v) PROVE IoRaised'
  BY <1>14 DEF TakeIrq, IoRaised, devVars, histVars
<1> QED BY <1>2, <1>3, <1>4, <1>5, <1>6, <1>7, <1>8, <1>9, <1>10, <1>11, <1>12, <1>13, <1>14
        DEF Next, Dispatcher, Worker, Host, HostIrq

LEMMA PolledStep ==
  ASSUME ControllerInv, Polled, Next
  PROVE  Polled'
<1>1. CASE AdminReq
  <2> DEFINE c == asqe[AFrom]
  <2>1. /\ (old_dbs["asq"] + disp.seq) % AqDepth = AFrom /\ AdminEffect(c) /\ hq' = hq
    BY <1>1 DEF AdminReq, AFrom, Taken, hostVars
  <2>2. \A x : Done(x)' <=> Done(x) \/ x = c
    BY <1>1, AdmTake DEF ControllerInv
  <2> HIDE DEF c
  <2>3. nr_sq' = IF c = "num_queues" THEN 1 ELSE nr_sq
    BY <2>1 DEF AdminEffect
  <2> QED BY <2>1, <2>2, <2>3 DEF Polled
<1>2. CASE ReapAdmin
  <2>1. nr_sq' = nr_sq
    BY <1>2 DEF ReapAdmin, devVars
  <2>2. CASE acqe[hadm.head].phase # hadm.phase
    <3>1. UNCHANGED <<hq, aposted>>
      BY <1>2, <2>2 DEF ReapAdmin
    <3> QED BY <2>1, <3>1 DEF Polled, Done
  <2>3. CASE acqe[hadm.head].phase = hadm.phase
    <3> DEFINE c == acqe[hadm.head].cid
    <3>1. c \in hout /\ Done(c) /\ \A x : Done(x) <=> Done(x)' \/ x = c
      BY <1>2, <2>3, AdmReap DEF ControllerInv
    <3>2. hq' = CASE c \in {"num_queues", "delete_cq"} -> "none"
                  [] c = "create_cq" -> "cq"
                  [] c = "create_sq" -> "both"
                  [] c = "delete_sq" -> "closing"
                  [] OTHER -> hq
      BY <1>2, <2>3 DEF ReapAdmin
    <3> HIDE DEF c
    <3>3. CASE c = "num_queues"
      BY <2>1, <3>1, <3>3 DEF Polled
    <3>4. CASE c \in QueueCmds \ {"num_queues"}
      <4>1. hq # "boot"
        BY <3>1, <3>4 DEF ControllerInv, Life, QueueCmds
      <4> QED BY <2>1, <4>1 DEF Polled
    <3>5. CASE c \notin QueueCmds
      <4>1. hq' = hq
        BY <3>2, <3>5 DEF QueueCmds
      <4> QED BY <2>1, <3>1, <4>1 DEF Polled
    <3> QED BY <3>3, <3>4, <3>5
  <2> QED BY <2>2, <2>3
<1>3. CASE Worker \/ ProcBars \/ EndAdmin \/ Accept \/ EndFetch \/ ReapIo
  <2>1. UNCHANGED <<nr_sq, hq, aposted>>
    BY <1>3 DEF Worker, Fill, Filled, TestIrq, SignalIrq, ProcBars, EndAdmin, Accept, EndFetch,
                ReapIo, devVars, hostVars, histVars
  <2> QED BY <2>1 DEF Polled, Done
<1>4. CASE SeeDoorbell("asq", AqDepth) \/ SeeDoorbell("sq", QSize) \/ AdminAstray
  <2>1. UNCHANGED <<nr_sq, hq, aposted>>
    BY <1>4 DEF SeeDoorbell, AdminAstray, devVars, hostVars, histVars
  <2> QED BY <2>1 DEF Polled, Done
<1>5. ASSUME NEW r \in Regs, WriteReg(r) PROVE Polled'
  BY <1>5 DEF WriteReg, Polled, Done, devVars, hostVars, histVars
<1>6. ASSUME NEW c \in AdminCmds, SubmitAdmin(c) PROVE Polled'
  BY <1>6 DEF SubmitAdmin, Polled, Done, devVars, histVars
<1>7. ASSUME NEW t \in Tags, SubmitIo(t) PROVE Polled'
  BY <1>7 DEF SubmitIo, Polled, Done, devVars, histVars
<1>8. ASSUME NEW v \in {0, 1}, TakeIrq(v) PROVE Polled'
  BY <1>8 DEF TakeIrq, Polled, Done, devVars, histVars
<1> QED BY <1>1, <1>2, <1>3, <1>4, <1>5, <1>6, <1>7, <1>8 DEF Next, Dispatcher, Host, HostIrq

LEMMA SignalStep == ControllerInv /\ SignalInv /\ [Next]_vars => SignalInv'
<1>1. ASSUME ControllerInv, SignalInv, Next PROVE SignalInv'
  BY <1>1, AdminRaisedStep, IoRaisedStep, PolledStep DEF SignalInv
<1>2. ASSUME SignalInv, UNCHANGED vars PROVE SignalInv'
  BY <1>2 DEF SignalInv, AdminRaised, IoRaised, Polled, Done, vars, devVars, hostVars, histVars
<1> QED BY <1>1, <1>2

\* No I/O doorbell and no interrupt is lost, for every depth of the queues:
\* when the dispatcher (nvmev_proc_dbs), the worker (nvmev_io_worker) and the
\* host's handlers have nothing to do, every I/O command has been answered and
\* its answer taken, and so has every admin command unless a register noticed
\* after rdy (nvmev_proc_bars) has set the doorbell back.
THEOREM NothingIsLost == Spec => []NothingLost
<1>1. Init => SignalInv
  BY DEF Init, SignalInv, AdminRaised, IoRaised, Polled, Done, Among
<1>2. ControllerInv /\ SignalInv => NothingLost
  <2> SUFFICES ASSUME ControllerInv, SignalInv, Quiet
               PROVE  busy = {} /\ (dbs["asq"] = hadm.tail => hout = {})
    BY DEF NothingLost
  <2> USE DEF ControllerInv
  <2>1. disp = Idle /\ disp.pc # "asq" /\ disp.pc # "sq"
    BY DEF Quiet, Idle, At
  <2>2. ASSUME dbs["asq"] = hadm.tail PROVE hout = {}
    <3>1. Gap(AFrom, hadm.tail, AqDepth) = 0
      <4>1. AFrom = hadm.tail
        BY <2>1, <2>2 DEF Quiet, AFrom, Taken
      <4> QED BY <4>1, AdmFacts, StepGap
    <3>2. aposted = << >>
      BY <2>1 DEF Quiet, SignalInv, AdminRaised
    <3>3. Cardinality(hout) = 0
      BY <3>1, <3>2 DEF AdmInv
    <3> QED BY <3>3, AdmFacts, FS_EmptySet
  <2>3. busy = {}
    <3>1. IoGap = 0
      <4>1. CASE sq
        <5>1. nr_sq = 1
          BY <4>1 DEF Life, SignalInv, Polled
        <5>2. IoFrom = hio.tail
          BY <2>1, <4>1, <5>1 DEF Quiet, IoFrom, Taken, IoInv
        <5> QED BY <5>2, IoFacts, StepGap DEF IoGap
      <4>2. CASE ~sq
        BY <4>2 DEF IoGap
      <4> QED BY <4>1, <4>2
    <3>2. posted = << >>
      BY DEF Quiet, SignalInv, IoRaised
    <3>3. Cardinality(work) = 0
      BY FS_EmptySet DEF Quiet
    <3>4. Cardinality(busy) = 0
      BY <3>1, <3>2, <3>3 DEF IoInv
    <3> QED BY <3>4, IoFacts, FS_EmptySet
  <2> QED BY <2>2, <2>3
<1> QED BY <1>1, <1>2, SignalStep, ControllerInvariant, PTL DEF Spec

=============================================================================
