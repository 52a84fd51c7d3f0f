----------------------------- MODULE Amd64Proofs -----------------------------
(***************************************************************************)
(* The machine that runs what amd64.c emits, for every table of registers, *)
(* every count of them that is offered and every length of program: where  *)
(* rsp is between two nodes, and that no node touches a value that waits   *)
(* elsewhere, be it in a register that a call or a division uses or on the *)
(* stack that both push on.                                                *)
(***************************************************************************)
EXTENDS Amd64, RegAllocProofs, FiniteSetTheorems

-----------------------------------------------------------------------------
(* Part one: instructions.                                                 *)

Registers == 0 .. TableRegs - 1
IsCpu(c) ==
  /\ c = [regs |-> c.regs, mem |-> c.mem, rsp |-> c.rsp]
  /\ c.regs = [r \in Registers |-> c.regs[r]]
  /\ c.mem = [d \in Stack |-> c.mem[d]]
  /\ c.rsp \in Int

LEMMA PutFacts ==
  ASSUME NEW c, IsCpu(c), NEW h, NEW v
  PROVE  LET p == Put(c, h, v)
         IN  /\ IsCpu(p) /\ p.rsp = c.rsp
             /\ \A r \in Registers :
                  p.regs[r] = IF h.onstack # 1 /\ h.loc = r THEN v ELSE c.regs[r]
             /\ \A d \in Stack :
                  p.mem[d] = IF h.onstack = 1 /\ h.loc \div Word = d THEN v ELSE c.mem[d]
<1>1. CASE h.onstack = 1
  BY <1>1 DEF Put, IsCpu
<1>2. CASE h.onstack # 1
  BY <1>2 DEF Put, IsCpu
<1> QED BY <1>1, <1>2

LEMMA CpuUpdates ==
  ASSUME NEW c, IsCpu(c), NEW rsp, NEW regs, NEW mem
  PROVE  /\ [c EXCEPT !.rsp = rsp] = [regs |-> c.regs, mem |-> c.mem, rsp |-> rsp]
         /\ [c EXCEPT !.regs = regs] = [regs |-> regs, mem |-> c.mem, rsp |-> c.rsp]
         /\ [c EXCEPT !.rsp = rsp, !.mem = mem] = [regs |-> c.regs, mem |-> mem, rsp |-> rsp]
         /\ [c EXCEPT !.rsp = rsp, !.regs = regs]
              = [regs |-> regs, mem |-> c.mem, rsp |-> rsp]
         /\ [c EXCEPT !.regs = regs, !.mem = mem]
              = [regs |-> regs, mem |-> mem, rsp |-> c.rsp]
<1>1. c = [regs |-> c.regs, mem |-> c.mem, rsp |-> c.rsp]
  BY DEF IsCpu
<1>2. /\ [c EXCEPT !.rsp = rsp] = [regs |-> c.regs, mem |-> c.mem, rsp |-> rsp]
      /\ [c EXCEPT !.regs = regs] = [regs |-> regs, mem |-> c.mem, rsp |-> c.rsp]
  BY <1>1
<1>3. [c EXCEPT !.rsp = rsp, !.mem = mem] = [regs |-> c.regs, mem |-> mem, rsp |-> rsp]
  <2> DEFINE b == [c EXCEPT !.rsp = rsp]
  <2>1. [c EXCEPT !.rsp = rsp, !.mem = mem] = [b EXCEPT !.mem = mem]
    BY <1>1
  <2>2. b = [regs |-> c.regs, mem |-> c.mem, rsp |-> rsp]
    BY <1>2
  <2> HIDE DEF b
  <2>3. [b EXCEPT !.mem = mem] = [regs |-> c.regs, mem |-> mem, rsp |-> rsp]
    BY <2>2
  <2> QED BY <2>1, <2>3
<1>4. [c EXCEPT !.rsp = rsp, !.regs = regs] = [regs |-> regs, mem |-> c.mem, rsp |-> rsp]
  <2> DEFINE b == [c EXCEPT !.rsp = rsp]
  <2>1. [c EXCEPT !.rsp = rsp, !.regs = regs] = [b EXCEPT !.regs = regs]
    BY <1>1
  <2>2. b = [regs |-> c.regs, mem |-> c.mem, rsp |-> rsp]
    BY <1>2
  <2> HIDE DEF b
  <2>3. [b EXCEPT !.regs = regs] = [regs |-> regs, mem |-> c.mem, rsp |-> rsp]
    BY <2>2
  <2> QED BY <2>1, <2>3
<1>5. [c EXCEPT !.regs = regs, !.mem = mem] = [regs |-> regs, mem |-> mem, rsp |-> c.rsp]
  <2> DEFINE b == [c EXCEPT !.regs = regs]
  <2>1. [c EXCEPT !.regs = regs, !.mem = mem] = [b EXCEPT !.mem = mem]
    BY <1>1
  <2>2. b = [regs |-> regs, mem |-> c.mem, rsp |-> c.rsp]
    BY <1>2
  <2> HIDE DEF b
  <2>3. [b EXCEPT !.mem = mem] = [regs |-> regs, mem |-> mem, rsp |-> c.rsp]
    BY <2>2
  <2> QED BY <2>1, <2>3
<1> QED BY <1>2, <1>3, <1>4, <1>5

LEMMA PushWordFacts ==
  ASSUME NEW c, IsCpu(c), NEW v
  PROVE  LET p == PushWord(c, v)
         IN  /\ IsCpu(p) /\ p.rsp = c.rsp + 1 /\ p.regs = c.regs
             /\ \A d \in Stack : p.mem[d] = IF d = c.rsp + 1 THEN v ELSE c.mem[d]
<1> DEFINE mem == [c.mem EXCEPT ![c.rsp + 1] = v]
           rsp == c.rsp + 1
<1>1. PushWord(c, v) = [c EXCEPT !.rsp = rsp, !.mem = mem]
  BY DEF PushWord, IsCpu
<1>2. /\ mem = [d \in Stack |-> mem[d]] /\ rsp \in Int
      /\ \A d \in Stack : mem[d] = IF d = c.rsp + 1 THEN v ELSE c.mem[d]
  BY DEF IsCpu
<1> HIDE DEF mem
<1>3. PushWord(c, v) = [regs |-> c.regs, mem |-> mem, rsp |-> rsp]
  BY <1>1, <1>2, CpuUpdates
<1> QED BY <1>2, <1>3 DEF IsCpu

LEMMA PopRegFacts ==
  ASSUME NEW c, IsCpu(c), NEW reg
  PROVE  LET p == PopReg(c, reg)
         IN  /\ IsCpu(p) /\ p.rsp = c.rsp - 1 /\ p.mem = c.mem
             /\ \A r \in Registers :
                  p.regs[r] = IF r = reg THEN WordAt(c, c.rsp) ELSE c.regs[r]
<1> DEFINE w == WordAt(c, c.rsp)
           regs == [c.regs EXCEPT ![reg] = w]
           rsp == c.rsp - 1
<1> HIDE DEF w
<1>1. PopReg(c, reg) = [c EXCEPT !.rsp = rsp, !.regs = regs]
  BY DEF PopReg, w, IsCpu
<1>2. /\ regs = [r \in Registers |-> regs[r]] /\ rsp \in Int
      /\ \A r \in Registers : regs[r] = IF r = reg THEN w ELSE c.regs[r]
  BY DEF IsCpu
<1> HIDE DEF regs
<1>3. PopReg(c, reg) = [regs |-> regs, mem |-> c.mem, rsp |-> rsp]
  BY <1>1, <1>2, CpuUpdates
<1> QED BY <1>2, <1>3 DEF IsCpu, w

-----------------------------------------------------------------------------
(* Part two: the loops that push, pop and load.                            *)

Push == INSTANCE FoldProofs WITH Op <- PushAside
Pop  == INSTANCE FoldProofs WITH Op <- PopAside
Load == INSTANCE FoldProofs WITH Op <- LoadArg

LEMMA PushLoop ==
  ASSUME NEW S, NEW s \in Seq(S), NEW c
  PROVE  \E f : /\ f[0] = c
                /\ \A k \in 0 .. Len(s) - 1 : f[k + 1] = PushAside(f[k], s[k + 1])
                /\ FoldLeft(PushAside, c, s) = f[Len(s)]
<1>1. Push!FoldLeft(PushAside, c, s) = FoldLeft(PushAside, c, s)
  BY DEF FoldLeft, Push!FoldLeft, MapThenFoldSet, Push!MapThenFoldSet, Max, Push!Max
<1>2. PICK f : /\ f[0] = c
               /\ \A k \in 0 .. Len(s) - 1 : f[k + 1] = PushAside(f[k], s[k + 1])
               /\ Push!FoldLeft(PushAside, c, s) = f[Len(s)]
  BY Push!FoldRuns
<1> QED BY <1>1, <1>2

LEMMA PopLoop ==
  ASSUME NEW S, NEW s \in Seq(S), NEW c
  PROVE  \E f : /\ f[0] = c
                /\ \A k \in 0 .. Len(s) - 1 : f[k + 1] = PopAside(f[k], s[k + 1])
                /\ FoldLeft(PopAside, c, s) = f[Len(s)]
<1>1. Pop!FoldLeft(PopAside, c, s) = FoldLeft(PopAside, c, s)
  BY DEF FoldLeft, Pop!FoldLeft, MapThenFoldSet, Pop!MapThenFoldSet, Max, Pop!Max
<1>2. PICK f : /\ f[0] = c
               /\ \A k \in 0 .. Len(s) - 1 : f[k + 1] = PopAside(f[k], s[k + 1])
               /\ Pop!FoldLeft(PopAside, c, s) = f[Len(s)]
  BY Pop!FoldRuns
<1> QED BY <1>1, <1>2

LEMMA LoadLoop ==
  ASSUME NEW S, NEW s \in Seq(S), NEW c
  PROVE  \E f : /\ f[0] = c
                /\ \A k \in 0 .. Len(s) - 1 : f[k + 1] = LoadArg(f[k], s[k + 1])
                /\ FoldLeft(LoadArg, c, s) = f[Len(s)]
<1>1. Load!FoldLeft(LoadArg, c, s) = FoldLeft(LoadArg, c, s)
  BY DEF FoldLeft, Load!FoldLeft, MapThenFoldSet, Load!MapThenFoldSet, Max, Load!Max
<1>2. PICK f : /\ f[0] = c
               /\ \A k \in 0 .. Len(s) - 1 : f[k + 1] = LoadArg(f[k], s[k + 1])
               /\ Load!FoldLeft(LoadArg, c, s) = f[Len(s)]
  BY Load!FoldRuns
<1> QED BY <1>1, <1>2

\* The passes f of a loop that pushes what saved says, from c on.
Pushes(f, c, saved) ==
  /\ f[0] = c
  /\ \A k \in 0 .. Len(saved) - 1 : f[k + 1] = PushAside(f[k], saved[k + 1])

(* After k passes rsp has moved by at most k, the registers and what lay   *)
(* on the stack are as before, and what was pushed lies where rsp was.     *)
LEMMA PushesFacts ==
  ASSUME NEW S, NEW saved \in Seq(S), NEW c, IsCpu(c), NEW f, Pushes(f, c, saved)
  PROVE  \A k \in 0 .. Len(saved) :
           /\ IsCpu(f[k]) /\ f[k].regs = c.regs
           /\ c.rsp <= f[k].rsp /\ f[k].rsp <= c.rsp + k
           /\ \A d \in Stack : d <= c.rsp => f[k].mem[d] = c.mem[d]
           /\ \A j \in 1 .. k : saved[j].saved =>
                /\ f[j].rsp \in Int /\ f[j].rsp = f[j - 1].rsp + 1 /\ f[j].rsp <= f[k].rsp
                /\ f[j].rsp \in Stack => f[k].mem[f[j].rsp] = c.regs[saved[j].reg]
<1> DEFINE n == Len(saved)
           Good(k) ==
             /\ IsCpu(f[k]) /\ f[k].regs = c.regs
             /\ c.rsp <= f[k].rsp /\ f[k].rsp <= c.rsp + k
             /\ \A d \in Stack : d <= c.rsp => f[k].mem[d] = c.mem[d]
             /\ \A j \in 1 .. k : saved[j].saved =>
                  /\ f[j].rsp \in Int /\ f[j].rsp = f[j - 1].rsp + 1 /\ f[j].rsp <= f[k].rsp
                  /\ f[j].rsp \in Stack => f[k].mem[f[j].rsp] = c.regs[saved[j].reg]
           T == {k \in Nat : Good(k)}
<1>1. n \in Nat
  OBVIOUS
<1>2. 0 \in T
  <2>1. f[0] = c /\ c.rsp \in Int /\ 1 .. 0 = {}
    BY DEF Pushes, IsCpu
  <2> QED BY <2>1
<1>3. ASSUME NEW k \in 0 .. n - 1, k \in T PROVE k + 1 \in T
  <2> DEFINE q == k + 1
             s == saved[q]
  <2>1. Good(k) /\ k \in Nat
    BY <1>3
  <2>2. f[q] = PushAside(f[k], s)
    BY DEF Pushes
  <2>3. q \in Nat /\ q - 1 = k /\ \A j \in 1 .. q : j \in 1 .. k \/ j = q
    BY <2>1
  <2>4. f[k].rsp \in Int /\ c.rsp \in Int /\ f[k].rsp <= c.rsp + q
    BY <2>1 DEF IsCpu
  <2> HIDE DEF T, s
  <2>5. CASE ~s.saved
    <3>1. f[q] = f[k]
      BY <2>2, <2>5 DEF PushAside
    <3> HIDE DEF q
    <3>2. Good(q)
      BY <2>1, <2>3, <2>4, <2>5, <3>1 DEF s
    <3> QED BY <2>3, <3>2 DEF T, q
  <2>6. CASE s.saved
    <3> DEFINE v == f[k].regs[s.reg]
    <3>1. f[q] = PushWord(f[k], v)
      BY <2>2, <2>6 DEF PushAside, PushReg
    <3>2. /\ IsCpu(f[q]) /\ f[q].rsp = f[k].rsp + 1 /\ f[q].regs = f[k].regs
          /\ \A d \in Stack : f[q].mem[d] = IF d = f[k].rsp + 1 THEN v ELSE f[k].mem[d]
      BY <2>1, <3>1, PushWordFacts
    <3>3. v = c.regs[saved[q].reg]
      BY <2>1 DEF s
    <3> HIDE DEF v
    <3>4. c.rsp <= f[q].rsp /\ f[q].rsp <= c.rsp + q /\ f[k].rsp < f[q].rsp /\ f[q].rsp \in Int
      BY <2>1, <2>4, <3>2
    <3> HIDE DEF q
    <3>5. \A d \in Stack : d <= c.rsp => f[q].mem[d] = c.mem[d]
      <4> SUFFICES ASSUME NEW d \in Stack, d <= c.rsp PROVE f[q].mem[d] = c.mem[d]
        OBVIOUS
      <4>1. d # f[k].rsp + 1
        BY <2>1, <2>4 DEF Stack
      <4> QED BY <2>1, <3>2, <4>1
    <3>6. ASSUME NEW j \in 1 .. q, saved[j].saved
          PROVE  /\ f[j].rsp \in Int /\ f[j].rsp = f[j - 1].rsp + 1 /\ f[j].rsp <= f[q].rsp
                 /\ f[j].rsp \in Stack => f[q].mem[f[j].rsp] = c.regs[saved[j].reg]
      <4>1. CASE j = q
        BY <2>3, <3>2, <3>3, <3>4, <4>1
      <4>2. CASE j \in 1 .. k
        <5>1. /\ f[j].rsp \in Int /\ f[j].rsp = f[j - 1].rsp + 1 /\ f[j].rsp <= f[k].rsp
              /\ f[j].rsp \in Stack => f[k].mem[f[j].rsp] = c.regs[saved[j].reg]
          BY <2>1, <3>6, <4>2
        <5>2. f[j].rsp <= f[q].rsp /\ f[j].rsp # f[k].rsp + 1
          BY <2>4, <3>2, <5>1
        <5> QED BY <3>2, <5>1, <5>2
      <4> QED BY <2>3, <4>1, <4>2
    <3>7. Good(q)
      BY <2>1, <3>2, <3>4, <3>5, <3>6
    <3> QED BY <2>3, <3>7 DEF T, q
  <2> QED BY <2>5, <2>6
<1> HIDE DEF T, Good
<1>4. \A k \in 0 .. n : k \in T
  BY <1>1, <1>2, <1>3, Push!PassInduction
<1> QED BY <1>4 DEF T, Good

(* The pops in the other order give every register that was pushed what it *)
(* held, if the words pushed are still there when they begin.              *)
LEMMA PopsFacts ==
  ASSUME NEW S, NEW saved \in Seq(S), NEW c, IsCpu(c), NEW f, Pushes(f, c, saved),
         \A d \in c.rsp + 1 .. c.rsp + Len(saved) : d \in Stack,
         NEW e, IsCpu(e), e.rsp = f[Len(saved)].rsp,
         \A d \in Stack : c.rsp < d /\ d <= e.rsp => e.mem[d] = f[Len(saved)].mem[d]
  PROVE  LET p == FoldLeft(PopAside, e, Reverse(saved))
         IN  /\ IsCpu(p) /\ p.rsp = c.rsp /\ p.mem = e.mem
             /\ \A r \in Registers :
                  p.regs[r] = IF \E j \in 1 .. Len(saved) : saved[j].saved /\ saved[j].reg = r
                              THEN c.regs[r] ELSE e.regs[r]
<1> DEFINE n == Len(saved)
           back == Reverse(saved)
<1>1. n \in Nat /\ back \in Seq(S) /\ Len(back) = n
      /\ \A k \in 1 .. n : back[k] = saved[(n - k) + 1]
  BY DEF Reverse
<1>2. PICK g : /\ g[0] = e
               /\ \A k \in 0 .. n - 1 : g[k + 1] = PopAside(g[k], back[k + 1])
               /\ FoldLeft(PopAside, e, back) = g[n]
  <2> HIDE DEF back
  <2>1. PICK g : /\ g[0] = e
                 /\ \A k \in 0 .. Len(back) - 1 : g[k + 1] = PopAside(g[k], back[k + 1])
                 /\ FoldLeft(PopAside, e, back) = g[Len(back)]
    BY <1>1, PopLoop
  <2> QED BY <1>1, <2>1
<1> DEFINE Popped(k, r) == \E j \in n - k + 1 .. n : saved[j].saved /\ saved[j].reg = r
           Good(k) ==
             /\ IsCpu(g[k]) /\ g[k].rsp = f[n - k].rsp /\ g[k].mem = e.mem
             /\ \A r \in Registers : Popped(k, r) => g[k].regs[r] = c.regs[r]
             /\ \A r \in Registers : ~Popped(k, r) => g[k].regs[r] = e.regs[r]
           T == {k \in Nat : Good(k)}
<1>3. \A k \in 0 .. n :
        /\ IsCpu(f[k]) /\ f[k].regs = c.regs
        /\ c.rsp <= f[k].rsp /\ f[k].rsp <= c.rsp + k
        /\ \A j \in 1 .. k : saved[j].saved =>
             /\ f[j].rsp \in Int /\ f[j].rsp = f[j - 1].rsp + 1 /\ f[j].rsp <= f[k].rsp
             /\ f[j].rsp \in Stack => f[k].mem[f[j].rsp] = c.regs[saved[j].reg]
  BY PushesFacts
<1>4. c.rsp \in Int /\ n \in 0 .. n
  BY <1>1 DEF IsCpu
<1> HIDE DEF back, n
<1>5. 0 \in T
  <2>1. n - 0 = n /\ n - 0 + 1 .. n = {}
    BY <1>1
  <2>2. e.rsp = f[n].rsp
    BY DEF n
  <2> QED BY <1>2, <2>1, <2>2
<1>6. ASSUME NEW k \in 0 .. n - 1, k \in T PROVE k + 1 \in T
  <2> DEFINE q == k + 1
             i == n - k
             s == saved[i]
  <2>1. Good(k) /\ k \in Nat
    BY <1>6
  <2>2. /\ i \in 1 .. n /\ n - q = i - 1 /\ i - 1 \in 0 .. n /\ q \in Nat /\ q \in 1 .. n
        /\ (n - q) + 1 = i /\ i \in 0 .. n
        /\ \A j \in n - q + 1 .. n : j \in n - k + 1 .. n \/ j = i
        /\ \A j \in n - k + 1 .. n : j \in n - q + 1 .. n
        /\ i \in n - q + 1 .. n
    BY <1>1
  <2>3. g[q] = PopAside(g[k], s)
    BY <1>1, <1>2, <2>2
  <2> HIDE DEF T, s, q, i
  <2>4. \A r : Popped(q, r) <=> Popped(k, r) \/ (s.saved /\ s.reg = r)
    BY <2>2 DEF s
  <2>4a. g[k].rsp = f[i].rsp
    BY <2>1 DEF i
  <2> HIDE DEF Popped
  <2>5. CASE ~s.saved
    <3>1. g[q] = g[k]
      BY <2>3, <2>5 DEF PopAside
    <3>2. f[i].rsp = f[i - 1].rsp
      <4>1. i - 1 \in 0 .. Len(saved) - 1 /\ (i - 1) + 1 = i
        BY <2>2 DEF n
      <4>2. f[i] = PushAside(f[i - 1], s)
        BY <4>1 DEF Pushes, s
      <4> QED BY <2>5, <4>2 DEF PushAside
    <3>3. g[q].rsp = f[n - q].rsp
      BY <2>2, <2>4a, <3>1, <3>2
    <3>4. Good(q)
      BY <2>1, <2>4, <2>5, <3>1, <3>3
    <3> QED BY <2>2, <3>4 DEF T, q
  <2>6. CASE s.saved
    <3> DEFINE w == WordAt(g[k], g[k].rsp)
    <3>1. /\ IsCpu(g[q]) /\ g[q].rsp = g[k].rsp - 1 /\ g[q].mem = g[k].mem
          /\ \A r \in Registers : g[q].regs[r] = IF r = s.reg THEN w ELSE g[k].regs[r]
      <4>1. g[q] = PopReg(g[k], s.reg) /\ IsCpu(g[k])
        BY <2>1, <2>3, <2>6 DEF PopAside
      <4> QED BY <4>1, PopRegFacts
    <3>2. /\ f[i].rsp \in Int /\ f[i].rsp = f[i - 1].rsp + 1 /\ f[i].rsp <= f[n].rsp
          /\ f[i].rsp \in Stack => f[n].mem[f[i].rsp] = c.regs[s.reg]
      BY <1>3, <1>4, <2>2, <2>6 DEF s
    <3>3. f[i - 1].rsp \in Int /\ c.rsp <= f[i - 1].rsp /\ f[i - 1].rsp <= c.rsp + (i - 1)
      BY <1>3, <2>2 DEF IsCpu
    <3>4. f[i].rsp \in Stack /\ c.rsp < f[i].rsp
      <4>1. c.rsp < f[i].rsp /\ f[i].rsp \in c.rsp + 1 .. c.rsp + n
        BY <1>4, <2>2, <3>2, <3>3
      <4> QED BY <4>1 DEF n
    <3>5. w = c.regs[s.reg]
      <4>1. w = e.mem[f[i].rsp]
        BY <2>1, <2>4a, <3>4 DEF WordAt
      <4>2. e.mem[f[i].rsp] = f[n].mem[f[i].rsp]
        BY <3>2, <3>4 DEF n
      <4> QED BY <3>2, <3>4, <4>1, <4>2
    <3> HIDE DEF w
    <3>6. g[q].rsp = f[n - q].rsp
      BY <2>2, <2>4a, <3>1, <3>2, <3>3
    <3>7. Good(q)
      BY <2>1, <2>4, <2>6, <3>1, <3>5, <3>6
    <3> QED BY <2>2, <3>7 DEF T, q
  <2> QED BY <2>5, <2>6
<1> HIDE DEF T, Good
<1>7. \A k \in 0 .. n : k \in T
  BY <1>1, <1>5, <1>6, Pop!PassInduction
<1>8. Good(n)
  BY <1>4, <1>7 DEF T
<1>9. n - n = 0 /\ n - n + 1 = 1 /\ f[0] = c
  BY <1>1 DEF Pushes
<1> QED BY <1>2, <1>8, <1>9 DEF Good, back, n

SetReg(c, reg, w) == [c EXCEPT !.regs[reg] = w]
LEMMA SetRegFacts ==
  ASSUME NEW c, IsCpu(c), NEW reg, NEW w
  PROVE  LET p == SetReg(c, reg, w)
         IN  /\ IsCpu(p) /\ p.rsp = c.rsp /\ p.mem = c.mem
             /\ \A r \in Registers : p.regs[r] = IF r = reg THEN w ELSE c.regs[r]
<1> DEFINE regs == [c.regs EXCEPT ![reg] = w]
<1>1. SetReg(c, reg, w) = [c EXCEPT !.regs = regs]
  BY DEF IsCpu, SetReg
<1>2. /\ regs = [r \in Registers |-> regs[r]]
      /\ \A r \in Registers : regs[r] = IF r = reg THEN w ELSE c.regs[r]
  BY DEF IsCpu
<1> HIDE DEF regs
<1>3. [c EXCEPT !.regs = regs] = [regs |-> regs, mem |-> c.mem, rsp |-> c.rsp]
  BY CpuUpdates
<1> QED BY <1>1, <1>2, <1>3 DEF IsCpu

LEMMA DropWordsFacts ==
  ASSUME NEW c, IsCpu(c), NEW n \in Int
  PROVE  LET p == DropWords(c, n)
         IN  IsCpu(p) /\ p.rsp = c.rsp - n /\ p.mem = c.mem /\ p.regs = c.regs
<1> DEFINE rsp == c.rsp - n
<1>1. DropWords(c, n) = [c EXCEPT !.rsp = rsp] /\ rsp \in Int
  BY DEF DropWords, IsCpu
<1> HIDE DEF rsp
<1>2. [c EXCEPT !.rsp = rsp] = [regs |-> c.regs, mem |-> c.mem, rsp |-> rsp]
  BY CpuUpdates
<1> QED BY <1>1, <1>2 DEF IsCpu, rsp

LEMMA CalleeFacts ==
  ASSUME NEW c, IsCpu(c), NEW res
  PROVE  LET p == Callee(c, res)
         IN  /\ IsCpu(p) /\ p.rsp = c.rsp
             /\ Rax \in Registers => p.regs[Rax] = ValueOf(res.tmp)
             /\ \A d \in Stack : d <= c.rsp => p.mem[d] = c.mem[d]
<1> DEFINE regs == [r \in DOMAIN c.regs |-> IF r = Rax THEN ValueOf(res.tmp) ELSE Junk]
           mem == [d \in DOMAIN c.mem |-> IF d > c.rsp THEN Junk ELSE c.mem[d]]
<1>1. Callee(c, res) = [c EXCEPT !.regs = regs, !.mem = mem]
  BY DEF Callee
<1>2. DOMAIN c.regs = Registers /\ DOMAIN c.mem = Stack /\ c.rsp \in Int
  BY DEF IsCpu
<1>3. /\ regs = [r \in Registers |-> regs[r]] /\ mem = [d \in Stack |-> mem[d]]
      /\ Rax \in Registers => regs[Rax] = ValueOf(res.tmp)
      /\ \A d \in Stack : d <= c.rsp => mem[d] = c.mem[d]
  BY <1>2 DEF Stack
<1> HIDE DEF regs, mem
<1>4. [c EXCEPT !.regs = regs, !.mem = mem] = [regs |-> regs, mem |-> mem, rsp |-> c.rsp]
  <2> DEFINE b == [c EXCEPT !.regs = regs]
  <2>1. [c EXCEPT !.regs = regs, !.mem = mem] = [b EXCEPT !.mem = mem]
    BY DEF IsCpu
  <2>2. b = [regs |-> regs, mem |-> c.mem, rsp |-> c.rsp]
    BY CpuUpdates
  <2> HIDE DEF b
  <2>3. [b EXCEPT !.mem = mem] = [regs |-> regs, mem |-> mem, rsp |-> c.rsp]
    BY <2>2
  <2> QED BY <2>1, <2>3
<1> QED BY <1>1, <1>2, <1>3, <1>4 DEF IsCpu

(* A pass of the loop that loads the arguments, and the loop.              *)
LEMMA LoadArgFacts ==
  ASSUME NEW c, IsCpu(c), NEW pass, pass.i \in Nat
  PROVE  LET p == LoadArg(c, pass)
         IN  /\ IsCpu(p)
             /\ p.rsp = IF pass.i < Len(ArgRegs) THEN c.rsp ELSE c.rsp + 1
             /\ \A d \in Stack : d <= c.rsp => p.mem[d] = c.mem[d]
<1> DEFINE word == WordAt(c, c.rsp - (pass.above + pass.i))
<1> HIDE DEF word
<1>1. CASE pass.i < Len(ArgRegs)
  <2> DEFINE reg == ArgRegs[pass.i + 1]
  <2>1. LoadArg(c, pass) = SetReg(c, reg, word)
    BY <1>1 DEF LoadArg, word, SetReg
  <2> HIDE DEF reg
  <2>2. LET p == SetReg(c, reg, word)
        IN  IsCpu(p) /\ p.rsp = c.rsp /\ p.mem = c.mem
    BY SetRegFacts
  <2> QED BY <1>1, <2>1, <2>2
<1>2. CASE ~(pass.i < Len(ArgRegs))
  <2> DEFINE b == SetReg(c, Rax, word)
  <2>1. LoadArg(c, pass) = PushWord(b, word)
    BY <1>2 DEF LoadArg, word, SetReg
  <2>2. IsCpu(b) /\ b.rsp = c.rsp /\ b.mem = c.mem
    BY SetRegFacts
  <2> HIDE DEF b
  <2>3. LET p == PushWord(b, word)
        IN  /\ IsCpu(p) /\ p.rsp = b.rsp + 1
            /\ \A d \in Stack : p.mem[d] = IF d = b.rsp + 1 THEN word ELSE b.mem[d]
    BY <2>2, PushWordFacts
  <2>4. \A d \in Stack : d <= c.rsp => d # c.rsp + 1
    BY DEF IsCpu, Stack
  <2> QED BY <1>2, <2>1, <2>2, <2>3, <2>4
<1> QED BY <1>1, <1>2

LEMMA LoadArgsFacts ==
  ASSUME NEW c, IsCpu(c), argsz \in Nat, NEW saved
  PROVE  LET p == LoadArgs(c, saved)
         IN  /\ IsCpu(p) /\ p.rsp = c.rsp + Overflow /\ Overflow \in Nat
             /\ \A d \in Stack : d <= c.rsp => p.mem[d] = c.mem[d]
<1> DEFINE above == PushedRegsNum(saved)
           passes == [k \in 1 .. argsz |-> [above |-> above, i |-> k - 1]]
           m == Len(ArgRegs)
           Past(k) == IF k > m THEN k - m ELSE 0
<1>1. /\ passes \in Seq({passes[k] : k \in 1 .. argsz}) /\ Len(passes) = argsz
      /\ \A k \in 1 .. argsz : passes[k].i = k - 1
  <2>1. \A k \in 1 .. argsz : passes[k] = [above |-> above, i |-> k - 1]
    OBVIOUS
  <2>2. \A k \in 1 .. argsz : passes[k].i = k - 1
    BY <2>1
  <2>3. \A k \in 1 .. argsz : passes[k] \in {passes[j] : j \in 1 .. argsz}
    OBVIOUS
  <2> DEFINE P == {passes[j] : j \in 1 .. argsz}
             entry(k) == [above |-> above, i |-> k - 1]
  <2>4. \A k \in 1 .. argsz : entry(k) \in P
    BY <2>1, <2>3
  <2> HIDE DEF P, entry
  <2>5. [k \in 1 .. argsz |-> entry(k)] \in Seq(P) /\ Len([k \in 1 .. argsz |-> entry(k)]) = argsz
    BY <2>4
  <2>6. passes \in Seq(P) /\ Len(passes) = argsz
    BY <2>5 DEF entry
  <2> QED BY <2>2, <2>6 DEF P
<1>2. LoadArgs(c, saved) = FoldLeft(LoadArg, c, passes) /\ m \in Nat
  BY ArgRegsAssumption DEF LoadArgs
<1> HIDE DEF passes, m
<1>3. PICK f : /\ f[0] = c
               /\ \A k \in 0 .. Len(passes) - 1 : f[k + 1] = LoadArg(f[k], passes[k + 1])
               /\ FoldLeft(LoadArg, c, passes) = f[Len(passes)]
  BY <1>1, LoadLoop
<1> DEFINE Good(k) == /\ IsCpu(f[k]) /\ f[k].rsp = c.rsp + Past(k)
                      /\ \A d \in Stack : d <= c.rsp => f[k].mem[d] = c.mem[d]
           T == {k \in Nat : Good(k)}
<1>4. 0 \in T
  <2>1. Past(0) = 0 /\ c.rsp \in Int /\ f[0] = c
    BY <1>2, <1>3 DEF IsCpu
  <2> QED BY <2>1
<1>5. ASSUME NEW k \in 0 .. argsz - 1, k \in T PROVE k + 1 \in T
  <2> DEFINE q == k + 1
             b == f[k]
  <2>1. Good(k) /\ k \in Nat
    BY <1>5
  <2>2. f[q] = LoadArg(b, passes[q]) /\ passes[q].i = k /\ q \in Nat
    BY <1>1, <1>3
  <2>3. b.rsp \in Int /\ c.rsp \in Int /\ c.rsp <= b.rsp /\ IsCpu(b)
    BY <1>2, <2>1 DEF IsCpu
  <2> HIDE DEF b
  <2>4. LET p == LoadArg(b, passes[q])
        IN  /\ IsCpu(p)
            /\ p.rsp = IF passes[q].i < Len(ArgRegs) THEN b.rsp ELSE b.rsp + 1
            /\ \A d \in Stack : d <= b.rsp => p.mem[d] = b.mem[d]
    BY <2>1, <2>2, <2>3, LoadArgFacts
  <2>5. f[q].rsp = IF k < m THEN b.rsp ELSE b.rsp + 1
    BY <2>2, <2>4 DEF m
  <2>6. f[q].rsp = c.rsp + Past(q)
    BY <1>2, <2>1, <2>3, <2>5 DEF b
  <2>7. \A d \in Stack : d <= c.rsp => f[q].mem[d] = c.mem[d]
    <3>1. \A d \in Stack : d <= c.rsp => d <= b.rsp
      BY <2>3 DEF Stack
    <3> QED BY <2>1, <2>2, <2>4, <3>1 DEF b
  <2>8. Good(q)
    BY <2>2, <2>4, <2>6, <2>7
  <2> HIDE DEF Good
  <2> QED BY <2>2, <2>8
<1> HIDE DEF T, Good
<1>6. \A k \in 0 .. argsz : k \in T
  BY <1>4, <1>5, Load!PassInduction
<1>7. Good(argsz) /\ Past(argsz) = Overflow
  BY <1>6 DEF T, Overflow, m
<1>8. Overflow \in Nat
  BY <1>2 DEF Overflow, m
<1> QED BY <1>1, <1>2, <1>3, <1>7, <1>8 DEF Good

-----------------------------------------------------------------------------
(* Part three: what a node's instructions leave as it was.                 *)

\* The words that a result is written to, and all that is kept otherwise.
SlotOf(h) == h.loc \div Word
Room(c, n) == \A d \in c.rsp + 1 .. c.rsp + n : d \in Stack
Placed(h, c) == h.onstack = 1 => SlotOf(h) \in Int /\ SlotOf(h) <= c.rsp
KeepsWords(p, c, res) ==
  \A d \in Stack : d <= c.rsp /\ (res.onstack = 1 => d # SlotOf(res)) => p.mem[d] = c.mem[d]
KeepsReg(p, c, res, r) == res.onstack = 1 \/ res.loc # r => p.regs[r] = c.regs[r]

(* Pops leave a machine, whatever they find on the stack.                  *)
LEMMA PopsKeepCpu ==
  ASSUME NEW S, NEW saved \in Seq(S), NEW c, IsCpu(c)
  PROVE  IsCpu(FoldLeft(PopAside, c, Reverse(saved)))
<1> DEFINE back == Reverse(saved)
<1>1. back \in Seq(S)
  BY DEF Reverse
<1> HIDE DEF back
<1>2. PICK g : /\ g[0] = c
               /\ \A k \in 0 .. Len(back) - 1 : g[k + 1] = PopAside(g[k], back[k + 1])
               /\ FoldLeft(PopAside, c, back) = g[Len(back)]
  BY <1>1, PopLoop
<1> DEFINE n == Len(back)
           T == {k \in Nat : IsCpu(g[k])}
<1>3. n \in Nat /\ 0 \in T
  BY <1>1, <1>2
<1>4. ASSUME NEW k \in 0 .. n - 1, k \in T PROVE k + 1 \in T
  <2> DEFINE s == back[k + 1]
             q == g[k + 1]
  <2>1. q = IF s.saved THEN PopReg(g[k], s.reg) ELSE g[k]
    BY <1>2 DEF PopAside
  <2>2. IsCpu(g[k]) /\ k + 1 \in Nat
    BY <1>4
  <2> HIDE DEF s
  <2>3. IsCpu(PopReg(g[k], s.reg))
    BY <2>2, PopRegFacts
  <2>4. IsCpu(q)
    BY <2>1, <2>2, <2>3
  <2> QED BY <2>2, <2>4
<1> HIDE DEF T, n
<1>5. \A k \in 0 .. n : k \in T
  BY <1>3, <1>4, Pop!PassInduction
<1>6. n \in 0 .. n
  BY <1>3
<1> QED BY <1>2, <1>5, <1>6 DEF T, n, back

(* Pushes, something between that comes back to the same rsp, and pops.    *)
LEMMA AroundFacts ==
  ASSUME NEW S, NEW saved \in Seq(S), NEW c, IsCpu(c), NEW res, Placed(res, c),
         Room(c, Len(saved)),
         NEW b, IsCpu(b), NEW v,
         LET p == FoldLeft(PushAside, c, saved)
         IN  b.rsp = p.rsp /\ \A d \in Stack : d <= p.rsp => b.mem[d] = p.mem[d]
  PROVE  LET e == Put(b, res, v)
             q == FoldLeft(PopAside, e, Reverse(saved))
         IN  /\ IsCpu(q) /\ q.rsp = c.rsp /\ q.mem = e.mem /\ KeepsWords(q, c, res)
             /\ \A r \in Registers :
                  q.regs[r] = IF \E j \in 1 .. Len(saved) : saved[j].saved /\ saved[j].reg = r
                              THEN c.regs[r] ELSE e.regs[r]
<1> DEFINE n == Len(saved)
           p == FoldLeft(PushAside, c, saved)
           e == Put(b, res, v)
           q == FoldLeft(PopAside, e, Reverse(saved))
<1>1. PICK f : Pushes(f, c, saved) /\ p = f[n]
  <2>1. PICK f : /\ f[0] = c
                 /\ \A k \in 0 .. Len(saved) - 1 : f[k + 1] = PushAside(f[k], saved[k + 1])
                 /\ FoldLeft(PushAside, c, saved) = f[Len(saved)]
    BY PushLoop
  <2> QED BY <2>1 DEF Pushes
<1>2. n \in Nat /\ n \in 0 .. n
  OBVIOUS
<1>3. /\ f[n].regs = c.regs /\ c.rsp <= f[n].rsp
      /\ \A d \in Stack : d <= c.rsp => f[n].mem[d] = c.mem[d]
  BY <1>1, <1>2, PushesFacts
<1>4. b.rsp = p.rsp /\ \A d \in Stack : d <= p.rsp => b.mem[d] = p.mem[d]
  OBVIOUS
<1>5. c.rsp \in Int /\ b.rsp \in Int
  BY DEF IsCpu
<1>6. /\ IsCpu(e) /\ e.rsp = b.rsp
      /\ \A d \in Stack :
           e.mem[d] = IF res.onstack = 1 /\ res.loc \div Word = d THEN v ELSE b.mem[d]
  BY PutFacts
<1> HIDE DEF p, e
<1>7. \A d \in Stack : c.rsp < d /\ d <= e.rsp => e.mem[d] = f[n].mem[d]
  <2> SUFFICES ASSUME NEW d \in Stack, c.rsp < d, d <= e.rsp PROVE e.mem[d] = f[n].mem[d]
    OBVIOUS
  <2>1. ~(res.onstack = 1 /\ res.loc \div Word = d)
    BY <1>5 DEF Placed, SlotOf, Stack
  <2> QED BY <1>1, <1>4, <1>6, <2>1
<1>8. e.rsp = f[n].rsp /\ \A d \in c.rsp + 1 .. c.rsp + n : d \in Stack
  BY <1>1, <1>4, <1>6 DEF Room
<1>9. /\ IsCpu(q) /\ q.rsp = c.rsp /\ q.mem = e.mem
      /\ \A r \in Registers :
           q.regs[r] = IF \E j \in 1 .. n : saved[j].saved /\ saved[j].reg = r
                       THEN c.regs[r] ELSE e.regs[r]
  BY <1>1, <1>6, <1>7, <1>8, PopsFacts
<1>10. KeepsWords(q, c, res)
  <2> SUFFICES ASSUME NEW d \in Stack, d <= c.rsp, res.onstack = 1 => d # SlotOf(res)
               PROVE  q.mem[d] = c.mem[d]
    BY DEF KeepsWords
  <2>1. d <= p.rsp
    BY <1>1, <1>3, <1>4, <1>5 DEF Stack
  <2>2. e.mem[d] = b.mem[d]
    BY <1>6 DEF SlotOf
  <2> QED BY <1>1, <1>3, <1>4, <1>9, <2>1, <2>2
<1> QED BY <1>9, <1>10 DEF e, p

(* A call: the registers that an entry of the table names, and the words   *)
(* above the stack pointer, are as before.                                 *)
LEMMA AfterCallFacts ==
  ASSUME NEW c, IsCpu(c), argsz \in Nat, NEW tab, NEW res
  PROVE  LET q == AfterCall(c, tab, res)
         IN  /\ IsCpu(q)
             /\ Placed(res, c) /\ Room(c, TableRegs) =>
                /\ q.rsp = c.rsp - argsz /\ KeepsWords(q, c, res)
                /\ \A r \in Registers : IsRegUsed(tab, r) => KeepsReg(q, c, res, r)
                /\ (IF res.onstack = 1 THEN SlotOf(res) \in Stack ELSE res.loc \in Registers) =>
                     Get(q, res) = ValueOf(res.tmp)
<1> DEFINE saved == SavedRegs(tab, res)
           p == FoldLeft(PushAside, c, saved)
           l == LoadArgs(p, saved)
           b == DropWords(Callee(l, res), Overflow)
           e == Put(b, res, b.regs[Rax])
           w == FoldLeft(PopAside, e, Reverse(saved))
           q == AfterCall(c, tab, res)
<1>1. /\ saved \in Seq({saved[i] : i \in 1 .. TableRegs}) /\ Len(saved) = TableRegs
      /\ \A i \in 1 .. TableRegs :
           /\ saved[i].reg = i - 1
           /\ saved[i].saved <=> (res.onstack = 1 \/ res.loc # i - 1) /\ IsRegUsed(tab, i - 1)
  <2> DEFINE entry(i) == [Aside(i - 1, res) EXCEPT !.saved = @ /\ IsRegUsed(tab, i - 1)]
             P == {entry(i) : i \in 1 .. TableRegs}
  <2>1. \A i \in 1 .. TableRegs :
          /\ entry(i).reg = i - 1
          /\ entry(i).saved <=> (res.onstack = 1 \/ res.loc # i - 1) /\ IsRegUsed(tab, i - 1)
    BY DEF Aside, InMemory
  <2>2. saved = [i \in 1 .. TableRegs |-> entry(i)]
    BY DEF SavedRegs
  <2> HIDE DEF saved, entry
  <2>3. /\ saved \in Seq(P) /\ Len(saved) = TableRegs
        /\ \A i \in 1 .. TableRegs : saved[i] = entry(i)
    BY <2>2, TableRegsAssumption
  <2>4. P = {saved[i] : i \in 1 .. TableRegs}
    BY <2>3
  <2> QED BY <2>1, <2>3, <2>4
<1>2. q = DropWords(w, argsz)
  BY DEF AfterCall, AtCall
<1> HIDE DEF saved
<1>3. PICK f : Pushes(f, c, saved) /\ p = f[TableRegs]
  BY <1>1, PushLoop DEF Pushes
<1>4. IsCpu(p) /\ p.regs = c.regs
  BY <1>1, <1>3, PushesFacts, TableRegsAssumption
<1> HIDE DEF p
<1>5. /\ IsCpu(l) /\ l.rsp = p.rsp + Overflow /\ Overflow \in Nat
      /\ \A d \in Stack : d <= p.rsp => l.mem[d] = p.mem[d]
  BY <1>4, LoadArgsFacts
<1> HIDE DEF l
<1>6. /\ IsCpu(b) /\ b.rsp = p.rsp /\ b.regs[Rax] = ValueOf(res.tmp)
      /\ \A d \in Stack : d <= p.rsp => b.mem[d] = p.mem[d]
  <2> DEFINE a == Callee(l, res)
  <2>1. /\ IsCpu(a) /\ a.rsp = l.rsp /\ a.regs[Rax] = ValueOf(res.tmp)
        /\ \A d \in Stack : d <= l.rsp => a.mem[d] = l.mem[d]
    BY <1>5, CalleeFacts, RaxAssumption DEF Registers
  <2> HIDE DEF a
  <2>2. /\ IsCpu(b) /\ b.rsp = a.rsp - Overflow /\ b.mem = a.mem /\ b.regs = a.regs
    <3>1. LET x == DropWords(a, Overflow)
          IN  IsCpu(x) /\ x.rsp = a.rsp - Overflow /\ x.mem = a.mem /\ x.regs = a.regs
      BY <1>5, <2>1, DropWordsFacts
    <3> QED BY <3>1 DEF a
  <2>3. p.rsp \in Int /\ l.rsp \in Int
    BY <1>4, <1>5 DEF IsCpu
  <2>4. \A d \in Stack : d <= p.rsp => d <= l.rsp
    BY <1>5, <2>3 DEF Stack
  <2> QED BY <1>5, <2>1, <2>2, <2>3, <2>4
<1> HIDE DEF b
<1>6a. IsCpu(w)
  <2> DEFINE S == {saved[i] : i \in 1 .. TableRegs}
             v == b.regs[Rax]
  <2>1. saved \in Seq(S)
    BY <1>1
  <2> HIDE DEF S, v
  <2>2. IsCpu(Put(b, res, v))
    BY <1>6, PutFacts
  <2>3. IsCpu(e)
    BY <2>2 DEF v
  <2> HIDE DEF e
  <2> QED BY <2>1, <2>3, PopsKeepCpu
<1>6b. IsCpu(q)
  <2> HIDE DEF w, q
  <2> QED BY <1>2, <1>6a, DropWordsFacts
<1> SUFFICES ASSUME Placed(res, c), Room(c, TableRegs)
             PROVE  /\ q.rsp = c.rsp - argsz /\ KeepsWords(q, c, res)
                    /\ \A r \in Registers : IsRegUsed(tab, r) => KeepsReg(q, c, res, r)
                    /\ (IF res.onstack = 1 THEN SlotOf(res) \in Stack
                                           ELSE res.loc \in Registers) =>
                         Get(q, res) = ValueOf(res.tmp)
  BY <1>6b
<1>7. /\ IsCpu(w) /\ w.rsp = c.rsp /\ w.mem = e.mem /\ KeepsWords(w, c, res)
      /\ \A r \in Registers :
           w.regs[r] = IF \E j \in 1 .. TableRegs : saved[j].saved /\ saved[j].reg = r
                       THEN c.regs[r] ELSE e.regs[r]
  <2> DEFINE v == b.regs[Rax]
  <2>1. Room(c, Len(saved))
    BY <1>1
  <2> HIDE DEF v
  <2>2. LET ee == Put(b, res, v)
            qq == FoldLeft(PopAside, ee, Reverse(saved))
        IN  /\ IsCpu(qq) /\ qq.rsp = c.rsp /\ qq.mem = ee.mem /\ KeepsWords(qq, c, res)
            /\ \A r \in Registers :
                 qq.regs[r] = IF \E j \in 1 .. Len(saved) : saved[j].saved /\ saved[j].reg = r
                              THEN c.regs[r] ELSE ee.regs[r]
    BY <1>1, <1>6, <2>1, AroundFacts DEF p
  <2> QED BY <1>1, <2>2 DEF v
<1>8. /\ \A r \in Registers :
           e.regs[r] = IF res.onstack # 1 /\ res.loc = r THEN ValueOf(res.tmp) ELSE b.regs[r]
      /\ \A d \in Stack :
           e.mem[d] = IF res.onstack = 1 /\ res.loc \div Word = d
                      THEN ValueOf(res.tmp) ELSE b.mem[d]
  BY <1>6, PutFacts
<1> HIDE DEF e, w
<1>9. IsCpu(q) /\ q.rsp = c.rsp - argsz /\ q.mem = w.mem /\ q.regs = w.regs
  BY <1>2, <1>7, DropWordsFacts
<1> HIDE DEF q
<1>10. KeepsWords(q, c, res)
  BY <1>7, <1>9 DEF KeepsWords
<1>11. ASSUME NEW r \in Registers, IsRegUsed(tab, r), res.onstack = 1 \/ res.loc # r
       PROVE  q.regs[r] = c.regs[r]
  <2>1. r + 1 \in 1 .. TableRegs /\ (r + 1) - 1 = r
    BY TableRegsAssumption DEF Registers
  <2>2. saved[r + 1].saved /\ saved[r + 1].reg = r
    BY <1>1, <1>11, <2>1
  <2> QED BY <1>7, <1>9, <2>1, <2>2
<1>12. ASSUME res.onstack = 1, SlotOf(res) \in Stack PROVE Get(q, res) = ValueOf(res.tmp)
  BY <1>7, <1>8, <1>9, <1>12 DEF Get, WordAt, SlotOf
<1>13. ASSUME res.onstack # 1, res.loc \in Registers PROVE Get(q, res) = ValueOf(res.tmp)
  <2>1. ~\E j \in 1 .. TableRegs : saved[j].saved /\ saved[j].reg = res.loc
    BY <1>1, <1>13
  <2> QED BY <1>7, <1>8, <1>9, <1>13, <2>1 DEF Get
<1> QED BY <1>9, <1>10, <1>11, <1>12, <1>13 DEF KeepsReg, q

(* A multiplication or a division: every register but the result's, rax    *)
(* and rdx among them, and every word above the stack pointer is as before.*)
LEMMA MuldivFacts ==
  ASSUME NEW c, IsCpu(c), NEW lhs, NEW rhs, NEW res, NEW answer
  PROVE  LET q == Muldiv(c, lhs, rhs, res, answer)
         IN  /\ IsCpu(q)
             /\ Placed(res, c) /\ Room(c, 2) =>
                /\ q.rsp = c.rsp /\ KeepsWords(q, c, res)
                /\ answer \in {Rax, Rdx} => \A r \in Registers : KeepsReg(q, c, res, r)
<1> DEFINE one == Aside(Rdx, res)
           two == Aside(Rax, res)
           saved == <<one, two>>
           p == FoldLeft(PushAside, c, saved)
           left == Get(p, lhs)
           cleared == SetReg(p, Rax, left)
           loaded == SetReg(cleared, Rdx, Junk)
           given == IF Holds(p, lhs) /\ Holds(loaded, rhs) THEN ValueOf(res.tmp) ELSE Junk
           wiping == SetReg(loaded, Rax, Junk)
           wiped == SetReg(wiping, Rdx, Junk)
           done == SetReg(wiped, answer, given)
           v == done.regs[answer]
           e == Put(done, res, v)
           q == FoldLeft(PopAside, e, Reverse(saved))
<1>1. Muldiv(c, lhs, rhs, res, answer) = q
  <2>1. loaded = [p EXCEPT !.regs[Rax] = left, !.regs[Rdx] = Junk]
    BY DEF SetReg
  <2>2. done = [loaded EXCEPT !.regs[Rax] = Junk, !.regs[Rdx] = Junk, !.regs[answer] = given]
    BY DEF SetReg
  <2> HIDE DEF done, loaded, given
  <2>3. Muldiv(c, lhs, rhs, res, answer)
          = LET lo == [p EXCEPT !.regs[Rax] = left, !.regs[Rdx] = Junk]
                gi == IF Holds(p, lhs) /\ Holds(lo, rhs) THEN ValueOf(res.tmp) ELSE Junk
                do == [lo EXCEPT !.regs[Rax] = Junk, !.regs[Rdx] = Junk, !.regs[answer] = gi]
            IN  FoldLeft(PopAside, Put(do, res, do.regs[answer]), Reverse(saved))
    BY DEF Muldiv
  <2>4. given = IF Holds(p, lhs) /\ Holds(loaded, rhs) THEN ValueOf(res.tmp) ELSE Junk
    BY DEF given
  <2> QED BY <2>1, <2>2, <2>3, <2>4
<1> DEFINE S == {one, two}
<1>2. /\ saved \in Seq(S) /\ Len(saved) = 2 /\ saved[1] = one /\ saved[2] = two
  OBVIOUS
<1>3. one.reg = Rdx /\ (one.saved <=> res.onstack = 1 \/ res.loc # Rdx)
  BY DEF Aside, InMemory
<1>4. two.reg = Rax /\ (two.saved <=> res.onstack = 1 \/ res.loc # Rax)
  BY DEF Aside, InMemory
<1> HIDE DEF saved, one, two, S
<1>5. PICK f : Pushes(f, c, saved) /\ p = f[Len(saved)]
  <2>1. PICK f : /\ f[0] = c
                 /\ \A k \in 0 .. Len(saved) - 1 : f[k + 1] = PushAside(f[k], saved[k + 1])
                 /\ FoldLeft(PushAside, c, saved) = f[Len(saved)]
    BY <1>2, PushLoop
  <2> QED BY <2>1 DEF Pushes
<1>6. IsCpu(p) /\ p.regs = c.regs
  <2>1. IsCpu(f[Len(saved)]) /\ f[Len(saved)].regs = c.regs
    <3>1. Len(saved) \in 0 .. Len(saved)
      BY <1>2
    <3> QED BY <1>2, <1>5, <3>1, PushesFacts
  <2> QED BY <1>5, <2>1
<1> HIDE DEF p, left
<1>7. /\ IsCpu(loaded) /\ loaded.rsp = p.rsp /\ loaded.mem = p.mem
      /\ \A r \in Registers :
           loaded.regs[r] = IF r = Rdx THEN Junk ELSE IF r = Rax THEN left ELSE p.regs[r]
  <2>1. /\ IsCpu(cleared) /\ cleared.rsp = p.rsp /\ cleared.mem = p.mem
        /\ \A r \in Registers : cleared.regs[r] = IF r = Rax THEN left ELSE p.regs[r]
    BY <1>6, SetRegFacts
  <2> HIDE DEF cleared
  <2>2. /\ IsCpu(loaded) /\ loaded.rsp = cleared.rsp /\ loaded.mem = cleared.mem
        /\ \A r \in Registers : loaded.regs[r] = IF r = Rdx THEN Junk ELSE cleared.regs[r]
    BY <2>1, SetRegFacts
  <2> QED BY <2>1, <2>2
<1> HIDE DEF loaded, given
<1>8. /\ IsCpu(wiped) /\ wiped.rsp = loaded.rsp /\ wiped.mem = loaded.mem
      /\ \A r \in Registers :
           wiped.regs[r] = IF r = Rdx THEN Junk ELSE IF r = Rax THEN Junk ELSE loaded.regs[r]
  <2>1. /\ IsCpu(wiping) /\ wiping.rsp = loaded.rsp /\ wiping.mem = loaded.mem
        /\ \A r \in Registers : wiping.regs[r] = IF r = Rax THEN Junk ELSE loaded.regs[r]
    BY <1>7, SetRegFacts
  <2> HIDE DEF wiping
  <2>2. /\ IsCpu(wiped) /\ wiped.rsp = wiping.rsp /\ wiped.mem = wiping.mem
        /\ \A r \in Registers : wiped.regs[r] = IF r = Rdx THEN Junk ELSE wiping.regs[r]
    BY <2>1, SetRegFacts
  <2> QED BY <2>1, <2>2
<1> HIDE DEF wiped
<1>9. /\ IsCpu(done) /\ done.rsp = wiped.rsp /\ done.mem = wiped.mem
      /\ \A r \in Registers : done.regs[r] = IF r = answer THEN given ELSE wiped.regs[r]
  BY <1>8, SetRegFacts
<1> HIDE DEF done
<1> HIDE DEF v
<1>9a. IsCpu(q)
  <2>1. saved \in Seq(S) /\ IsCpu(done)
    BY <1>2, <1>9
  <2>2. IsCpu(e)
    BY <2>1, PutFacts
  <2> HIDE DEF e
  <2> QED BY <2>1, <2>2, PopsKeepCpu
<1> SUFFICES ASSUME Placed(res, c), Room(c, 2)
             PROVE  /\ q.rsp = c.rsp /\ KeepsWords(q, c, res)
                    /\ answer \in {Rax, Rdx} => \A r \in Registers : KeepsReg(q, c, res, r)
  BY <1>1, <1>9a
<1>10. /\ IsCpu(q) /\ q.rsp = c.rsp /\ q.mem = e.mem /\ KeepsWords(q, c, res)
       /\ \A r \in Registers :
            q.regs[r] = IF \E j \in 1 .. Len(saved) : saved[j].saved /\ saved[j].reg = r
                        THEN c.regs[r] ELSE e.regs[r]
  <2>1. Room(c, Len(saved))
    BY <1>2
  <2>2. LET x == FoldLeft(PushAside, c, saved)
        IN  done.rsp = x.rsp /\ \A d \in Stack : d <= x.rsp => done.mem[d] = x.mem[d]
    BY <1>7, <1>8, <1>9 DEF p
  <2>2a. saved \in Seq(S) /\ IsCpu(done)
    BY <1>2, <1>9
  <2>3. LET ee == Put(done, res, v)
            qq == FoldLeft(PopAside, ee, Reverse(saved))
        IN  /\ IsCpu(qq) /\ qq.rsp = c.rsp /\ qq.mem = ee.mem /\ KeepsWords(qq, c, res)
            /\ \A r \in Registers :
                 qq.regs[r] = IF \E j \in 1 .. Len(saved) : saved[j].saved /\ saved[j].reg = r
                              THEN c.regs[r] ELSE ee.regs[r]
    BY <2>1, <2>2, <2>2a, AroundFacts
  <2> QED BY <2>3
<1>11. \A r \in Registers :
         e.regs[r] = IF res.onstack # 1 /\ res.loc = r THEN v ELSE done.regs[r]
  BY <1>9, PutFacts
<1> HIDE DEF e, q
<1>12. ASSUME answer \in {Rax, Rdx}, NEW r \in Registers, res.onstack = 1 \/ res.loc # r
       PROVE  q.regs[r] = c.regs[r]
  <2>1. CASE r = Rdx \/ r = Rax
    <3>1. \E j \in 1 .. Len(saved) : saved[j].saved /\ saved[j].reg = r
      BY <1>2, <1>3, <1>4, <1>12, <2>1
    <3> QED BY <1>10, <3>1
  <2>2. CASE r # Rdx /\ r # Rax
    <3>1. ~\E j \in 1 .. Len(saved) : saved[j].saved /\ saved[j].reg = r
      <4>1. \A j \in 1 .. Len(saved) : j = 1 \/ j = 2
        BY <1>2
      <4>2. saved[1].reg # r /\ saved[2].reg # r
        BY <1>2, <1>3, <1>4, <2>2
      <4> QED BY <4>1, <4>2
    <3>2. done.regs[r] = c.regs[r]
      BY <1>6, <1>7, <1>8, <1>9, <1>12, <2>2
    <3> QED BY <1>10, <1>11, <1>12, <3>1, <3>2
  <2> QED BY <2>1, <2>2
<1> QED BY <1>10, <1>12 DEF KeepsReg

(* A single move, TWOOP, and the room that CODE_ALLOC_TMP makes.           *)
LEMMA PutKeeps ==
  ASSUME NEW c, IsCpu(c), NEW res, NEW v
  PROVE  LET q == Put(c, res, v)
         IN  /\ IsCpu(q) /\ q.rsp = c.rsp /\ KeepsWords(q, c, res)
             /\ \A r \in Registers : KeepsReg(q, c, res, r)
<1> DEFINE q == Put(c, res, v)
<1>1. /\ IsCpu(q) /\ q.rsp = c.rsp
      /\ \A r \in Registers :
           q.regs[r] = IF res.onstack # 1 /\ res.loc = r THEN v ELSE c.regs[r]
      /\ \A d \in Stack :
           q.mem[d] = IF res.onstack = 1 /\ res.loc \div Word = d THEN v ELSE c.mem[d]
  BY PutFacts
<1> HIDE DEF q
<1> QED BY <1>1 DEF KeepsWords, KeepsReg, SlotOf, q

LEMMA TwoopFacts ==
  ASSUME NEW c, IsCpu(c), NEW lhs, NEW rhs, NEW res
  PROVE  LET q == Twoop(c, lhs, rhs, res)
         IN  /\ IsCpu(q) /\ q.rsp = c.rsp /\ KeepsWords(q, c, res)
             /\ \A r \in Registers : KeepsReg(q, c, res, r)
<1> DEFINE u == Get(c, lhs)
           moved == Put(c, res, u)
           v == IF Holds(c, lhs) /\ Holds(moved, rhs) THEN ValueOf(res.tmp) ELSE Junk
           q == Put(moved, res, v)
<1>1. Twoop(c, lhs, rhs, res) = q
  BY DEF Twoop
<1> HIDE DEF u
<1>2. /\ IsCpu(moved) /\ moved.rsp = c.rsp /\ KeepsWords(moved, c, res)
      /\ \A r \in Registers : KeepsReg(moved, c, res, r)
  BY PutKeeps
<1> HIDE DEF moved, v
<1>3. /\ IsCpu(q) /\ q.rsp = moved.rsp /\ KeepsWords(q, moved, res)
      /\ \A r \in Registers : KeepsReg(q, moved, res, r)
  BY <1>2, PutKeeps
<1> HIDE DEF q
<1> QED BY <1>1, <1>2, <1>3 DEF KeepsWords, KeepsReg

LEMMA SubRspFacts ==
  ASSUME NEW c, IsCpu(c), NEW h, h.onstack = 1 => h.size = Word
  PROVE  LET q == SubRsp(c, h)
         IN  /\ IsCpu(q) /\ q.mem = c.mem /\ q.regs = c.regs
             /\ q.rsp = c.rsp + (IF h.onstack = 1 THEN 1 ELSE 0)
<1>1. CASE h.onstack = 1
  <2> DEFINE rsp == c.rsp + 1
  <2>1. Word \in Nat /\ Word # 0 /\ c.rsp \in Int
    BY SizesAssumption, WordAssumption DEF IsCpu
  <2>2. Word \div Word = 1
    BY <2>1
  <2>3. SubRsp(c, h) = [c EXCEPT !.rsp = rsp] /\ rsp \in Int
    BY <1>1, <2>1, <2>2 DEF SubRsp, IsCpu
  <2> HIDE DEF rsp
  <2>4. [c EXCEPT !.rsp = rsp] = [regs |-> c.regs, mem |-> c.mem, rsp |-> rsp]
    BY CpuUpdates
  <2> QED BY <1>1, <2>3, <2>4 DEF IsCpu, rsp
<1>2. CASE h.onstack # 1
  <2>1. c.rsp + 0 = c.rsp
    BY DEF IsCpu
  <2> QED BY <1>2, <2>1 DEF SubRsp
<1> QED BY <1>1, <1>2

-----------------------------------------------------------------------------
(* Part four: one step of the program.                                     *)

\* Every node of the machine is a node of RegAlloc.
LEMMA RunsNodes == [RunNext]_<<vars, run>> => [Next]_vars
<1> SUFFICES ASSUME RunNext PROVE Next
  BY DEF vars, run
<1>1. Word \in Sizes
  BY SizesAssumption
<1>2. CASE Constant \/ LoadParam \/ \E n \in Arities : Call(n)
  <2>1. Leaf(Word)
    BY <1>2 DEF Constant, LoadParam, Call
  <2> QED BY <1>1, <2>1 DEF Next
<1>3. CASE \E i \in 1 .. Len(mine) : Identifier(i) \/ Assign(i)
  <2>1. Leaf(Word) \/ Use
    BY <1>3 DEF Identifier, Assign
  <2> QED BY <1>1, <2>1 DEF Next
<1>4. CASE Arithmetic \/ \E answer \in {Rax, Rdx} : Multiply(answer)
  <2>1. BinaryOp
    BY <1>4 DEF Arithmetic, Multiply
  <2> QED BY <2>1 DEF Next
<1>5. CASE Comparison
  BY <1>5 DEF Comparison, Next
<1>6. CASE Discard \/ PushArg \/ PushParam
  <2>1. Use
    BY <1>6 DEF Discard, PushArg, PushParam
  <2> QED BY <2>1 DEF Next
<1>7. CASE \E names \in Params, params \in ParamCounts : DefFunc(names, params)
  BY <1>7 DEF DefFunc, Next
<1> QED BY <1>2, <1>3, <1>4, <1>5, <1>6, <1>7 DEF RunNext

LEMMA RunSInv == RunSpec => []SInv
<1>1. RunInit => SInv
  BY InitSInv DEF RunInit
<1>2. SInv /\ [RunNext]_<<vars, run>> => SInv'
  BY RunsNodes, NextSInv
<1> QED BY <1>1, <1>2, PTL DEF RunSpec

(* The home of a node's result: a register, or the word that the frame has *)
(* just grown by.                                                          *)
LEMMA ResultFacts ==
  ASSUME SInv, Leaf(Word) \/ BinaryOp \/ Compare
  PROVE  /\ Result \in Homes' /\ Result.tmp = next /\ Result.size = Word
         /\ Result.onstack \in {0, 1} /\ Result.loc \in Nat
         /\ Result.onstack = 0 => frame'.end = frame.end
         /\ Result.onstack = 1 => frame'.end = frame.end + Word /\ Result.loc = frame'.end
<1> DEFINE up == frame'.end
<1>1. PICK k \in {0, 2}, h \in Waits(next + 1) :
        /\ Waiting(k) /\ pending' = Append(Rest(k), h)
        /\ h.tmp = next /\ h.size = Word
        /\ h.onstack = 0 => up = frame.end
        /\ h.onstack = 1 => up = frame.end + h.size /\ h.loc = up
  <2>1. Word \in Sizes
    BY SizesAssumption
  <2> QED BY <2>1, NodeFacts
<1> HIDE DEF up
<1>2. Rest(k) \in Seq(Waits(next))
  <2>1. pending \in Seq(Waits(next)) /\ Len(pending) \in Nat /\ k \in Nat
    BY DEF SInv
  <2>2. Len(pending) - k \in 0 .. Len(pending)
    BY <1>1, <2>1 DEF Waiting
  <2> QED BY <2>1, <2>2, PrefixFacts DEF Rest
<1> DEFINE rest == Rest(k)
<1> HIDE DEF rest
<1>3. rest \in Seq(Waits(next)) /\ pending' = Append(rest, h)
  BY <1>1, <1>2 DEF rest
<1>4. Result = h /\ Len(pending') \in 1 .. Len(pending')
  BY <1>3 DEF Result
<1>5. Result \in Homes'
  BY <1>4 DEF Homes, Result
<1>6. h.onstack \in {0, 1} /\ h.loc \in Nat
  BY <1>1 DEF Waits
<1> QED BY <1>1, <1>4, <1>5, <1>6 DEF up

\* The nodes that give a value.
Valued ==
  \/ Constant \/ LoadParam \/ Arithmetic \/ Comparison
  \/ \E i \in 1 .. Len(mine) : Identifier(i)
  \/ \E answer \in {Rax, Rdx} : Multiply(answer)
  \/ \E n \in Arities : Call(n)

(* What they do to the machine, after room has been made for the result.   *)
LEMMA ValuedFacts ==
  ASSUME SInv, IsCpu(cpu), argsz \in Nat, Valued
  PROVE  LET c == SubRsp(cpu, Result)
         IN  /\ Leaf(Word) \/ BinaryOp \/ Compare
             /\ Fits /\ argsz' \in Nat /\ UNCHANGED todo
             /\ UNCHANGED <<argsz, pushed>> \/ \E n \in Arities : Call(n)
             /\ IsCpu(c) /\ c.mem = cpu.mem /\ c.regs = cpu.regs
             /\ c.rsp = cpu.rsp + (IF Result.onstack = 1 THEN 1 ELSE 0)
             /\ IsCpu(cpu')
             /\ Placed(Result, c) /\ Room(c, TableRegs) =>
                  /\ cpu'.rsp = c.rsp - argsz + argsz' /\ KeepsWords(cpu', c, Result)
                  /\ \A r \in Registers :
                       IsRegUsed(table', r) => KeepsReg(cpu', c, Result, r)
<1> DEFINE res == Result
           c == SubRsp(cpu, res)
           Done ==
             /\ IsCpu(cpu')
             /\ Placed(res, c) /\ Room(c, TableRegs) =>
                  /\ cpu'.rsp = c.rsp - argsz + argsz' /\ KeepsWords(cpu', c, res)
                  /\ \A r \in Registers :
                       IsRegUsed(table', r) => KeepsReg(cpu', c, res, r)
<1>1. Leaf(Word) \/ BinaryOp \/ Compare
  BY DEF Valued, Constant, LoadParam, Arithmetic, Comparison, Identifier, Multiply, Call
<1>2. Fits /\ argsz' \in Nat /\ UNCHANGED todo
      /\ (UNCHANGED <<argsz, pushed>> \/ \E n \in Arities : Call(n))
  <2>1. CASE \E n \in Arities : Call(n)
    <3>1. \A n \in Arities : Call(n) => Fits /\ argsz' = 0 /\ todo' = todo
      BY DEF Call
    <3> QED BY <2>1, <3>1
  <2>2. CASE Constant \/ LoadParam \/ Arithmetic \/ Comparison
    BY <2>2 DEF Constant, LoadParam, Arithmetic, Comparison
  <2>3. CASE \E i \in 1 .. Len(mine) : Identifier(i)
    BY <2>3 DEF Identifier
  <2>4. CASE \E answer \in {Rax, Rdx} : Multiply(answer)
    BY <2>4 DEF Multiply
  <2> QED BY <2>1, <2>2, <2>3, <2>4 DEF Valued
<1>3. res.size = Word
  BY <1>1, ResultFacts
<1> HIDE DEF res
<1>4. /\ IsCpu(c) /\ c.mem = cpu.mem /\ c.regs = cpu.regs
      /\ c.rsp = cpu.rsp + (IF res.onstack = 1 THEN 1 ELSE 0)
  BY <1>3, SubRspFacts
<1> HIDE DEF c
<1>5. c.rsp \in Int /\ c.rsp - argsz + argsz = c.rsp /\ c.rsp - argsz + 0 = c.rsp - argsz
  BY <1>4 DEF IsCpu
<1>6. ASSUME argsz' = argsz, NEW v, cpu' = Put(c, res, v) PROVE Done
  <2>1. LET q == Put(c, res, v)
        IN  /\ IsCpu(q) /\ q.rsp = c.rsp /\ KeepsWords(q, c, res)
            /\ \A r \in Registers : KeepsReg(q, c, res, r)
    BY <1>4, PutKeeps
  <2> QED BY <1>5, <1>6, <2>1
<1>7. ASSUME Constant \/ LoadParam \/ Comparison \/ \E i \in 1 .. Len(mine) : Identifier(i)
      PROVE  Done
  <2>0. argsz' = argsz /\ NotInMemory({res}) /\ \E v : cpu' = Put(cpu, res, v)
    BY <1>7 DEF Constant, LoadParam, Comparison, Identifier, res
  <2>1. c = cpu
    BY <2>0 DEF NotInMemory, InMemory, SubRsp, c
  <2>2. PICK v : cpu' = Put(c, res, v)
    BY <2>0, <2>1
  <2> HIDE DEF Done
  <2> QED BY <1>6, <2>0, <2>2
<1>8. ASSUME Arithmetic PROVE Done
  <2> DEFINE lhs == OperandBehind(2)
             rhs == OperandBehind(1)
  <2>1. argsz' = argsz /\ cpu' = Twoop(c, lhs, rhs, res)
    BY <1>8 DEF Arithmetic, c, res
  <2> HIDE DEF lhs, rhs
  <2>2. LET q == Twoop(c, lhs, rhs, res)
        IN  /\ IsCpu(q) /\ q.rsp = c.rsp /\ KeepsWords(q, c, res)
            /\ \A r \in Registers : KeepsReg(q, c, res, r)
    BY <1>4, TwoopFacts
  <2>3. /\ IsCpu(cpu') /\ cpu'.rsp = c.rsp /\ KeepsWords(cpu', c, res)
        /\ \A r \in Registers : KeepsReg(cpu', c, res, r)
    BY <2>1, <2>2
  <2>4. cpu'.rsp = (c.rsp - argsz) + argsz'
    BY <1>5, <2>1, <2>3
  <2> QED BY <2>3, <2>4
<1>9. ASSUME NEW answer \in {Rax, Rdx}, Multiply(answer) PROVE Done
  <2> DEFINE lhs == OperandBehind(2)
             rhs == OperandBehind(1)
  <2>1. argsz' = argsz /\ cpu' = Muldiv(c, lhs, rhs, res, answer)
    BY <1>9 DEF Multiply, c, res
  <2> HIDE DEF lhs, rhs
  <2>2. LET q == Muldiv(c, lhs, rhs, res, answer)
        IN  /\ IsCpu(q)
            /\ Placed(res, c) /\ Room(c, 2) =>
               /\ q.rsp = c.rsp /\ KeepsWords(q, c, res)
               /\ answer \in {Rax, Rdx} => \A r \in Registers : KeepsReg(q, c, res, r)
    BY <1>4, MuldivFacts
  <2>3. Room(c, TableRegs) => Room(c, 2)
    <3>1. TableRegs \in Nat /\ 2 <= TableRegs
      BY TableRegsAssumption, RaxAssumption
    <3>2. \A d \in c.rsp + 1 .. c.rsp + 2 : d \in c.rsp + 1 .. c.rsp + TableRegs
      BY <1>5, <3>1
    <3> QED BY <3>2 DEF Room
  <2> QED BY <1>5, <1>9, <2>1, <2>2, <2>3
<1>10. ASSUME NEW n \in Arities, Call(n) PROVE Done
  <2> DEFINE tab == table'
  <2>1. argsz' = 0 /\ cpu' = AfterCall(c, tab, res)
    BY <1>10 DEF Call, c, res
  <2> HIDE DEF tab
  <2>2. LET q == AfterCall(c, tab, res)
        IN  /\ IsCpu(q)
            /\ Placed(res, c) /\ Room(c, TableRegs) =>
               /\ q.rsp = c.rsp - argsz /\ KeepsWords(q, c, res)
               /\ \A r \in Registers : IsRegUsed(tab, r) => KeepsReg(q, c, res, r)
    BY <1>4, AfterCallFacts
  <2> QED BY <1>5, <2>1, <2>2 DEF tab
<1>11. Done
  <2> HIDE DEF Done
  <2>1. (\E answer \in {Rax, Rdx} : Multiply(answer)) => Done
    BY <1>9
  <2>2. (\E n \in Arities : Call(n)) => Done
    BY <1>10
  <2> QED BY <1>7, <1>8, <2>1, <2>2 DEF Valued
<1> HIDE DEF Done
<1> QED BY <1>1, <1>2, <1>4, <1>11 DEF c, Done, res

-----------------------------------------------------------------------------
(* Part five: RunTypeOK and RspTracksFrame.                                *)

\* The inductive invariant of RunTypeOK.
TInv == IsCpu(cpu) /\ argsz \in Nat /\ todo \in Nat

LEMMA SetWordFacts ==
  ASSUME NEW c, IsCpu(c), NEW d, NEW v
  PROVE  LET p == [c EXCEPT !.mem[d] = v]
         IN  IsCpu(p) /\ p.rsp = c.rsp
<1> DEFINE mem == [c.mem EXCEPT ![d] = v]
           p == [c EXCEPT !.mem[d] = v]
<1>1. p = [c EXCEPT !.mem = mem] /\ mem = [e \in Stack |-> mem[e]]
  BY DEF IsCpu
<1> HIDE DEF mem
<1>2. [c EXCEPT !.mem = mem] = [regs |-> c.regs, mem |-> mem, rsp |-> c.rsp]
  BY DEF IsCpu
<1> HIDE DEF p
<1>3. IsCpu(p) /\ p.rsp = c.rsp
  BY <1>1, <1>2 DEF IsCpu
<1> QED BY <1>3 DEF p

LEMMA EnteredFacts ==
  ASSUME NEW names, Len(names) \in Nat
  PROVE  IsCpu(Entered(names)) /\ Entered(names).rsp = Len(names)
<1> DEFINE regs == [r \in 0 .. TableRegs - 1 |-> Junk]
           mem == [d \in Stack |-> IF d \in 1 .. Len(names) THEN LocalValue(d) ELSE Junk]
           n == Len(names)
<1>1. Entered(names) = [regs |-> regs, mem |-> mem, rsp |-> n]
  BY DEF Entered
<1>2. regs = [r \in Registers |-> regs[r]] /\ mem = [d \in Stack |-> mem[d]] /\ n \in Int
  BY DEF Registers
<1> HIDE DEF regs, mem
<1> QED BY <1>1, <1>2 DEF IsCpu

LEMMA InitTInv == RunInit => TInv
<1>1. Len(<<>>) = 0
  OBVIOUS
<1> QED BY <1>1, EnteredFacts DEF RunInit, TInv

LEMMA NextTInv == SInv /\ TInv /\ [RunNext]_<<vars, run>> => TInv'
<1> SUFFICES ASSUME SInv, TInv, [RunNext]_<<vars, run>> PROVE TInv'
  OBVIOUS
<1>0. IsCpu(cpu) /\ argsz \in Nat /\ todo \in Nat
  BY DEF TInv
<1>1. CASE Valued
  BY <1>0, <1>1, ValuedFacts DEF TInv
<1>2. ASSUME NEW i, Assign(i) PROVE TInv'
  <2> DEFINE v == IF Holds(cpu, Latest(1)) THEN LocalValue(i) ELSE Junk
             d == OffsetOf(i) \div Word
  <2>1. cpu' = [cpu EXCEPT !.mem[d] = v] /\ argsz' = argsz /\ todo' = todo
    BY <1>2 DEF Assign
  <2> HIDE DEF v, d
  <2>2. LET p == [cpu EXCEPT !.mem[d] = v] IN IsCpu(p)
    BY <1>0, SetWordFacts
  <2>3. IsCpu(cpu')
    BY <2>1, <2>2
  <2> QED BY <1>0, <2>1, <2>3 DEF TInv
<1>3. CASE PushArg \/ PushParam
  <2> DEFINE v == Get(cpu, Latest(1))
  <2>1. cpu' = PushWord(cpu, v) /\ argsz' = argsz + 1
    BY <1>3 DEF PushArg, PushParam
  <2>2. todo' \in Nat
    BY <1>0, <1>3 DEF PushArg, PushParam
  <2> HIDE DEF v
  <2>3. IsCpu(cpu')
    BY <1>0, <2>1, PushWordFacts
  <2> QED BY <1>0, <2>1, <2>2, <2>3 DEF TInv
<1>4. ASSUME NEW names \in Params, NEW params \in ParamCounts, DefFunc(names, params)
      PROVE  TInv'
  <2>1. cpu' = Entered(names) /\ todo' = params /\ argsz' = argsz
    BY <1>4 DEF DefFunc
  <2>2. Len(names) \in Nat /\ params \in Nat
    BY ParamsAssumption, CountsAssumption
  <2> QED BY <1>0, <2>1, <2>2, EnteredFacts DEF TInv
<1>5. CASE Discard \/ UNCHANGED <<vars, run>>
  <2>1. UNCHANGED run
    BY <1>5 DEF Discard
  <2> QED BY <1>0, <2>1 DEF TInv, run
<1> QED BY <1>1, <1>2, <1>3, <1>4, <1>5 DEF RunNext, Valued

(* The registers, the words, rsp and the counters keep their types,        *)
(* whatever the program makes of them (amd64.c:165-400).                   *)
THEOREM RunTypes == RunSpec => []RunTypeOK
<1>1. TInv => RunTypeOK
  <2> SUFFICES ASSUME TInv PROVE RunTypeOK
    OBVIOUS
  <2>1. /\ cpu.regs = [r \in Registers |-> cpu.regs[r]]
        /\ cpu.mem = [d \in Stack |-> cpu.mem[d]] /\ cpu.rsp \in Int
    BY DEF TInv, IsCpu
  <2>2. DOMAIN cpu.regs = Registers /\ DOMAIN cpu.mem = Stack
    BY <2>1
  <2> QED BY <2>1, <2>2 DEF TInv, RunTypeOK, Registers
<1> QED BY <1>1, RunSInv, InitTInv, NextTInv, PTL DEF RunSpec

LEMMA DivStep ==
  ASSUME NEW n \in Nat
  PROVE  (n + Word) \div Word = n \div Word + 1
<1>1. Word \in Nat \ {0}
  BY SizesAssumption, WordAssumption
<1> QED BY <1>1

LEMMA DivMono ==
  ASSUME NEW a \in Nat, NEW b \in Nat, a <= b
  PROVE  a \div Word <= b \div Word /\ a \div Word \in Nat /\ b \div Word \in Nat
<1>1. Word \in Nat \ {0}
  BY SizesAssumption, WordAssumption
<1> QED BY <1>1

LEMMA DivCount ==
  ASSUME NEW n \in Nat
  PROVE  (n * Word) \div Word = n
<1>1. Word \in Nat \ {0}
  BY SizesAssumption, WordAssumption
<1> QED BY <1>1

(* As long as rsp is where it should be, the word that a result gets lies  *)
(* right below the frame's others, and what a node pushes fits below it.   *)
LEMMA FitsFacts ==
  ASSUME SInv, IsCpu(cpu), argsz \in Nat, RspTracksFrame, Fits,
         Leaf(Word) \/ BinaryOp \/ Compare, NEW c,
         c.rsp = cpu.rsp + (IF Result.onstack = 1 THEN 1 ELSE 0)
  PROVE  /\ Placed(Result, c) /\ Room(c, TableRegs)
         /\ c.rsp = frame'.end \div Word + argsz
         /\ cpu.rsp \in Int /\ c.rsp \in Int /\ cpu.rsp <= c.rsp
         /\ frame.end \in Nat /\ frame.end \div Word \in Nat /\ frame.end \div Word <= cpu.rsp
         /\ Result.onstack = 1 => SlotOf(Result) = frame.end \div Word + 1
<1> DEFINE e == frame.end \div Word
           up == frame'.end \div Word
<1>1. frame.end \in Nat
  BY DEF SInv
<1>2. e \in Nat /\ cpu.rsp \in Int /\ cpu.rsp = e + argsz
  BY <1>1, DivMono DEF IsCpu, RspTracksFrame
<1>3. /\ Result.onstack \in {0, 1}
      /\ Result.onstack = 0 => frame'.end = frame.end
      /\ Result.onstack = 1 => frame'.end = frame.end + Word /\ Result.loc = frame'.end
  BY ResultFacts
<1>4. (frame.end + Word) \div Word = e + 1
  BY <1>1, DivStep
<1> HIDE DEF e
<1>5. Result.onstack = 1 => up = e + 1 /\ SlotOf(Result) = e + 1
  BY <1>3, <1>4 DEF SlotOf
<1>6. Result.onstack # 1 => up = e
  BY <1>3 DEF e
<1> HIDE DEF up
<1>7. c.rsp = up + argsz /\ c.rsp \in Int /\ cpu.rsp <= c.rsp /\ c.rsp <= cpu.rsp + 1 /\ e <= cpu.rsp
  BY <1>2, <1>5, <1>6
<1>8. Placed(Result, c)
  BY <1>2, <1>5, <1>7 DEF Placed
<1>9. Room(c, TableRegs)
  <2>1. cpu.rsp + TableRegs + argsz + 1 <= Depth /\ cpu.rsp - argsz >= -Over
    BY DEF Fits
  <2> SUFFICES ASSUME NEW d \in c.rsp + 1 .. c.rsp + TableRegs PROVE d \in Stack
    BY DEF Room
  <2>2. d \in Int /\ c.rsp + 1 <= d /\ d <= c.rsp + TableRegs
    BY <1>7, TableRegsAssumption
  <2>3. -Over <= d /\ d <= Depth
    BY <1>2, <1>7, <2>1, <2>2, TableRegsAssumption, BoundsAssumption
  <2> QED BY <2>2, <2>3, BoundsAssumption DEF Stack
<1> QED BY <1>1, <1>2, <1>5, <1>7, <1>8, <1>9 DEF e, up

\* The inductive invariant of RspTracksFrame: stk_argsz counts pushes whose
\* calls are still to come, so it is zero where the next function begins.
Pushed == [value : {ValueOf(t) : t \in Nat}, depth : Nat]
FInv ==
  /\ todo = 0
  /\ pushed \in Seq(Pushed) /\ argsz <= Len(pushed)
  /\ RspTracksFrame

LEMMA InitFInv == RunInit => FInv
<1> SUFFICES ASSUME RunInit PROVE FInv
  OBVIOUS
<1>1. /\ cpu = Entered(<<>>) /\ argsz = 0 /\ pushed = <<>> /\ todo = 0 /\ frame.end = 0
  BY StartedUsable DEF RunInit, Init
<1>2. Len(<<>>) = 0 /\ 0 * Word = 0
  BY SizesAssumption
<1>3. cpu.rsp = 0
  BY <1>1, <1>2, EnteredFacts
<1>4. 0 \div Word = 0
  <2>1. (0 * Word) \div Word = 0
    BY DivCount
  <2> QED BY <1>2, <2>1
<1> QED BY <1>1, <1>3, <1>4 DEF FInv, RspTracksFrame

LEMMA NextFInv ==
  ASSUME ParamCounts \subseteq {0}
  PROVE  SInv /\ TInv /\ FInv /\ [RunNext]_<<vars, run>> => FInv'
<1> SUFFICES ASSUME SInv, TInv, FInv, [RunNext]_<<vars, run>> PROVE FInv'
  OBVIOUS
<1>0. /\ IsCpu(cpu) /\ argsz \in Nat /\ todo = 0 /\ pushed \in Seq(Pushed)
      /\ Len(pushed) \in Nat /\ argsz <= Len(pushed) /\ RspTracksFrame
      /\ cpu.rsp = frame.end \div Word + argsz /\ frame.end \div Word \in Nat
  <2>1. frame.end \in Nat
    BY DEF SInv
  <2> QED BY <2>1, DivMono DEF TInv, FInv, RspTracksFrame
<1>1. CASE Valued
  <2> DEFINE res == Result
             c == SubRsp(cpu, res)
  <2>1. /\ Leaf(Word) \/ BinaryOp \/ Compare
        /\ Fits /\ argsz' \in Nat /\ todo' = todo
        /\ UNCHANGED <<argsz, pushed>> \/ \E n \in Arities : Call(n)
        /\ c.rsp = cpu.rsp + (IF res.onstack = 1 THEN 1 ELSE 0)
        /\ Placed(res, c) /\ Room(c, TableRegs) => cpu'.rsp = c.rsp - argsz + argsz'
    BY <1>0, <1>1, ValuedFacts
  <2>2. Placed(res, c) /\ Room(c, TableRegs) /\ c.rsp = frame'.end \div Word + argsz
        /\ c.rsp \in Int
    <3> HIDE DEF c
    <3> QED BY <1>0, <2>1, FitsFacts
  <2> HIDE DEF c, res
  <2>3. frame'.end \div Word \in Int
    <3>1. frame'.end \in Nat
      BY NextSInv, RunsNodes DEF SInv
    <3> QED BY <3>1, DivMono
  <2>4. cpu'.rsp = frame'.end \div Word + argsz'
    BY <1>0, <2>1, <2>2, <2>3
  <2>5. pushed' \in Seq(Pushed) /\ argsz' <= Len(pushed')
    <3>1. CASE UNCHANGED <<argsz, pushed>>
      BY <1>0, <3>1
    <3>2. ASSUME NEW n \in Arities, Call(n)
          PROVE  pushed' \in Seq(Pushed) /\ argsz' <= Len(pushed')
      <4>1. argsz' = 0 /\ pushed' = SubSeq(pushed, 1, Len(pushed) - n) /\ n <= Len(pushed)
        BY <3>2 DEF Call
      <4>2. Len(pushed) - n \in 0 .. Len(pushed)
        BY <1>0, <4>1, CountsAssumption
      <4>3. pushed' \in Seq(Pushed)
        BY <1>0, <4>1, <4>2, PrefixFacts
      <4> QED BY <4>1, <4>3
    <3> QED BY <2>1, <3>1, <3>2
  <2> QED BY <1>0, <2>1, <2>4, <2>5 DEF FInv, RspTracksFrame
<1>2. ASSUME NEW i, Assign(i) PROVE FInv'
  <2> DEFINE v == IF Holds(cpu, Latest(1)) THEN LocalValue(i) ELSE Junk
             d == OffsetOf(i) \div Word
  <2>1. /\ cpu' = [cpu EXCEPT !.mem[d] = v] /\ argsz' = argsz /\ todo' = todo
        /\ pushed' = pushed /\ Use
    BY <1>2 DEF Assign
  <2> HIDE DEF v, d
  <2>2. LET p == [cpu EXCEPT !.mem[d] = v] IN p.rsp = cpu.rsp
    BY <1>0, SetWordFacts
  <2>3. frame'.end = frame.end
    BY <2>1, UseFacts
  <2> QED BY <1>0, <2>1, <2>2, <2>3 DEF FInv, RspTracksFrame
<1>3. CASE PushArg
  <2> DEFINE v == Get(cpu, Latest(1))
             a == [value |-> ValueOf(Latest(1).tmp), depth |-> Len(pending')]
  <2>1. /\ cpu' = PushWord(cpu, v) /\ argsz' = argsz + 1 /\ todo' = todo
        /\ pushed' = Append(pushed, a) /\ Use
    BY <1>3 DEF PushArg
  <2>2. /\ Waiting(1) /\ pending' = Rest(1) /\ Rest(1) \in Seq(Waits(next))
        /\ frame'.end = frame.end
    BY <2>1, UseFacts
  <2>3. a \in Pushed
    <3>1. Len(pending) \in 1 .. Len(pending) /\ Len(pending) + 1 - 1 = Len(pending)
      BY <2>2 DEF Waiting, SInv
    <3>2. pending[Len(pending)] \in Waits(next)
      BY <3>1 DEF SInv
    <3>3. Latest(1).tmp \in Nat
      BY <3>1, <3>2 DEF Latest, Waits
    <3>4. Len(pending') \in Nat
      BY <2>2
    <3> QED BY <3>3, <3>4 DEF Pushed
  <2> HIDE DEF v, a
  <2>4. cpu'.rsp = cpu.rsp + 1
    BY <1>0, <2>1, PushWordFacts
  <2>5. pushed' \in Seq(Pushed) /\ argsz' <= Len(pushed')
    BY <1>0, <2>1, <2>3
  <2> QED BY <1>0, <2>1, <2>2, <2>4, <2>5 DEF FInv, RspTracksFrame
<1>4. ASSUME NEW names \in Params, NEW params \in ParamCounts, DefFunc(names, params)
      PROVE  FInv'
  <2>1. /\ cpu' = Entered(names) /\ todo' = params /\ argsz' = argsz
        /\ pushed = <<>> /\ pushed' = pushed /\ NextFunction(names)
    BY <1>4 DEF DefFunc
  <2>2. Len(names) \in Nat /\ params = 0
    BY ParamsAssumption
  <2>3. frame'.end = Len(names) * Word
    <3>1. frame'.end = 0 + Len(names) * Word
      BY <2>1 DEF NextFunction, AddLocals, GrowStack, ClearStack
    <3> QED BY <2>2, <3>1, SizesAssumption
  <2>4. frame'.end \div Word = Len(names) /\ cpu'.rsp = Len(names) /\ argsz' = 0
    BY <1>0, <2>1, <2>2, <2>3, DivCount, EnteredFacts
  <2> QED BY <1>0, <2>1, <2>2, <2>4 DEF FInv, RspTracksFrame
<1>5. CASE Discard
  <2>1. UNCHANGED run /\ Use
    BY <1>5 DEF Discard
  <2>2. frame'.end = frame.end
    BY <2>1, UseFacts
  <2> QED BY <1>0, <2>1, <2>2 DEF FInv, RspTracksFrame, run
<1>6. CASE UNCHANGED <<vars, run>>
  BY <1>0, <1>6 DEF FInv, RspTracksFrame, vars, run
<1>7. ~PushParam
  BY <1>0 DEF PushParam
<1> QED BY <1>1, <1>2, <1>3, <1>4, <1>5, <1>6, <1>7 DEF RunNext, Valued

(* "restore the stacks used to pass args" (amd64.c:384, 390-392): in a     *)
(* program whose functions have no parameters rsp lies, between two nodes, *)
(* right below the frame and the arguments pushed for the next call,       *)
(* whatever is spilled, divided or called in between.  A parameter is      *)
(* counted in stk_argsz and never dropped (amd64.c:148-152).               *)
THEOREM RspTracksAlways ==
  ASSUME ParamCounts \subseteq {0}
  PROVE  RunSpec => []RspTracksFrame
<1>1. FInv => RspTracksFrame
  BY DEF FInv
<1>2. SInv /\ TInv /\ FInv /\ [RunNext]_<<vars, run>> => FInv'
  BY ParamCounts \subseteq {0}, NextFInv
<1> QED BY <1>1, <1>2, RunSInv, InitTInv, NextTInv, InitFInv, PTL DEF RunSpec

-----------------------------------------------------------------------------
(* Part six: OthersUndisturbed.                                            *)

\* What three invariants of RegAlloc say of a home: it is older than the next
\* temporary, its register has a name, its word lies within the frame, and
\* as long as the table is intact an entry names its register.
HomesKnown ==
  \A h \in Homes :
    /\ h.tmp \in Nat /\ h.tmp < next /\ h.loc \in Nat /\ h.onstack \in {0, 1}
    /\ h.onstack = 0 => h.loc \in Registers
    /\ h.onstack = 0 /\ NoneErased => IsRegUsed(table, h.loc)
    /\ h.onstack = 1 => h.loc <= frame.end

LEMMA HomesFacts ==
  ASSUME RegNum <= TableRegs
  PROVE  KInv /\ RInv => HomesKnown
<1> SUFFICES ASSUME KInv, RInv, NEW i \in 1 .. Len(pending)
             PROVE  /\ pending[i].tmp \in Nat /\ pending[i].tmp < next
                    /\ pending[i].loc \in Nat /\ pending[i].onstack \in {0, 1}
                    /\ pending[i].onstack = 0 => pending[i].loc \in Registers
                    /\ pending[i].onstack = 0 /\ NoneErased =>
                         IsRegUsed(table, pending[i].loc)
                    /\ pending[i].onstack = 1 => pending[i].loc <= frame.end
  BY DEF HomesKnown, Homes
<1>1. pending[i] \in Waits(next) /\ pending[i] \in HomeOK
  BY DEF KInv, SInv, RInv
<1>2. pending[i].loc < RegNum => pending[i].loc \in Registers
  <2>1. pending[i].loc \in Nat
    BY <1>1 DEF Waits
  <2> QED BY <2>1, RegNumAssumption, TableRegsAssumption DEF Registers
<1>3. ASSUME pending[i].onstack = 0, NoneErased PROVE IsRegUsed(table, pending[i].loc)
  <2>0. MInv /\ pending[i] \in AnyHome
    BY <1>3 DEF KInv, MInv
  <2>1. i \in 1 .. Len(table.items) /\ table.items[i] = EntryFor(pending[i])
    BY <2>0 DEF MInv, Mirrors
  <2>2. /\ OnStack(table.items[i]) = pending[i].onstack
        /\ Loc(table.items[i]) = pending[i].loc
    BY <2>0, <2>1, EntryForFacts
  <2> QED BY <1>3, <2>1, <2>2 DEF IsRegUsed
<1>4. pending[i].onstack = 1 => pending[i].loc <= frame.end
  BY DEF KInv, SInv, Stacked
<1> QED BY <1>1, <1>2, <1>3, <1>4 DEF Waits, HomeOK

(* What waits behind the last use of a value waited before it.             *)
LEMMA UseLeaves ==
  ASSUME SInv, Use
  PROVE  mine' = mine /\ \A h \in Homes' : h \in Homes
<1>1. Waiting(1) /\ pending' = Rest(1) /\ mine' = mine
  BY UseFacts
<1>2. pending \in Seq(Waits(next)) /\ Len(pending) \in Nat
  BY DEF SInv
<1>3. /\ Len(Rest(1)) = Len(pending) - 1
      /\ \A i \in 1 .. Len(pending) - 1 : Rest(1)[i] = pending[i]
  BY <1>1, <1>2, RestHomes
<1>4. \A i \in 1 .. Len(Rest(1)) : i \in 1 .. Len(pending) /\ Rest(1)[i] = pending[i]
  BY <1>2, <1>3
<1> QED BY <1>1, <1>4 DEF Homes

(* Where nothing waits afterwards there is nothing to disturb.             *)
LEMMA NoneWait ==
  ASSUME SInv, Len(pending) = 1, Use
  PROVE  Homes' = {}
<1>1. pending' = Rest(1) /\ pending \in Seq(Waits(next))
  BY UseFacts DEF SInv
<1>2. pending' = <<>>
  BY <1>1 DEF Rest
<1> QED BY <1>2 DEF Homes

LEMMA StepUndisturbed ==
  ASSUME SInv, TInv, HomesKnown, HomesKnown', [RunNext]_<<vars, run>>
  PROVE  Undisturbed
<1> SUFFICES ASSUME RspTracksFrame, NoneErased', NEW h \in Homes, h \in Homes', Holds(cpu, h), Alone(h)'
             PROVE  Get(cpu', h) = Get(cpu, h)
  BY DEF Undisturbed, Holds
<1> DEFINE d == SlotOf(h)
<1>0. /\ IsCpu(cpu) /\ argsz \in Nat /\ cpu.rsp \in Int
      /\ cpu.rsp = frame.end \div Word + argsz
  BY DEF TInv, IsCpu, RspTracksFrame
<1>1. /\ h.tmp \in Nat /\ h.tmp < next /\ h.loc \in Nat /\ h.onstack \in {0, 1}
      /\ h.onstack = 0 => h.loc \in Registers /\ IsRegUsed(table, h.loc)'
      /\ h.onstack = 1 => h.loc <= frame.end
  BY DEF HomesKnown
<1>2. h.onstack = 1 => d <= frame.end \div Word /\ d <= cpu.rsp /\ d \in Nat
  <2>1. frame.end \in Nat
    BY DEF SInv
  <2> QED BY <1>0, <1>1, <2>1, DivMono DEF SlotOf
<1> HIDE DEF d
\* A register and a word that are as they were.
<1>3. ASSUME NEW q, h.onstack = 0 => q.regs[h.loc] = cpu.regs[h.loc],
             h.onstack = 1 /\ d \in Stack => q.mem[d] = cpu.mem[d]
      PROVE  Get(q, h) = Get(cpu, h)
  BY <1>1, <1>3 DEF Get, WordAt, SlotOf, d
<1>4. CASE Valued
  <2> DEFINE res == Result
             c == SubRsp(cpu, res)
             Kept == KeepsWords(cpu', c, res)
             KeptRegs == \A r \in Registers : IsRegUsed(table', r) => KeepsReg(cpu', c, res, r)
  <2>1. /\ Leaf(Word) \/ BinaryOp \/ Compare
        /\ Fits
        /\ c.mem = cpu.mem /\ c.regs = cpu.regs
        /\ c.rsp = cpu.rsp + (IF res.onstack = 1 THEN 1 ELSE 0)
        /\ Placed(res, c) /\ Room(c, TableRegs) => Kept /\ KeptRegs
    BY <1>0, <1>4, ValuedFacts
  <2>2. /\ Placed(res, c) /\ Room(c, TableRegs)
        /\ c.rsp \in Int /\ cpu.rsp <= c.rsp
        /\ res.onstack = 1 => SlotOf(res) = frame.end \div Word + 1
        /\ frame.end \div Word \in Nat
    <3> HIDE DEF c
    <3> QED BY <1>0, <2>1, FitsFacts
  <2>3. res \in Homes' /\ res.tmp = next /\ res.onstack \in {0, 1}
    BY <2>1, ResultFacts
  <2> HIDE DEF c, res
  <2>4. res # h
    BY <1>1, <2>3
  <2>5. res.loc # h.loc \/ res.onstack # h.onstack
    BY <2>3, <2>4 DEF Alone
  <2>6. ASSUME h.onstack = 0 PROVE cpu'.regs[h.loc] = cpu.regs[h.loc]
    <3>1. h.loc \in Registers /\ IsRegUsed(table', h.loc)
      BY <1>1, <2>6
    <3>2. KeepsReg(cpu', c, res, h.loc)
      BY <2>1, <2>2, <3>1
    <3> QED BY <2>1, <2>3, <2>5, <2>6, <3>2 DEF KeepsReg
  <2>7. ASSUME h.onstack = 1, d \in Stack PROVE cpu'.mem[d] = cpu.mem[d]
    <3>1. d <= c.rsp /\ (res.onstack = 1 => d # SlotOf(res))
      BY <1>0, <1>2, <2>2, <2>7
    <3> QED BY <2>1, <2>2, <2>7, <3>1 DEF KeepsWords
  <2> DEFINE q == cpu'
  <2> HIDE DEF q
  <2>8. Get(q, h) = Get(cpu, h)
    BY <1>3, <2>6, <2>7 DEF q
  <2> QED BY <2>8 DEF q
<1>5. CASE PushArg \/ PushParam
  <2> DEFINE v == Get(cpu, Latest(1))
             q == PushWord(cpu, v)
  <2>1. cpu' = q
    BY <1>5 DEF PushArg, PushParam
  <2> HIDE DEF v
  <2>2. /\ q.regs = cpu.regs
        /\ \A e \in Stack : q.mem[e] = IF e = cpu.rsp + 1 THEN v ELSE cpu.mem[e]
    BY <1>0, PushWordFacts
  <2> HIDE DEF q
  <2>3. h.onstack = 1 => d # cpu.rsp + 1
    BY <1>0, <1>2
  <2>4. Get(q, h) = Get(cpu, h)
    BY <1>3, <2>2, <2>3
  <2> QED BY <2>1, <2>4
<1>6. CASE Discard \/ \E i \in 1 .. Len(mine) : Assign(i)
  <2>1. Len(pending) = 1 /\ Use
    BY <1>6 DEF Discard, Assign
  <2>2. Homes' = {}
    BY <2>1, NoneWait
  <2> QED BY <2>2
<1>7. CASE \E names \in Params, params \in ParamCounts : DefFunc(names, params)
  <2>1. pending = <<>>
    BY <1>7 DEF DefFunc, NextFunction
  <2> QED BY <2>1 DEF Homes
<1>8. CASE UNCHANGED <<vars, run>>
  BY <1>8 DEF run
<1> QED BY <1>4, <1>5, <1>6, <1>7, <1>8 DEF RunNext, Valued

(* "if the dest operand is one of them, we do not need to store them"      *)
(* (amd64.c:201, 218, 236), "save used caller-saved regs" (amd64.c:356):   *)
(* as long as no resize of the table has cleared an entry, no instruction  *)
(* of a node, be it a division that uses rax and rdx or a call that uses   *)
(* them all, changes a value that waits in a register of its own or in a   *)
(* word of the stack.                                                      *)
THEOREM OthersUndisturbedAlways ==
  ASSUME RegNum <= TableRegs, \A s \in Sizes : s > RegNum
  PROVE  RunSpec => OthersUndisturbed
<1> DEFINE AInv == KInv /\ RInv /\ TInv
<1>1. RunInit => AInv
  BY InitKInv, InitRInv, InitTInv DEF RunInit
<1>2. AInv /\ [RunNext]_<<vars, run>> => AInv'
  <2>1. RInv /\ [Next]_vars => RInv'
    BY NextRInv
  <2>2. KInv => SInv
    BY DEF KInv
  <2> QED BY <2>1, <2>2, RunsNodes, NextKInv, NextTInv
<1>3. AInv => SInv /\ TInv /\ HomesKnown
  BY HomesFacts DEF KInv
<1>3a. AInv' => HomesKnown'
  <2> HIDE DEF AInv
  <2> QED BY <1>3, PTL
<1>4. AInv /\ AInv' /\ [RunNext]_<<vars, run>> => [Undisturbed]_<<vars, run>>
  <2> SUFFICES ASSUME AInv, AInv', [RunNext]_<<vars, run>> PROVE Undisturbed
    OBVIOUS
  <2>1. SInv /\ TInv /\ HomesKnown /\ HomesKnown'
    BY <1>3, <1>3a
  <2> QED BY <2>1, StepUndisturbed
<1> HIDE DEF AInv
<1> QED BY <1>1, <1>2, <1>4, PTL DEF RunSpec, OthersUndisturbed

-----------------------------------------------------------------------------
(* Part seven: ValuesSurvive and LocalsIntact.                             *)

\* A home in the register file or on the model's stack, and homes that share
\* neither a register nor a word.
InReach(h) == IF h.onstack = 1 THEN SlotOf(h) \in Stack ELSE h.loc \in Registers
Apart(h, g) ==
  h.onstack = g.onstack => IF h.onstack = 1 THEN SlotOf(h) # SlotOf(g) ELSE h.loc # g.loc

LEMMA PutGets ==
  ASSUME NEW c, IsCpu(c), NEW h, InReach(h), NEW v
  PROVE  /\ Get(Put(c, h, v), h) = v
         /\ \A g : g.onstack \in {0, 1} /\ h.onstack \in {0, 1} /\ InReach(g) /\ Apart(h, g)
                     => Get(Put(c, h, v), g) = Get(c, g)
<1> DEFINE p == Put(c, h, v)
<1>1. /\ \A r \in Registers : p.regs[r] = IF h.onstack # 1 /\ h.loc = r THEN v ELSE c.regs[r]
      /\ \A d \in Stack :
           p.mem[d] = IF h.onstack = 1 /\ h.loc \div Word = d THEN v ELSE c.mem[d]
  BY PutFacts
<1> HIDE DEF p
<1>2. Get(p, h) = v
  BY <1>1 DEF Get, WordAt, InReach, SlotOf
<1>3. ASSUME NEW g, g.onstack \in {0, 1}, h.onstack \in {0, 1}, InReach(g), Apart(h, g)
      PROVE  Get(p, g) = Get(c, g)
  BY <1>1, <1>3 DEF Get, WordAt, InReach, Apart, SlotOf
<1> QED BY <1>2, <1>3 DEF p

(* The values that wait behind a node waited before it, but for its own.   *)
LEMMA ResultOnly ==
  ASSUME SInv, Leaf(Word) \/ BinaryOp \/ Compare
  PROVE  /\ mine' = mine
         /\ \A h \in Homes' : h = Result \/ h \in Homes
<1>1. PICK k \in {0, 2}, h \in Waits(next + 1) :
        Waiting(k) /\ pending' = Append(Rest(k), h) /\ mine' = mine
  <2>1. Word \in Sizes
    BY SizesAssumption
  <2> QED BY <2>1, NodeFacts
<1>2. pending \in Seq(Waits(next)) /\ k \in Nat
  BY DEF SInv
<1> DEFINE rest == Rest(k)
<1>3. /\ rest \in Seq(Waits(next)) /\ Len(rest) \in Nat /\ Len(rest) = Len(pending) - k
      /\ \A i \in 1 .. Len(rest) : rest[i] = pending[i]
  BY <1>1, <1>2, RestHomes
<1>4. \A i \in 1 .. Len(rest) : i \in 1 .. Len(pending)
  BY <1>2, <1>3
<1> HIDE DEF rest
<1>5. pending' = Append(rest, h)
  BY <1>1 DEF rest
<1>6. /\ Len(pending') = Len(rest) + 1 /\ pending'[Len(rest) + 1] = h
      /\ \A i \in 1 .. Len(rest) : pending'[i] = rest[i]
  BY <1>3, <1>5
<1>7. \A i \in 1 .. Len(pending') : i \in 1 .. Len(rest) \/ i = Len(pending')
  BY <1>3, <1>6
<1>8. \A i \in 1 .. Len(pending') : pending'[i] = Result \/ pending'[i] \in Homes
  BY <1>3, <1>4, <1>6, <1>7 DEF Homes, Result
<1> QED BY <1>1, <1>8 DEF Homes

(* The scan moves past the register of the operand that was computed last: *)
(* a result is given another one, or a new word.                           *)
LEMMA BinaryApart ==
  ASSUME SInv, MInv, HomesKnown, BinaryOp
  PROVE  Apart(Result, Latest(1))
<1> DEFINE n == Len(pending)
           last == table.items[Len(table.items)]
<1>1. /\ n \in Nat /\ n >= 2 /\ n \in 1 .. n /\ Latest(1) = pending[n]
      /\ pending[n] \in AnyHome /\ pending[n] \in Homes
  <2>1. n \in Nat /\ n >= 2 /\ n + 1 - 1 = n
    BY DEF BinaryOp, Waiting, MInv
  <2> QED BY <2>1 DEF Latest, Homes, MInv
<1>2. Len(table.items) = n /\ last = EntryFor(pending[n])
  BY <1>1 DEF MInv, Mirrors
<1>3. Loc(last) = pending[n].loc
  BY <1>1, <1>2, EntryForFacts
<1>4. ScanStop(table.items) # Loc(last)
  <2>1. table.items \in Seq(AnyEntry) /\ Len(table.items) > 0
    BY <1>1, <1>2 DEF MInv, Usable
  <2> QED BY <2>1, ScanNotLast
<1>5. Result = Home(table, frame, next, Word)
  <2> DEFINE home == Home(table, frame, next, Word)
  <2>1. pending' = Append(Rest(2), home)
    BY DEF BinaryOp
  <2>2. Rest(2) \in Seq(AnyHome)
    BY <1>1, RestHomes DEF MInv, Waiting
  <2> HIDE DEF home
  <2> QED BY <2>1, <2>2 DEF Result, home
<1>6. Result.onstack = 0 => Result.loc = ScanStop(table.items)
  BY <1>5 DEF Home, GetsReg, AllocReg
<1>7. /\ Result.onstack \in {0, 1}
      /\ Result.onstack = 1 => Result.loc = frame.end + Word
  BY ResultFacts
<1>8. frame.end \in Nat /\ (frame.end + Word) \div Word = frame.end \div Word + 1
  BY DivStep DEF SInv
<1>9. pending[n].onstack = 1 =>
        pending[n].loc \div Word <= frame.end \div Word /\ pending[n].loc \div Word \in Nat
      /\ frame.end \div Word \in Nat
  BY <1>1, <1>8, DivMono DEF HomesKnown
<1> QED BY <1>1, <1>3, <1>4, <1>6, <1>7, <1>8, <1>9 DEF Apart, SlotOf

\* The inductive invariant: what waits is where it was put, and so are the
\* locals, whose words lie above rsp.
LocalsInOrder ==
  Len(mine) <= Depth /\ \A i \in 1 .. Len(mine) : mine[i].loc = i * Word
VInv == ValuesSurvive /\ LocalsIntact /\ LocalsInOrder

(* The words of the locals are words of the frame.                         *)
LEMMA LocalsAbove ==
  ASSUME SInv, IsCpu(cpu), argsz \in Nat, RspTracksFrame, LocalsInOrder
  PROVE  /\ Len(mine) \in Nat /\ Len(mine) <= frame.end \div Word
         /\ frame.end \div Word \in Nat /\ frame.end \div Word <= cpu.rsp
         /\ \A i \in 1 .. Len(mine) : i \in Stack
<1>1. Len(mine) \in Nat /\ Top \in Nat /\ frame.end \in Nat /\ Top <= frame.end
  BY SizesAssumption DEF SInv, Top
<1>2. Len(mine) <= frame.end \div Word /\ frame.end \div Word \in Nat
  <2>1. Top \div Word = Len(mine)
    BY <1>1, DivCount DEF Top
  <2>2. Top \div Word <= frame.end \div Word /\ frame.end \div Word \in Nat
    BY <1>1, DivMono
  <2> QED BY <2>1, <2>2
<1>3. frame.end \div Word <= cpu.rsp
  BY <1>2 DEF RspTracksFrame, IsCpu
<1>4. \A i \in 1 .. Len(mine) : i \in Stack
  BY <1>1, BoundsAssumption DEF LocalsInOrder, Stack
<1> QED BY <1>1, <1>2, <1>3, <1>4

(* Where the frame's cells of the spilled values are intact, the lookup of *)
(* an operand finds its home; for an operand in memory the result is in a  *)
(* register, and its allocation leaves the frame alone.                    *)
LEMMA OperandsFound ==
  ASSUME SInv, SlotsFound, NEW n \in {1, 2}, Waiting(2)
  PROVE  /\ Latest(n) \in Homes /\ Operand(n) = Latest(n)
         /\ Arithmetic => OperandBehind(n) = Latest(n)
<1> DEFINE h == Latest(n)
           behind == AllocTmp(table, frame, next, Word).frame
<1>1. h \in Homes /\ h \in Waits(next)
  <2>1. Len(pending) + 1 - n \in 1 .. Len(pending)
    BY DEF Waiting, SInv
  <2> QED BY <2>1 DEF Latest, Homes, SInv
<1> HIDE DEF h, behind
<1>2. Located(frame, h) = h
  <2>1. CASE InMemory(h)
    <3>1. TmpvarOffset(frame, h.tmp) = h.loc
      BY <1>1, <2>1 DEF SlotsFound, Spilled, InMemory
    <3>2. [h EXCEPT !.loc = h.loc] = h
      BY <1>1 DEF Waits
    <3> QED BY <2>1, <3>1, <3>2 DEF Located
  <2>2. CASE ~InMemory(h)
    BY <2>2 DEF Located
  <2> QED BY <2>1, <2>2
<1>3. ASSUME Arithmetic PROVE Located(behind, h) = h
  <2>1. Result = Home(table, frame, next, Word)
    <3> DEFINE home == Home(table, frame, next, Word)
    <3>1. pending' = Append(Rest(2), home)
      BY <1>3 DEF Arithmetic, BinaryOp
    <3>2. Rest(2) \in Seq(Waits(next))
      BY RestHomes DEF SInv, Waiting
    <3> HIDE DEF home
    <3> QED BY <3>1, <3>2 DEF Result, home
  <2>2. CASE GetsReg(table, next, Word)
    <3>1. behind = frame
      BY <2>2 DEF AllocTmp, behind
    <3> QED BY <1>2, <3>1
  <2>3. CASE ~GetsReg(table, next, Word)
    <3>1. InMemory(Result)
      BY <2>1, <2>3 DEF InMemory, Home
    <3>2. ~InMemory(h)
      BY <1>3, <3>1 DEF Arithmetic, NotInMemory, h
    <3> QED BY <3>2 DEF Located
  <2> QED BY <2>2, <2>3
<1> QED BY <1>1, <1>2, <1>3 DEF Operand, OperandBehind, h, behind

(* What a node computes arrives at its home, if its operands are there and *)
(* a local is found by its name.                                           *)
LEMMA ResultHolds ==
  ASSUME SInv, MInv, TInv, HomesKnown, HomesKnown', RspTracksFrame, Valued,
         ValuesSurvive, LocalsIntact, LocalsInOrder, SlotsFound, NamesFound,
         "multiply" \notin Ops
  PROVE  Holds(cpu', Result)
<1> DEFINE res == Result
           c == SubRsp(cpu, res)
           Done == Get(cpu', res) = ValueOf(res.tmp)
<1>0. IsCpu(cpu) /\ argsz \in Nat /\ cpu.rsp \in Int
  BY DEF TInv, IsCpu
<1>1. /\ Leaf(Word) \/ BinaryOp \/ Compare
      /\ Fits /\ IsCpu(c) /\ c.mem = cpu.mem /\ c.regs = cpu.regs
      /\ c.rsp = cpu.rsp + (IF res.onstack = 1 THEN 1 ELSE 0)
  BY <1>0, ValuedFacts
<1>2. /\ Placed(res, c) /\ Room(c, TableRegs)
      /\ frame.end \in Nat /\ frame.end \div Word \in Nat /\ frame.end \div Word <= cpu.rsp
      /\ res.onstack = 1 => SlotOf(res) = frame.end \div Word + 1
  <2> HIDE DEF c
  <2> QED BY <1>0, <1>1, FitsFacts
<1>3. res \in Homes' /\ res.tmp = next /\ res.onstack \in {0, 1}
  BY <1>1, ResultFacts
<1>4. InReach(res)
  <2>1. res.onstack = 0 => res.loc \in Registers
    BY <1>3 DEF HomesKnown
  <2>2. cpu.rsp + TableRegs + argsz + 1 <= Depth
    BY <1>1 DEF Fits
  <2>3. frame.end \div Word + 1 \in Stack
    BY <1>0, <1>2, <2>2, TableRegsAssumption, BoundsAssumption DEF Stack
  <2> QED BY <1>2, <1>3, <2>1, <2>3 DEF InReach
<1>5. \A g : Get(c, g) = Get(cpu, g)
  BY <1>1 DEF Get, WordAt
<1> HIDE DEF c, res, Done
<1>6. ASSUME cpu' = Put(c, res, ValueOf(next)) PROVE Done
  <2> DEFINE v == ValueOf(next)
  <2>1. ValueOf(res.tmp) = v
    BY <1>3
  <2> HIDE DEF v
  <2>2. Get(Put(c, res, v), res) = v
    BY <1>1, <1>4, PutGets
  <2> QED BY <1>6, <2>1, <2>2 DEF Done, v
\* A result that has to be in a register: no room is made for it.
<1>6a. ASSUME NotInMemory({Result}) PROVE c = cpu
  BY <1>6a DEF NotInMemory, InMemory, SubRsp, c, res
<1>7. ASSUME Constant \/ LoadParam PROVE Done
  BY <1>6, <1>6a, <1>7 DEF Constant, LoadParam, res
<1>8. ASSUME NEW i \in 1 .. Len(mine), Identifier(i) PROVE Done
  <2>1. OffsetOf(i) \div Word = i
    BY <1>8, DivCount DEF Identifier, NamesFound, LocalsInOrder
  <2>2. WordAt(cpu, i) = LocalValue(i)
    <3>1. i \in Stack
      BY <1>0, LocalsAbove DEF SInv
    <3> QED BY <3>1 DEF WordAt, LocalsIntact
  <2>3. NotInMemory({Result}) /\ cpu' = Put(cpu, res, ValueOf(next))
    BY <1>8, <2>1, <2>2 DEF Identifier, res
  <2> QED BY <1>6, <1>6a, <2>3
\* The operands of a node are where they were put.
<1>9. ASSUME BinaryOp \/ Compare
      PROVE  /\ Latest(1) \in Homes /\ Latest(2) \in Homes
             /\ Holds(cpu, Latest(1)) /\ Holds(cpu, Latest(2))
  <2>1. Waiting(2)
    BY <1>9 DEF BinaryOp, Compare
  <2> QED BY <2>1, OperandsFound DEF ValuesSurvive
<1>10. ASSUME Comparison PROVE Done
  <2>1. Waiting(2) /\ NotInMemory({Result})
    BY <1>10 DEF Comparison, Compare
  <2>2. Holds(cpu, Operand(1)) /\ Holds(cpu, Operand(2))
    BY <1>9, <1>10, <2>1, OperandsFound DEF Comparison
  <2> QED BY <1>6, <1>6a, <1>10, <2>1, <2>2 DEF Comparison, res
<1>11. ASSUME Arithmetic PROVE Done
  <2> DEFINE lhs == Latest(2)
             rhs == Latest(1)
             u == Get(c, lhs)
             moved == Put(c, res, u)
  <2>1. /\ lhs \in Homes /\ rhs \in Homes /\ Holds(c, lhs) /\ Holds(c, rhs)
        /\ Apart(res, rhs)
    <3>1. BinaryOp
      BY <1>11 DEF Arithmetic
    <3> QED BY <1>5, <1>9, <3>1, BinaryApart DEF Holds, res
  <2>2. cpu' = Twoop(c, lhs, rhs, res)
    <3>1. Waiting(2)
      BY <1>11 DEF Arithmetic, BinaryOp
    <3>2. OperandBehind(1) = Latest(1) /\ OperandBehind(2) = Latest(2)
      BY <1>11, <3>1, OperandsFound
    <3> QED BY <1>11, <3>2 DEF Arithmetic, c, res
  <2> HIDE DEF lhs, rhs, u
  <2>3. rhs.onstack \in {0, 1} /\ (rhs.onstack = 0 => rhs.loc \in Registers)
        /\ (rhs.onstack = 1 => rhs.loc \in Nat /\ rhs.loc <= frame.end)
    BY <2>1 DEF HomesKnown
  <2>4. InReach(rhs)
    <3>1. ASSUME rhs.onstack = 1 PROVE SlotOf(rhs) \in Stack
      <4>1. SlotOf(rhs) \in Nat /\ SlotOf(rhs) <= frame.end \div Word
        BY <1>2, <2>3, <3>1, DivMono DEF SlotOf
      <4>2. cpu.rsp + TableRegs + argsz + 1 <= Depth
        BY <1>1 DEF Fits
      <4> QED BY <1>0, <1>2, <4>1, <4>2, TableRegsAssumption, BoundsAssumption DEF Stack
    <3> QED BY <2>3, <3>1 DEF InReach
  <2>5. Get(moved, rhs) = Get(c, rhs) /\ IsCpu(moved)
    BY <1>1, <1>3, <1>4, <2>1, <2>3, <2>4, PutGets, PutFacts
  <2>6. Holds(moved, rhs)
    BY <2>1, <2>5 DEF Holds
  <2> DEFINE v == ValueOf(res.tmp)
  <2>7. cpu' = Put(moved, res, v)
    BY <2>1, <2>2, <2>6 DEF Twoop, u
  <2> HIDE DEF moved, v
  <2>8. Get(Put(moved, res, v), res) = v
    BY <1>4, <2>5, PutGets
  <2> QED BY <2>7, <2>8 DEF Done, v
<1>12. ASSUME NEW n \in Arities, Call(n) PROVE Done
  <2> DEFINE tab == table'
  <2>1. cpu' = AfterCall(c, tab, res)
    BY <1>12 DEF Call, c, res
  <2> HIDE DEF tab
  <2>2. Get(AfterCall(c, tab, res), res) = ValueOf(res.tmp)
    BY <1>0, <1>1, <1>2, <1>4, AfterCallFacts DEF InReach
  <2> QED BY <2>1, <2>2 DEF Done
<1>13. ~\E answer \in {Rax, Rdx} : Multiply(answer)
  BY DEF Multiply
<1>14. Done
  <2>1. (\E n \in Arities : Call(n)) => Done
    BY <1>12
  <2>2. (\E i \in 1 .. Len(mine) : Identifier(i)) => Done
    BY <1>8
  <2> QED BY <1>7, <1>10, <1>11, <1>13, <2>1, <2>2 DEF Valued
<1> QED BY <1>14 DEF Done, Holds, res

(* As long as no register is shared, nothing that waits shares its place:  *)
(* the bytes of spilled values lie one behind the other.                   *)
LEMMA AllAlone ==
  ASSUME \A s \in Sizes : s > RegNum, SInv, MInv, NoSharedRegister
  PROVE  \A h \in Homes : Alone(h)
<1> SUFFICES ASSUME NEW i \in 1 .. Len(pending), NEW j \in 1 .. Len(pending),
                    pending[i] # pending[j], pending[i].loc = pending[j].loc,
                    pending[i].onstack = pending[j].onstack
             PROVE  FALSE
  BY DEF Alone, Homes
<1>1. pending[i] \in Waits(next) /\ pending[j] \in Waits(next)
      /\ Len(pending) \in Nat /\ i # j
  BY DEF SInv
<1>2. CASE pending[i].onstack = 0
  <2>1. pending[i] \in InRegister /\ pending[j] \in InRegister
    BY <1>2 DEF InRegister, Homes
  <2> QED BY <2>1, MirrorsEntries DEF NoSharedRegister
<1>3. CASE pending[i].onstack = 1
  <2>1. pending[i].size > 0 /\ pending[j].size > 0
    <3>1. pending[i].size \in Sizes /\ pending[j].size \in Sizes
      BY <1>1 DEF Waits
    <3>2. \A s \in Sizes : s > 0
      BY RegNumAssumption, SizesAssumption
    <3> QED BY <3>1, <3>2
  <2>2. /\ pending[i].loc \in Nat /\ pending[j].loc \in Nat
        /\ pending[i].size \in Nat /\ pending[j].size \in Nat
    BY <1>1, SizesAssumption DEF Waits
  <2>3. /\ i < j => pending[i].loc + pending[j].size <= pending[j].loc
        /\ j < i => pending[j].loc + pending[i].size <= pending[i].loc
    BY <1>3 DEF SInv, Stacked
  <2> QED BY <1>1, <2>1, <2>2, <2>3
<1> QED BY <1>1, <1>2, <1>3 DEF Waits

LEMMA NextVInv ==
  ASSUME "multiply" \notin Ops
  PROVE  /\ SInv /\ MInv /\ TInv /\ FInv /\ HomesKnown /\ HomesKnown'
         /\ SlotsFound /\ NamesFound /\ NoneErased'
         /\ (\A h \in Homes : Alone(h))' /\ VInv /\ [RunNext]_<<vars, run>>
         => VInv'
<1> SUFFICES ASSUME SInv, MInv, TInv, FInv, HomesKnown, HomesKnown',
                    SlotsFound, NamesFound, NoneErased',
                    (\A h \in Homes : Alone(h))', VInv, [RunNext]_<<vars, run>>
             PROVE  VInv'
  OBVIOUS
<1>0. /\ IsCpu(cpu) /\ argsz \in Nat /\ cpu.rsp \in Int /\ RspTracksFrame /\ todo = 0
      /\ ValuesSurvive /\ LocalsIntact /\ LocalsInOrder
  BY DEF TInv, FInv, VInv, IsCpu
<1>1. /\ Len(mine) \in Nat /\ Len(mine) <= frame.end \div Word
      /\ frame.end \div Word \in Nat /\ frame.end \div Word <= cpu.rsp
      /\ \A i \in 1 .. Len(mine) : i \in Stack
  BY <1>0, LocalsAbove
\* A value that waited before the step and after it.
<1>2. \A h \in Homes' : h \in Homes => Holds(cpu', h)
  <2>1. Undisturbed
    BY StepUndisturbed
  <2> QED BY <1>0, <2>1 DEF Undisturbed, ValuesSurvive
<1>3. CASE Valued
  <2> DEFINE res == Result
             c == SubRsp(cpu, res)
  <2>1. /\ Leaf(Word) \/ BinaryOp \/ Compare
        /\ Fits /\ c.mem = cpu.mem
        /\ c.rsp = cpu.rsp + (IF res.onstack = 1 THEN 1 ELSE 0)
        /\ Placed(res, c) /\ Room(c, TableRegs) => KeepsWords(cpu', c, res)
    BY <1>0, <1>3, ValuedFacts
  <2>2. /\ Placed(res, c) /\ Room(c, TableRegs) /\ c.rsp \in Int /\ cpu.rsp <= c.rsp
        /\ res.onstack = 1 => SlotOf(res) = frame.end \div Word + 1
    <3> HIDE DEF c
    <3> QED BY <1>0, <2>1, FitsFacts
  <2>3. mine' = mine /\ \A h \in Homes' : h = res \/ h \in Homes
    BY <2>1, ResultOnly
  <2>4. Holds(cpu', res)
    BY <1>0, <1>3, ResultHolds
  <2>5. ValuesSurvive'
    BY <1>2, <2>3, <2>4 DEF ValuesSurvive
  <2> HIDE DEF c, res
  <2>6. ASSUME NEW i \in 1 .. Len(mine) PROVE cpu'.mem[i] = LocalValue(i)
    <3>1. i \in Stack /\ i <= c.rsp /\ (res.onstack = 1 => i # SlotOf(res))
      BY <1>0, <1>1, <2>2
    <3>2. cpu'.mem[i] = c.mem[i]
      BY <2>1, <2>2, <3>1 DEF KeepsWords
    <3> QED BY <1>0, <2>1, <3>2 DEF LocalsIntact
  <2> QED BY <1>0, <2>3, <2>5, <2>6 DEF VInv, LocalsInOrder, LocalsIntact
<1>4. CASE PushArg
  <2> DEFINE v == Get(cpu, Latest(1))
  <2>1. cpu' = PushWord(cpu, v) /\ Use
    BY <1>4 DEF PushArg
  <2> HIDE DEF v
  <2>2. /\ \A d \in Stack : cpu'.mem[d] = IF d = cpu.rsp + 1 THEN v ELSE cpu.mem[d]
    BY <1>0, <2>1, PushWordFacts
  <2>3. mine' = mine /\ \A h \in Homes' : h \in Homes
    BY <2>1, UseLeaves
  <2>4. \A i \in 1 .. Len(mine) : i # cpu.rsp + 1
    BY <1>0, <1>1
  <2> QED BY <1>0, <1>1, <1>2, <2>2, <2>3, <2>4 DEF VInv, LocalsInOrder, LocalsIntact, ValuesSurvive
<1>5. ASSUME NEW k \in 1 .. Len(mine), Assign(k) PROVE VInv'
  <2>1. Len(pending) = 1 /\ Use
    BY <1>5 DEF Assign
  <2>2. Homes' = {} /\ mine' = mine
    BY <2>1, NoneWait, UseLeaves
  <2>3. Holds(cpu, Latest(1))
    <3>1. Latest(1) \in Homes
      BY <2>1 DEF Latest, Homes
    <3> QED BY <1>0, <3>1 DEF ValuesSurvive
  <2>4. OffsetOf(k) \div Word = k
    BY <1>0, <1>5, DivCount DEF Assign, NamesFound, LocalsInOrder
  <2>4a. cpu' = [cpu EXCEPT !.mem[k] = LocalValue(k)]
    BY <1>5, <2>3, <2>4 DEF Assign
  <2>5. \A i \in 1 .. Len(mine) : cpu'.mem[i] = LocalValue(i)
    BY <1>0, <1>1, <2>4a DEF LocalsIntact, IsCpu
  <2> QED BY <1>0, <2>2, <2>5 DEF VInv, LocalsInOrder, LocalsIntact, ValuesSurvive
<1>6. CASE Discard
  <2>1. Len(pending) = 1 /\ Use /\ cpu' = cpu
    BY <1>6 DEF Discard, run
  <2>2. Homes' = {} /\ mine' = mine
    BY <2>1, NoneWait, UseLeaves
  <2> QED BY <1>0, <2>1, <2>2 DEF VInv, LocalsInOrder, LocalsIntact, ValuesSurvive
<1>7. ASSUME NEW names \in Params, NEW params \in ParamCounts, DefFunc(names, params)
      PROVE  VInv'
  <2>1. /\ cpu' = Entered(names) /\ pending = <<>> /\ pending' = pending
        /\ mine' = [i \in 1 .. Len(names) |-> [name |-> names[i], loc |-> i * Word]]
    BY <1>7 DEF DefFunc, NextFunction
  <2>2. Homes' = {} /\ Len(names) \in Nat /\ Len(names) <= Depth
    BY <2>1, ParamsAssumption, BoundsAssumption DEF Homes
  <2>3. Len(mine') = Len(names) /\ \A i \in 1 .. Len(mine') : mine'[i].loc = i * Word
    BY <2>1, <2>2
  <2>4. \A i \in 1 .. Len(names) : i \in Stack /\ Entered(names).mem[i] = LocalValue(i)
    <3>1. \A i \in 1 .. Len(names) : i \in Stack
      BY <2>2, BoundsAssumption DEF Stack
    <3> QED BY <3>1 DEF Entered
  <2> QED BY <2>1, <2>2, <2>3, <2>4 DEF VInv, LocalsInOrder, LocalsIntact, ValuesSurvive
<1>8. CASE UNCHANGED <<vars, run>>
  BY <1>8 DEF VInv, LocalsInOrder, LocalsIntact, ValuesSurvive, Homes, vars, run
<1>9. ~PushParam
  BY <1>0 DEF PushParam
<1> QED BY <1>3, <1>4, <1>5, <1>6, <1>7, <1>8, <1>9 DEF RunNext, Valued

LEMMA InitVInv == RunInit => VInv
<1> SUFFICES ASSUME RunInit PROVE VInv
  OBVIOUS
<1>1. mine = <<>> /\ pending = <<>> /\ Len(mine) = 0
  BY DEF RunInit, Init
<1>2. Homes = {}
  BY <1>1 DEF Homes
<1>3. LocalsInOrder
  BY <1>1, BoundsAssumption DEF LocalsInOrder
<1>4. \A i \in 1 .. Len(mine) : cpu.mem[i] = LocalValue(i)
  BY <1>1
<1> QED BY <1>2, <1>3, <1>4 DEF VInv, ValuesSurvive, LocalsIntact

\* What the theorems rest on that is not VInv.
AInv == KInv /\ RInv /\ TInv /\ FInv

LEMMA InitAInv == ParamCounts \subseteq {0} /\ RunInit => AInv
BY InitKInv, InitRInv, InitTInv, InitFInv DEF RunInit, AInv

LEMMA NextAInv ==
  ASSUME \A s \in Sizes : s > RegNum, ParamCounts \subseteq {0}
  PROVE  AInv /\ [RunNext]_<<vars, run>> => AInv'
<1>1. RInv /\ [Next]_vars => RInv'
  BY \A s \in Sizes : s > RegNum, NextRInv
<1>2. SInv /\ TInv /\ FInv /\ [RunNext]_<<vars, run>> => FInv'
  BY ParamCounts \subseteq {0}, NextFInv
<1>3. KInv => SInv
  BY DEF KInv
<1> QED BY <1>1, <1>2, <1>3, RunsNodes, NextKInv, NextTInv DEF AInv

\* The ways in which the translator, not its instructions, loses a value: a
\* register handed out twice, an entry of the table or a cell of the frame
\* that a resize or clear_stack has spoiled.
NothingLost == NoSharedRegister /\ NoneErased /\ SlotsFound /\ NamesFound

LEMMA VInvGoesOn ==
  ASSUME "multiply" \notin Ops, \A s \in Sizes : s > RegNum
  PROVE  AInv /\ AInv' /\ HomesKnown /\ HomesKnown' /\ NothingLost /\ NothingLost' /\ VInv
         /\ [RunNext]_<<vars, run>> => VInv'
<1>1. SInv /\ MInv /\ NoSharedRegister => \A h \in Homes : Alone(h)
  BY \A s \in Sizes : s > RegNum, AllAlone
<1>2. (SInv /\ MInv /\ NoSharedRegister => \A h \in Homes : Alone(h))'
  BY <1>1, PTL
<1>3. /\ SInv /\ MInv /\ TInv /\ FInv /\ HomesKnown /\ HomesKnown'
      /\ SlotsFound /\ NamesFound /\ NoneErased'
      /\ (\A h \in Homes : Alone(h))' /\ VInv /\ [RunNext]_<<vars, run>>
      => VInv'
  BY "multiply" \notin Ops, NextVInv
<1>4. AInv /\ NothingLost => SInv /\ MInv /\ TInv /\ FInv
  BY DEF AInv, KInv, NothingLost
<1>5. (AInv /\ NothingLost => SInv /\ MInv /\ TInv /\ FInv)'
  BY <1>4, PTL
<1> QED BY <1>2, <1>3, <1>4, <1>5 DEF NothingLost

(* "save used caller-saved regs" (amd64.c:356): in a program that does not *)
(* multiply or divide, a waiting value or a local is lost in no other way  *)
(* than by what the translator's lists do to it: a register handed out     *)
(* twice (asmgen.c:18), an entry cleared by a resize (utils.c:84-134), a   *)
(* spilled value or a local not found by its number or its name            *)
(* (asmgen.c:160-192).  No instruction that is emitted loses one.          *)
THEOREM OnlyListsLose ==
  ASSUME RegNum <= TableRegs, \A s \in Sizes : s > RegNum,
         "multiply" \notin Ops, ParamCounts \subseteq {0}
  PROVE  RunSpec /\ []NothingLost => [](ValuesSurvive /\ LocalsIntact)
<1>1. RunInit => AInv /\ VInv
  BY ParamCounts \subseteq {0}, InitAInv, InitVInv
<1>2. AInv /\ [RunNext]_<<vars, run>> => AInv'
  BY \A s \in Sizes : s > RegNum, ParamCounts \subseteq {0}, NextAInv
<1>3. AInv => HomesKnown
  BY RegNum <= TableRegs, \A s \in Sizes : s > RegNum, HomesFacts DEF AInv
<1>4. AInv /\ AInv' /\ HomesKnown /\ HomesKnown' /\ NothingLost /\ NothingLost' /\ VInv
      /\ [RunNext]_<<vars, run>> => VInv'
  BY "multiply" \notin Ops, \A s \in Sizes : s > RegNum, VInvGoesOn
<1>5. VInv => ValuesSurvive /\ LocalsIntact
  BY DEF VInv
<1> QED BY <1>1, <1>2, <1>3, <1>4, <1>5, PTL DEF RunSpec

\* While no more than two values wait, every home is a register.
OnlyRegs == \A i \in 1 .. Len(pending) : pending[i].onstack = 0

(* The scan passes one register for each entry at most.                    *)
LEMMA RegForFew ==
  ASSUME RegNum >= 3, NEW tab \in Usable(AnyEntry), Len(tab.items) <= 2,
         NEW sf, NEW tmp \in Nat, ~HasEntry(tab, tmp)
  PROVE  Home(tab, sf, tmp, Word).onstack = 0
<1> DEFINE stop == ScanStop(tab.items)
           n == Len(tab.items)
<1>1. n \in Nat /\ n <= 2 /\ stop \in 0 .. n
  BY ScanStops DEF Usable
<1>2. stop # RegNum /\ stop # NoReg
  <2>1. RegNum \in Nat /\ RegNum >= 3
    BY RegNumAssumption
  <2> HIDE DEF stop, n
  <2> QED BY <1>1, <2>1 DEF NoReg
<1>3. GetsReg(tab, tmp, Word)
  <2>1. Word <= Word
    BY SizesAssumption
  <2> QED BY <1>2, <2>1 DEF GetsReg, AllocReg
<1> QED BY <1>3 DEF Home

LEMMA NextOnlyRegs ==
  ASSUME RegNum >= 3
  PROVE  TwoInv /\ OnlyRegs /\ [RunNext]_<<vars, run>> => OnlyRegs'
<1> SUFFICES ASSUME TwoInv, OnlyRegs, [RunNext]_<<vars, run>> PROVE OnlyRegs'
  OBVIOUS
<1>0. /\ SInv /\ next \in Nat /\ next > 0 /\ Word \in Sizes /\ frame.end \in Nat
      /\ table \in Usable(AnyEntry) /\ ~HasEntry(table, next)
      /\ Len(table.items) <= 2 /\ pending \in Seq(AnyHome)
      /\ table.cap = 3 /\ Intact(table)
  <2>1. SInv /\ MInv /\ next > 0 /\ Word \in Sizes /\ Len(pending) <= 2
    BY SizesAssumption DEF TwoInv, KInv, CInv, NInv, FewInv
  <2>2. ~HasEntry(table, next)
    BY <2>1, NoEntryYet DEF MInv
  <2> QED BY <2>1, <2>2 DEF MInv, Mirrors, TwoInv, CInv, NoneErased
<1>1. ASSUME NEW k \in {0, 2}, Waiting(k), NEW tab \in Usable(AnyEntry),
             Len(tab.items) <= 2, ~HasEntry(tab, next), NEW sf,
             pending' = Append(Rest(k), Home(tab, sf, next, Word))
      PROVE  OnlyRegs'
  <2> DEFINE h == Home(tab, sf, next, Word)
             rest == Rest(k)
  <2>1. h.onstack = 0
    BY <1>0, <1>1, RegForFew
  <2>2. /\ rest \in Seq(AnyHome)
        /\ \A i \in 1 .. Len(rest) : i \in 1 .. Len(pending) /\ rest[i] = pending[i]
    <3>1. /\ k \in Nat /\ Len(pending) \in Nat /\ rest \in Seq(AnyHome)
          /\ Len(rest) = Len(pending) - k
          /\ \A i \in 1 .. Len(rest) : rest[i] = pending[i]
      BY <1>0, <1>1, RestHomes
    <3> HIDE DEF rest
    <3> QED BY <3>1
  <2> HIDE DEF h, rest
  <2>3. \A i \in 1 .. Len(Append(rest, h)) : Append(rest, h)[i].onstack = 0
    BY <2>1, <2>2 DEF OnlyRegs
  <2> QED BY <1>1, <2>3 DEF OnlyRegs, h, rest
<1>2. CASE Leaf(Word)
  <2> DEFINE h == Home(table, frame, next, Word)
  <2>1. pending' = Append(pending, h)
    BY <1>2 DEF Leaf
  <2>2. Waiting(0) /\ Rest(0) = pending
    BY <1>0 DEF Waiting, Rest
  <2> HIDE DEF h
  <2>3. pending' = Append(Rest(0), h)
    BY <2>1, <2>2
  <2> QED BY <1>0, <1>1, <2>2, <2>3 DEF h
<1>3. CASE BinaryOp
  BY <1>0, <1>1, <1>3 DEF BinaryOp
<1>4. CASE Compare
  <2> DEFINE at == FreeTwo(table, frame)
             t == at.table
             f == at.frame
  <2>1. Waiting(2) /\ pending' = Append(Rest(2), Home(t, f, next, Word))
    BY <1>4 DEF Compare
  <2>2. t \in Usable(AnyEntry) /\ Len(t.items) <= Len(table.items)
    BY <1>0, KeptFreeTwo
  <2>3. ~HasEntry(t, next)
    BY <1>0, FreeTwoNoEntry
  <2> HIDE DEF t, f
  <2>4. Len(t.items) <= 2
    <3>1. Len(t.items) \in Nat /\ Len(table.items) \in Nat
      BY <1>0, <2>2 DEF Usable
    <3> QED BY <1>0, <2>2, <3>1
  <2> QED BY <1>1, <2>1, <2>2, <2>3, <2>4
<1>5. CASE Valued
  <2>1. Leaf(Word) \/ BinaryOp \/ Compare
    BY <1>5 DEF Valued, Constant, LoadParam, Arithmetic, Comparison, Identifier,
                Multiply, Call
  <2> QED BY <1>2, <1>3, <1>4, <2>1
<1>6. CASE Use
  <2>1. Waiting(1) /\ pending' = Rest(1)
    BY <1>6 DEF Use
  <2>2. /\ Len(pending) \in Nat /\ Rest(1) \in Seq(AnyHome)
        /\ Len(Rest(1)) = Len(pending) - 1
        /\ \A i \in 1 .. Len(pending) - 1 : Rest(1)[i] = pending[i]
    <3>1. 1 \in Nat /\ Waiting(1) /\ Len(pending) \in Nat
      BY <1>0, <2>1
    <3> QED BY <1>0, <3>1, RestHomes
  <2> QED BY <2>1, <2>2 DEF OnlyRegs
<1>7. CASE UNCHANGED pending
  BY <1>7 DEF OnlyRegs
<1>8. Valued \/ Use \/ UNCHANGED pending
  <2>1. (\E i \in 1 .. Len(mine) : Assign(i)) \/ Discard \/ PushArg \/ PushParam => Use
    BY DEF Assign, Discard, PushArg, PushParam
  <2>2. (\E names \in Params, params \in ParamCounts : DefFunc(names, params))
          => UNCHANGED pending
    BY DEF DefFunc, NextFunction
  <2>3. UNCHANGED <<vars, run>> => UNCHANGED pending
    BY DEF vars
  <2> QED BY <2>1, <2>2, <2>3 DEF RunNext, Valued
<1> QED BY <1>5, <1>6, <1>7, <1>8

(* Where no more than two values wait at one time, and the machine has     *)
(* three registers to offer, nothing is lost but by a name.                *)
LEMMA RunsLoseNothing ==
  ASSUME MaxPending \in 0 .. 2, TableCap = 6, RegNum >= 3
  PROVE  RunSpec /\ []NamesFound => []NothingLost
<1>1. RunInit => TwoInv /\ OnlyRegs
  <2>1. RunInit => Init
    BY DEF RunInit
  <2>2. Init => OnlyRegs
    BY DEF Init, OnlyRegs
  <2> QED BY <2>1, <2>2, TableCap = 6, InitTwoInv
<1>2. TwoInv /\ [Next]_vars => TwoInv'
  BY MaxPending \in 0 .. 2, NextTwoInv
<1>3. TwoInv /\ OnlyRegs /\ [RunNext]_<<vars, run>> => OnlyRegs'
  BY RegNum >= 3, NextOnlyRegs
<1>4. TwoInv => NoSharedRegister /\ NoneErased
  BY FewAreApart DEF TwoInv, KInv, CInv
<1>5. OnlyRegs => SlotsFound
  BY DEF OnlyRegs, SlotsFound, Spilled, Homes
<1>6. NoSharedRegister /\ NoneErased /\ SlotsFound /\ NamesFound => NothingLost
  BY DEF NothingLost
<1> QED BY <1>1, <1>2, <1>3, <1>4, <1>5, <1>6, RunsNodes, PTL DEF RunSpec

(* "save used caller-saved regs" (amd64.c:356): where no more than two     *)
(* values wait at one time, what waits is where it was put, across calls   *)
(* and whatever else is computed, as long as no local is found by its name *)
(* in the place of another (clear_stack leaves cells of a function).       *)
THEOREM ValuesSurviveAlways ==
  ASSUME RegNum <= TableRegs, \A s \in Sizes : s > RegNum, RegNum >= 3,
         "multiply" \notin Ops, ParamCounts \subseteq {0},
         MaxPending \in 0 .. 2, TableCap = 6
  PROVE  RunSpec /\ []NamesFound => []ValuesSurvive
<1>1. RunSpec /\ []NamesFound => []NothingLost
  BY MaxPending \in 0 .. 2, TableCap = 6, RegNum >= 3, RunsLoseNothing
<1>2. RunSpec /\ []NothingLost => [](ValuesSurvive /\ LocalsIntact)
  BY RegNum <= TableRegs, \A s \in Sizes : s > RegNum,
     "multiply" \notin Ops, ParamCounts \subseteq {0}, OnlyListsLose
<1> QED BY <1>1, <1>2, PTL

(* The words of the locals stay above rsp (amd64.c:135-136), so that no    *)
(* push and no callee writes over one; and a local is given only values    *)
(* that were where they had been put.                                      *)
THEOREM LocalsIntactAlways ==
  ASSUME RegNum <= TableRegs, \A s \in Sizes : s > RegNum, RegNum >= 3,
         "multiply" \notin Ops, ParamCounts \subseteq {0},
         MaxPending \in 0 .. 2, TableCap = 6
  PROVE  RunSpec /\ []NamesFound => []LocalsIntact
<1>1. RunSpec /\ []NamesFound => []NothingLost
  BY MaxPending \in 0 .. 2, TableCap = 6, RegNum >= 3, RunsLoseNothing
<1>2. RunSpec /\ []NothingLost => [](ValuesSurvive /\ LocalsIntact)
  BY RegNum <= TableRegs, \A s \in Sizes : s > RegNum,
     "multiply" \notin Ops, ParamCounts \subseteq {0}, OnlyListsLose
<1> QED BY <1>1, <1>2, PTL

-----------------------------------------------------------------------------
(* Part eight: ArgsInOrder, for calls of at most one argument.             *)

(* The pushes move rsp by as many words as the loop of amd64.c counts      *)
(* ("pushed_regs_num++").                                                  *)
LEMMA PushedCount ==
  ASSUME NEW S, NEW saved \in Seq(S), NEW c, IsCpu(c), NEW f, Pushes(f, c, saved)
  PROVE  PushedRegsNum(saved) \in Nat /\ f[Len(saved)].rsp = c.rsp + PushedRegsNum(saved)
<1> DEFINE n == Len(saved)
           At(k) == {i \in 1 .. k : saved[i].saved}
           Good(k) == IsFiniteSet(At(k)) /\ f[k].rsp = c.rsp + Cardinality(At(k))
           T == {k \in Nat : Good(k)}
<1>1. n \in Nat /\ c.rsp \in Int
  BY DEF IsCpu
<1>2. 0 \in T
  <2>1. At(0) = {}
    OBVIOUS
  <2>2. f[0] = c /\ Cardinality({}) = 0 /\ IsFiniteSet({})
    BY FS_EmptySet DEF Pushes
  <2> HIDE DEF At
  <2>3. IsFiniteSet(At(0)) /\ Cardinality(At(0)) = 0
    BY <2>1, <2>2
  <2>4. Good(0)
    BY <1>1, <2>2, <2>3
  <2> HIDE DEF Good
  <2> QED BY <2>4
<1>3. ASSUME NEW k \in 0 .. n - 1, k \in T PROVE k + 1 \in T
  <2> DEFINE q == k + 1
             s == saved[q]
  <2>1. Good(k) /\ k \in Nat /\ q \in Nat
    BY <1>3
  <2>2. f[q] = PushAside(f[k], s)
    BY DEF Pushes
  <2>3. Cardinality(At(k)) \in Nat
    BY <2>1, FS_CardinalityType
  <2>4. IsCpu(f[k])
    <3>1. k \in 0 .. n
      BY <1>1
    <3> QED BY <3>1, PushesFacts
  <2>5. CASE ~s.saved
    <3>1. f[q] = f[k]
      BY <2>2, <2>5 DEF PushAside
    <3>2. At(q) = At(k)
      BY <2>1, <2>5
    <3> HIDE DEF At
    <3> QED BY <2>1, <3>1, <3>2
  <2>6. CASE s.saved
    <3>1. f[q].rsp = f[k].rsp + 1
      <4> DEFINE v == f[k].regs[s.reg]
      <4>1. f[q] = PushWord(f[k], v)
        BY <2>2, <2>6 DEF PushAside, PushReg
      <4> HIDE DEF v
      <4> QED BY <2>4, <4>1, PushWordFacts
    <3>2. At(q) = At(k) \union {q} /\ q \notin At(k)
      BY <2>1, <2>6
    <3> HIDE DEF At
    <3>3. IsFiniteSet(At(q)) /\ Cardinality(At(q)) = Cardinality(At(k)) + 1
      BY <2>1, <3>2, FS_AddElement
    <3> QED BY <1>1, <2>1, <2>3, <3>1, <3>3
  <2> QED BY <2>5, <2>6
<1> HIDE DEF T, Good
<1>4. \A k \in 0 .. n : k \in T
  BY <1>1, <1>2, <1>3, Push!PassInduction
<1>5. Good(n)
  BY <1>1, <1>4 DEF T
<1>6. At(n) = {i \in DOMAIN saved : saved[i].saved}
  OBVIOUS
<1> HIDE DEF At
<1> QED BY <1>5, <1>6, FS_CardinalityType DEF Good, PushedRegsNum

(* The loop that loads the arguments, on one.                              *)
LEMMA LoadsOne ==
  ASSUME NEW c, IsCpu(c), c.rsp + 1 \in Stack, argsz = 1, NEW saved,
         PushedRegsNum(saved) \in Nat
  PROVE  Received(LoadArgs(c, saved), 1) = WordAt(c, c.rsp - PushedRegsNum(saved))
<1> DEFINE above == PushedRegsNum(saved)
           pass == [above |-> above, i |-> 0]
           passes == [k \in 1 .. argsz |-> [above |-> above, i |-> k - 1]]
           word == WordAt(c, c.rsp - above)
           p == LoadArgs(c, saved)
<1>1. passes \in Seq({pass}) /\ Len(passes) = 1 /\ passes[1] = pass
  BY DEF above
<1>2. p = FoldLeft(LoadArg, c, passes)
  BY DEF LoadArgs
<1> HIDE DEF passes
<1>3. PICK f : /\ f[0] = c
               /\ \A k \in 0 .. Len(passes) - 1 : f[k + 1] = LoadArg(f[k], passes[k + 1])
               /\ FoldLeft(LoadArg, c, passes) = f[Len(passes)]
  BY <1>1, LoadLoop
<1>4. p = LoadArg(c, pass)
  BY <1>1, <1>2, <1>3
<1>5. WordAt(c, c.rsp - (pass.above + pass.i)) = word /\ pass.i = 0
  BY DEF IsCpu
<1>6. Len(ArgRegs) \in Nat
  BY ArgRegsAssumption
<1> HIDE DEF p, pass, word, above
<1>7. CASE Len(ArgRegs) >= 1
  <2> DEFINE reg == ArgRegs[1]
  <2>1. reg \in Registers
    BY <1>6, <1>7, ArgRegsAssumption DEF Registers
  <2>2. p = SetReg(c, reg, word)
    BY <1>4, <1>5, <1>6, <1>7 DEF LoadArg, SetReg
  <2>3. Received(p, 1) = p.regs[reg]
    BY <1>6, <1>7 DEF Received
  <2> HIDE DEF reg
  <2>4. SetReg(c, reg, word).regs[reg] = word
    BY <2>1, SetRegFacts
  <2> QED BY <2>2, <2>3, <2>4 DEF p, word, above
<1>8. CASE Len(ArgRegs) = 0
  <2> DEFINE b == SetReg(c, Rax, word)
  <2>1. p = PushWord(b, word)
    BY <1>4, <1>5, <1>8 DEF LoadArg, SetReg
  <2>2. IsCpu(b) /\ b.rsp = c.rsp
    BY SetRegFacts
  <2> HIDE DEF b
  <2>3. IsCpu(p) /\ p.rsp = c.rsp + 1 /\ p.mem[c.rsp + 1] = word
    BY <2>1, <2>2, PushWordFacts
  <2>4. Received(p, 1) = WordAt(p, p.rsp)
    <3>1. p.rsp - (1 - 0 - 1) = p.rsp
      BY <2>3 DEF IsCpu
    <3> QED BY <1>8, <3>1 DEF Received
  <2>5. WordAt(p, p.rsp) = word
    BY <2>3 DEF WordAt
  <2> QED BY <2>4, <2>5 DEF p, word, above
<1> QED BY <1>6, <1>7, <1>8

(* What a callee gets as its only argument is the word that was pushed     *)
(* last, wherever the registers saved in between have moved rsp.           *)
LEMMA ArgumentFound ==
  ASSUME NEW c, IsCpu(c), argsz = 1, c.rsp \in Stack, Room(c, TableRegs + 1),
         NEW tab, NEW res
  PROVE  Received(AtCall(c, tab, res), 1) = c.mem[c.rsp]
<1> DEFINE saved == SavedRegs(tab, res)
           entry(i) == [Aside(i - 1, res) EXCEPT !.saved = @ /\ IsRegUsed(tab, i - 1)]
           P == {entry(i) : i \in 1 .. TableRegs}
           p == FoldLeft(PushAside, c, saved)
<1>1. saved \in Seq(P) /\ Len(saved) = TableRegs
  <2>1. saved = [i \in 1 .. TableRegs |-> entry(i)]
    BY DEF SavedRegs
  <2> HIDE DEF saved, entry
  <2> QED BY <2>1, TableRegsAssumption
<1>2. AtCall(c, tab, res) = LoadArgs(p, saved)
  BY DEF AtCall
<1> HIDE DEF saved, entry, P
<1>3. PICK f : Pushes(f, c, saved) /\ p = f[TableRegs]
  <2>1. PICK f : /\ f[0] = c
                 /\ \A k \in 0 .. Len(saved) - 1 : f[k + 1] = PushAside(f[k], saved[k + 1])
                 /\ FoldLeft(PushAside, c, saved) = f[Len(saved)]
    BY <1>1, PushLoop
  <2> QED BY <1>1, <2>1 DEF Pushes
<1>4. /\ IsCpu(p) /\ c.rsp <= p.rsp /\ p.rsp <= c.rsp + TableRegs
      /\ \A d \in Stack : d <= c.rsp => p.mem[d] = c.mem[d]
  BY <1>1, <1>3, PushesFacts, TableRegsAssumption
<1>5. PushedRegsNum(saved) \in Nat /\ p.rsp = c.rsp + PushedRegsNum(saved)
  BY <1>1, <1>3, PushedCount
<1> HIDE DEF p
<1>6. c.rsp \in Int /\ p.rsp \in Int /\ TableRegs \in Nat
  BY <1>4, TableRegsAssumption DEF IsCpu
<1>7. p.rsp + 1 \in Stack
  <2>1. p.rsp + 1 \in c.rsp + 1 .. c.rsp + (TableRegs + 1)
    BY <1>4, <1>6
  <2> QED BY <2>1 DEF Room
<1>8. Received(LoadArgs(p, saved), 1) = WordAt(p, p.rsp - PushedRegsNum(saved))
  BY <1>4, <1>5, <1>7, LoadsOne
<1>9. p.rsp - PushedRegsNum(saved) = c.rsp
  BY <1>5, <1>6
<1>10. WordAt(p, c.rsp) = c.mem[c.rsp]
  BY <1>4, <1>6 DEF WordAt
<1> QED BY <1>2, <1>8, <1>9, <1>10

(* Where at most as many values wait as registers are offered, the result  *)
(* of a call is not spilled: no room is made for it above the arguments    *)
(* that are pushed already.                                                *)
LEMMA ResultInRegister ==
  ASSUME MaxPending \in 0 .. RegNum, MInv, Leaf(Word)
  PROVE  Result.onstack = 0
<1> DEFINE h == Home(table, frame, next, Word)
           stop == ScanStop(table.items)
<1>1. /\ pending \in Seq(AnyHome) /\ table.items \in Seq(AnyEntry)
      /\ Len(table.items) = Len(pending)
      /\ pending' = Append(pending, h) /\ Len(pending) < MaxPending
  BY DEF MInv, Usable, Mirrors, Leaf
<1>2. stop \in 0 .. Len(table.items)
  BY <1>1, ScanStops
<1>3. stop # RegNum /\ stop # NoReg
  <2> DEFINE n == Len(table.items)
  <2>1. n \in Nat /\ n < MaxPending /\ stop \in 0 .. n
    BY <1>1, <1>2
  <2>2. MaxPending \in 0 .. RegNum /\ RegNum \in Nat
    BY MaxPending \in 0 .. RegNum, RegNumAssumption
  <2> HIDE DEF n, stop
  <2> QED BY <2>1, <2>2 DEF NoReg
<1>4. ~HasEntry(table, next)
  BY NoEntryYet DEF MInv
<1>5. GetsReg(table, next, Word)
  <2>1. Word <= Word
    BY SizesAssumption
  <2> QED BY <1>3, <1>4, <2>1 DEF GetsReg, AllocReg
<1>6. h.onstack = 0
  BY <1>5 DEF Home
<1> HIDE DEF h
<1>7. Result = h
  BY <1>1 DEF Result
<1> QED BY <1>6, <1>7

\* The inductive invariant of ArgsInOrder: a pushed argument is at rsp, and
\* nothing is computed until its call.
OneArgument ==
  /\ argsz = 1 /\ pushed[1].depth = Len(pending)
  /\ cpu.rsp \in Stack /\ cpu.mem[cpu.rsp] = pushed[1].value
PInv ==
  /\ argsz = Len(pushed) /\ Len(pushed) <= 1
  /\ Len(pushed) = 1 => OneArgument
  /\ ArgsInOrder

LEMMA InitPInv == RunInit => PInv
<1> SUFFICES ASSUME RunInit PROVE PInv
  OBVIOUS
<1>1. argsz = 0 /\ pushed = <<>> /\ Len(pushed) = 0 /\ passed.have = passed.want
  BY DEF RunInit
<1> QED BY <1>1 DEF PInv, ArgsInOrder

LEMMA NextPInv ==
  ASSUME MaxPending \in 0 .. RegNum, Arities \subseteq {0, 1}
  PROVE  SInv /\ MInv /\ TInv /\ FInv /\ ValuesSurvive /\ PInv
         /\ [RunNext]_<<vars, run>> => PInv'
<1> SUFFICES ASSUME SInv, MInv, TInv, FInv, ValuesSurvive, PInv, [RunNext]_<<vars, run>>
             PROVE  PInv'
  OBVIOUS
<1>0. /\ IsCpu(cpu) /\ cpu.rsp \in Int /\ todo = 0 /\ argsz = Len(pushed)
      /\ pushed \in Seq(Pushed) /\ (Len(pushed) = 0 \/ Len(pushed) = 1)
      /\ Len(pushed) = 1 => OneArgument
      /\ ArgsInOrder /\ Len(pending) \in Nat
  <2>1. pushed \in Seq(Pushed) /\ Len(pushed) <= 1
    BY DEF FInv, PInv
  <2>2. Len(pushed) = 0 \/ Len(pushed) = 1
    <3> DEFINE n == Len(pushed)
    <3>1. n \in Nat /\ n <= 1
      BY <2>1
    <3> HIDE DEF n
    <3>2. n = 0 \/ n = 1
      BY <3>1
    <3> QED BY <3>2 DEF n
  <2> QED BY <2>1, <2>2 DEF TInv, FInv, PInv, IsCpu, SInv
<1>1. pushed = <<>> <=> Len(pushed) = 0
  BY <1>0
<1>2. ~\E n \in Arities : n > 1
  BY Arities \subseteq {0, 1}
\* While an argument is pushed no node begins that takes a value from below.
<1>3. \A n \in {1, 2} : Above(n) => Len(pushed) = 0
  <2> SUFFICES ASSUME NEW n \in {1, 2}, Above(n), Len(pushed) = 1 PROVE FALSE
    BY <1>0
  <2>1. Last(pushed) = pushed[1] /\ pushed # <<>>
    BY <1>1 DEF Last
  <2>2. Len(pending) - n >= pushed[1].depth
    BY <2>1 DEF Above
  <2>3. pushed[1].depth = Len(pending)
    BY <1>0 DEF OneArgument
  <2> QED BY <1>0, <2>2, <2>3
<1>4. ASSUME Len(pushed) = 0, UNCHANGED <<argsz, pushed, passed>> PROVE PInv'
  BY <1>0, <1>4 DEF PInv, ArgsInOrder
<1>5. CASE Constant \/ (\E i \in 1 .. Len(mine) : Identifier(i)) \/ Arithmetic
           \/ (\E answer \in {Rax, Rdx} : Multiply(answer)) \/ Comparison
  <2>1. Begins \/ Above(2)
    BY <1>5 DEF Constant, Identifier, Arithmetic, Multiply, Comparison
  <2>2. Len(pushed) = 0
    BY <1>1, <1>2, <1>3, <2>1 DEF Begins
  <2>3. UNCHANGED <<argsz, pushed, passed>>
    BY <1>5 DEF Constant, Identifier, Arithmetic, Multiply, Comparison
  <2> QED BY <1>4, <2>2, <2>3
<1>6. CASE Discard \/ (\E i \in 1 .. Len(mine) : Assign(i))
           \/ \E names \in Params, params \in ParamCounts : DefFunc(names, params)
  <2>1. pushed = <<>> /\ UNCHANGED <<argsz, pushed, passed>>
    BY <1>6 DEF Discard, Assign, DefFunc, run
  <2> QED BY <1>1, <1>4, <2>1
<1>7. CASE PushArg
  <2> DEFINE h == Latest(1)
             v == Get(cpu, h)
             entry == [value |-> ValueOf(h.tmp), depth |-> Len(pending')]
  <2>1. Len(pushed) = 0 /\ pushed = <<>> /\ argsz = 0
    BY <1>0, <1>1, <1>3, <1>7 DEF PushArg
  <2>2. /\ Fits /\ Use /\ cpu' = PushWord(cpu, v) /\ argsz' = argsz + 1
        /\ pushed' = Append(pushed, entry) /\ passed' = passed
    BY <1>7 DEF PushArg
  <2>3. v = ValueOf(h.tmp)
    <3>1. Len(pending) >= 1
      BY <2>2 DEF Use, Waiting
    <3>2. h \in Homes
      <4>1. Len(pending) + 1 - 1 \in 1 .. Len(pending)
        BY <1>0, <3>1
      <4> QED BY <4>1 DEF Latest, Homes
    <3> QED BY <3>2 DEF ValuesSurvive, Holds
  <2> HIDE DEF v, h
  <2>4. /\ cpu'.rsp = cpu.rsp + 1
        /\ \A d \in Stack : cpu'.mem[d] = IF d = cpu.rsp + 1 THEN v ELSE cpu.mem[d]
    BY <1>0, <2>2, PushWordFacts
  <2>5. cpu.rsp + 1 \in Stack
    <3>1. cpu.rsp + TableRegs + 0 + 1 <= Depth /\ cpu.rsp - 0 >= -Over
      BY <2>1, <2>2 DEF Fits
    <3> QED BY <1>0, <3>1, TableRegsAssumption, BoundsAssumption DEF Stack
  <2>6. Len(pushed') = 1 /\ pushed'[1] = entry /\ argsz' = 1
    BY <2>1, <2>2
  <2>7. cpu'.mem[cpu'.rsp] = pushed'[1].value /\ pushed'[1].depth = Len(pending')
    BY <2>3, <2>4, <2>5, <2>6
  <2> QED BY <1>0, <2>2, <2>4, <2>5, <2>6, <2>7 DEF PInv, OneArgument, ArgsInOrder
<1>8. ASSUME NEW n \in Arities, Call(n) PROVE PInv'
  <2> DEFINE own == SubSeq(pushed, Len(pushed) + 1 - n, Len(pushed))
             c == SubRsp(cpu, Result)
             tab == table'
             res == Result
             at == AtCall(c, tab, res)
  <2>1. /\ Fits /\ n <= Len(pushed) /\ (n = 0 => Begins) /\ Leaf(Word)
        /\ passed' = [want |-> [k \in 1 .. n |-> own[k].value],
                      have |-> [k \in 1 .. n |-> Received(at, k)]]
        /\ pushed' = SubSeq(pushed, 1, Len(pushed) - n)
        /\ argsz' = 0
    BY <1>8 DEF Call
  <2>2. n = Len(pushed) /\ (n = 0 \/ n = 1)
    BY <1>0, <1>1, <1>2, <2>1, Arities \subseteq {0, 1} DEF Begins
  <2>3. pushed' = <<>> /\ Len(pushed') = 0
    BY <1>0, <2>1, <2>2
  <2>4. passed'.have = passed'.want
    <3>1. CASE n = 0
      BY <2>1, <3>1
    <3>2. CASE n = 1
      <4>1. Result.onstack = 0
        BY MaxPending \in 0 .. RegNum, <2>1, ResultInRegister
      <4>2. c = cpu
        BY <4>1 DEF SubRsp
      <4>3. OneArgument /\ argsz = 1
        BY <1>0, <2>2, <3>2 DEF OneArgument
      <4>4. Room(cpu, TableRegs + 1)
        <5>1. cpu.rsp + TableRegs + 1 + 1 <= Depth /\ cpu.rsp - 1 >= -Over
          BY <2>1, <4>3 DEF Fits
        <5> QED BY <1>0, <5>1, TableRegsAssumption, BoundsAssumption DEF Room, Stack
      <4> HIDE DEF tab, res
      <4>5. Received(at, 1) = cpu.mem[cpu.rsp]
        BY <1>0, <4>2, <4>3, <4>4, ArgumentFound DEF OneArgument
      <4>6. own[1] = pushed[1]
        BY <1>0, <2>2, <3>2
      <4>7. Received(at, 1) = own[1].value
        BY <4>3, <4>5, <4>6 DEF OneArgument
      <4> HIDE DEF own, at
      <4>8. [k \in 1 .. n |-> own[k].value] = [k \in 1 .. n |-> Received(at, k)]
        BY <3>2, <4>7
      <4> QED BY <2>1, <4>8 DEF own, at, tab, res
    <3> QED BY <2>2, <3>1, <3>2
  <2> QED BY <2>1, <2>3, <2>4 DEF PInv, ArgsInOrder
<1>9. CASE UNCHANGED <<vars, run>>
  BY <1>9 DEF PInv, OneArgument, ArgsInOrder, vars, run
<1>10. ~LoadParam /\ ~PushParam
  BY <1>0 DEF LoadParam, PushParam
<1> QED BY <1>5, <1>6, <1>7, <1>8, <1>9, <1>10 DEF RunNext

(* The argument of a call arrives, over the registers that are saved       *)
(* between the push and the load (amd64.c:368) and in calls whose argument *)
(* is a call: where one argument is the most a call has and the registers  *)
(* suffice for the values that wait, nothing but what spoils the           *)
(* translator's lists hands a callee another value.                        *)
THEOREM ArgumentArrives ==
  ASSUME RegNum <= TableRegs, \A s \in Sizes : s > RegNum,
         "multiply" \notin Ops, ParamCounts \subseteq {0}, Arities \subseteq {0, 1},
         MaxPending \in 0 .. RegNum
  PROVE  RunSpec /\ []NothingLost => []ArgsInOrder
<1>1. RunInit => AInv /\ PInv
  BY ParamCounts \subseteq {0}, InitAInv, InitPInv
<1>2. AInv /\ [RunNext]_<<vars, run>> => AInv'
  BY \A s \in Sizes : s > RegNum, ParamCounts \subseteq {0}, NextAInv
<1>3. RunSpec /\ []NothingLost => [](ValuesSurvive /\ LocalsIntact)
  BY RegNum <= TableRegs, \A s \in Sizes : s > RegNum,
     "multiply" \notin Ops, ParamCounts \subseteq {0}, OnlyListsLose
<1>4. AInv /\ NothingLost /\ ValuesSurvive /\ PInv /\ [RunNext]_<<vars, run>> => PInv'
  <2>1. AInv /\ NothingLost => SInv /\ MInv /\ TInv /\ FInv
    BY DEF AInv, KInv, NothingLost
  <2>2. SInv /\ MInv /\ TInv /\ FInv /\ ValuesSurvive /\ PInv
        /\ [RunNext]_<<vars, run>> => PInv'
    BY MaxPending \in 0 .. RegNum, Arities \subseteq {0, 1}, NextPInv
  <2> QED BY <2>1, <2>2
<1>5. PInv => ArgsInOrder
  BY DEF PInv
<1> QED BY <1>1, <1>2, <1>3, <1>4, <1>5, PTL DEF RunSpec

(* As ArgumentArrives, where no more than two values wait: their entries   *)
(* stay in the table and their registers are their own.                    *)
THEOREM ArgsInOrderAlways ==
  ASSUME RegNum <= TableRegs, \A s \in Sizes : s > RegNum, RegNum >= 3,
         "multiply" \notin Ops, ParamCounts \subseteq {0}, Arities \subseteq {0, 1},
         MaxPending \in 0 .. 2, TableCap = 6
  PROVE  RunSpec /\ []NamesFound => []ArgsInOrder
<1>1. RunSpec /\ []NamesFound => []NothingLost
  BY MaxPending \in 0 .. 2, TableCap = 6, RegNum >= 3, RunsLoseNothing
<1>2. MaxPending \in 0 .. RegNum
  BY MaxPending \in 0 .. 2, RegNum >= 3, RegNumAssumption
<1>3. RunSpec /\ []NothingLost => []ArgsInOrder
  BY RegNum <= TableRegs, \A s \in Sizes : s > RegNum,
     "multiply" \notin Ops, ParamCounts \subseteq {0}, Arities \subseteq {0, 1},
     <1>2, ArgumentArrives
<1> QED BY <1>1, <1>3, PTL

=============================================================================
