------------------------------ MODULE PmpProofs ------------------------------
(***************************************************************************)
(* Memory protection for every placement of the five stacks in SRAM: what  *)
(* the registers stand for, and which of a task's accesses they let pass,  *)
(* after any sequence of switches.                                         *)
(***************************************************************************)
EXTENDS Pmp, SequenceTheorems, TLAPS

-----------------------------------------------------------------------------
(* The NAPOT encoding                                                       *)

\* The cases of the search for the trailing ones.
LEMMA Widths ==
    \A k \in 0 .. 29 :
        \/ k = 0 \/ k = 1 \/ k = 2 \/ k = 3 \/ k = 4 \/ k = 5 \/ k = 6 \/ k = 7 \/ k = 8 \/ k = 9
        \/ k = 10 \/ k = 11 \/ k = 12 \/ k = 13 \/ k = 14 \/ k = 15 \/ k = 16 \/ k = 17 \/ k = 18 \/ k = 19
        \/ k = 20 \/ k = 21 \/ k = 22 \/ k = 23 \/ k = 24 \/ k = 25 \/ k = 26 \/ k = 27 \/ k = 28 \/ k = 29
BY SMT

\* An address register that ends in a zero and seven ones, as for a stack: no
\* other number of trailing ones fits.
LEMMA OnesOfStack ==
    ASSUME NEW v \in Nat, v % 2 ^ (7 + 1) = 2 ^ 7 - 1
    PROVE  TrailingOnes(v) = 7
<1>1. /\ v % 2 ^ (0 + 1) # 2 ^ 0 - 1 /\ v % 2 ^ (1 + 1) # 2 ^ 1 - 1 /\ v % 2 ^ (2 + 1) # 2 ^ 2 - 1
      /\ v % 2 ^ (3 + 1) # 2 ^ 3 - 1 /\ v % 2 ^ (4 + 1) # 2 ^ 4 - 1 /\ v % 2 ^ (5 + 1) # 2 ^ 5 - 1
      /\ v % 2 ^ (6 + 1) # 2 ^ 6 - 1 /\ v % 2 ^ (8 + 1) # 2 ^ 8 - 1 /\ v % 2 ^ (9 + 1) # 2 ^ 9 - 1
      /\ v % 2 ^ (10 + 1) # 2 ^ 10 - 1 /\ v % 2 ^ (11 + 1) # 2 ^ 11 - 1 /\ v % 2 ^ (12 + 1) # 2 ^ 12 - 1
      /\ v % 2 ^ (13 + 1) # 2 ^ 13 - 1 /\ v % 2 ^ (14 + 1) # 2 ^ 14 - 1 /\ v % 2 ^ (15 + 1) # 2 ^ 15 - 1
      /\ v % 2 ^ (16 + 1) # 2 ^ 16 - 1 /\ v % 2 ^ (17 + 1) # 2 ^ 17 - 1 /\ v % 2 ^ (18 + 1) # 2 ^ 18 - 1
      /\ v % 2 ^ (19 + 1) # 2 ^ 19 - 1 /\ v % 2 ^ (20 + 1) # 2 ^ 20 - 1 /\ v % 2 ^ (21 + 1) # 2 ^ 21 - 1
      /\ v % 2 ^ (22 + 1) # 2 ^ 22 - 1 /\ v % 2 ^ (23 + 1) # 2 ^ 23 - 1 /\ v % 2 ^ (24 + 1) # 2 ^ 24 - 1
      /\ v % 2 ^ (25 + 1) # 2 ^ 25 - 1 /\ v % 2 ^ (26 + 1) # 2 ^ 26 - 1 /\ v % 2 ^ (27 + 1) # 2 ^ 27 - 1
      /\ v % 2 ^ (28 + 1) # 2 ^ 28 - 1 /\ v % 2 ^ (29 + 1) # 2 ^ 29 - 1
  BY SMTT(60)
<1>2. 7 \in 0 .. 29
  BY SMT
<1>3. ASSUME NEW k \in 0 .. 29, v % 2 ^ (k + 1) = 2 ^ k - 1 PROVE k = 7
  BY <1>1, <1>3, Widths, Zenon
<1>4. QED
  BY <1>2, <1>3, Zenon DEF TrailingOnes

\* The same with sixteen ones, as for the SRAM.
LEMMA OnesOfSram ==
    ASSUME NEW v \in Nat, v % 2 ^ (16 + 1) = 2 ^ 16 - 1
    PROVE  TrailingOnes(v) = 16
<1>1. /\ v % 2 ^ (0 + 1) # 2 ^ 0 - 1 /\ v % 2 ^ (1 + 1) # 2 ^ 1 - 1 /\ v % 2 ^ (2 + 1) # 2 ^ 2 - 1
      /\ v % 2 ^ (3 + 1) # 2 ^ 3 - 1 /\ v % 2 ^ (4 + 1) # 2 ^ 4 - 1 /\ v % 2 ^ (5 + 1) # 2 ^ 5 - 1
      /\ v % 2 ^ (6 + 1) # 2 ^ 6 - 1 /\ v % 2 ^ (7 + 1) # 2 ^ 7 - 1 /\ v % 2 ^ (8 + 1) # 2 ^ 8 - 1
      /\ v % 2 ^ (9 + 1) # 2 ^ 9 - 1 /\ v % 2 ^ (10 + 1) # 2 ^ 10 - 1 /\ v % 2 ^ (11 + 1) # 2 ^ 11 - 1
      /\ v % 2 ^ (12 + 1) # 2 ^ 12 - 1 /\ v % 2 ^ (13 + 1) # 2 ^ 13 - 1 /\ v % 2 ^ (14 + 1) # 2 ^ 14 - 1
      /\ v % 2 ^ (15 + 1) # 2 ^ 15 - 1 /\ v % 2 ^ (17 + 1) # 2 ^ 17 - 1 /\ v % 2 ^ (18 + 1) # 2 ^ 18 - 1
      /\ v % 2 ^ (19 + 1) # 2 ^ 19 - 1 /\ v % 2 ^ (20 + 1) # 2 ^ 20 - 1 /\ v % 2 ^ (21 + 1) # 2 ^ 21 - 1
      /\ v % 2 ^ (22 + 1) # 2 ^ 22 - 1 /\ v % 2 ^ (23 + 1) # 2 ^ 23 - 1 /\ v % 2 ^ (24 + 1) # 2 ^ 24 - 1
      /\ v % 2 ^ (25 + 1) # 2 ^ 25 - 1 /\ v % 2 ^ (26 + 1) # 2 ^ 26 - 1 /\ v % 2 ^ (27 + 1) # 2 ^ 27 - 1
      /\ v % 2 ^ (28 + 1) # 2 ^ 28 - 1 /\ v % 2 ^ (29 + 1) # 2 ^ 29 - 1
  BY SMTT(60)
<1>2. 16 \in 0 .. 29
  BY SMT
<1>3. ASSUME NEW k \in 0 .. 29, v % 2 ^ (k + 1) = 2 ^ k - 1 PROVE k = 16
  BY <1>1, <1>3, Widths, Zenon
<1>4. QED
  BY <1>2, <1>3, Zenon DEF TrailingOnes

\* The same with nineteen, as for the flash.
LEMMA OnesOfFlash ==
    ASSUME NEW v \in Nat, v % 2 ^ (19 + 1) = 2 ^ 19 - 1
    PROVE  TrailingOnes(v) = 19
<1>1. /\ v % 2 ^ (0 + 1) # 2 ^ 0 - 1 /\ v % 2 ^ (1 + 1) # 2 ^ 1 - 1 /\ v % 2 ^ (2 + 1) # 2 ^ 2 - 1
      /\ v % 2 ^ (3 + 1) # 2 ^ 3 - 1 /\ v % 2 ^ (4 + 1) # 2 ^ 4 - 1 /\ v % 2 ^ (5 + 1) # 2 ^ 5 - 1
      /\ v % 2 ^ (6 + 1) # 2 ^ 6 - 1 /\ v % 2 ^ (7 + 1) # 2 ^ 7 - 1 /\ v % 2 ^ (8 + 1) # 2 ^ 8 - 1
      /\ v % 2 ^ (9 + 1) # 2 ^ 9 - 1 /\ v % 2 ^ (10 + 1) # 2 ^ 10 - 1 /\ v % 2 ^ (11 + 1) # 2 ^ 11 - 1
      /\ v % 2 ^ (12 + 1) # 2 ^ 12 - 1 /\ v % 2 ^ (13 + 1) # 2 ^ 13 - 1 /\ v % 2 ^ (14 + 1) # 2 ^ 14 - 1
      /\ v % 2 ^ (15 + 1) # 2 ^ 15 - 1 /\ v % 2 ^ (16 + 1) # 2 ^ 16 - 1 /\ v % 2 ^ (17 + 1) # 2 ^ 17 - 1
      /\ v % 2 ^ (18 + 1) # 2 ^ 18 - 1 /\ v % 2 ^ (20 + 1) # 2 ^ 20 - 1 /\ v % 2 ^ (21 + 1) # 2 ^ 21 - 1
      /\ v % 2 ^ (22 + 1) # 2 ^ 22 - 1 /\ v % 2 ^ (23 + 1) # 2 ^ 23 - 1 /\ v % 2 ^ (24 + 1) # 2 ^ 24 - 1
      /\ v % 2 ^ (25 + 1) # 2 ^ 25 - 1 /\ v % 2 ^ (26 + 1) # 2 ^ 26 - 1 /\ v % 2 ^ (27 + 1) # 2 ^ 27 - 1
      /\ v % 2 ^ (28 + 1) # 2 ^ 28 - 1 /\ v % 2 ^ (29 + 1) # 2 ^ 29 - 1
  BY SMTT(60)
<1>2. 19 \in 0 .. 29
  BY SMT
<1>3. ASSUME NEW k \in 0 .. 29, v % 2 ^ (k + 1) = 2 ^ k - 1 PROVE k = 19
  BY <1>1, <1>3, Widths, Zenon
<1>4. QED
  BY <1>2, <1>3, Zenon DEF TrailingOnes

\* Addresses of a region.
In(a, region) == region.base <= a /\ a < region.base + region.size

\* What the code writes for a stack stands for exactly that stack.
LEMMA StackRegion ==
    ASSUME NEW n \in Name
    PROVE  /\ Region(Napot(StackOf(n))) = StackOf(n)
           /\ Napot(StackOf(n)) \in 0 .. 2 ^ 30 - 1
<1>1. /\ StackBase[n] \in Nat /\ StackBase[n] % 1024 = 0
      /\ StackBase[n] + 1024 <= 1070071808 + 524288
  BY PmpAssumption, SMT DEF STACK_SIZE, SRAM
<1>2. PICK b \in Nat : StackBase[n] = 1024 * b
  BY <1>1, SMT
<1>3. PICK v \in Nat : v = Napot(StackOf(n)) /\ v = 256 * b + 127
  BY <1>2, SMT DEF Napot, StackOf, STACK_SIZE
<1>4. v % 2 ^ (7 + 1) = 2 ^ 7 - 1
  BY <1>3, SMT
<1>5. TrailingOnes(v) = 7
  BY <1>4, OnesOfStack, SMT
<1>6. Region(v) = StackOf(n)
  <2>1. Region(v) = [base |-> (v - (2 ^ 7 - 1)) * 4, size |-> 2 ^ (7 + 3)]
    BY <1>5, Zenon DEF Region
  <2>2. QED
    BY <1>2, <1>3, <2>1, SMT DEF StackOf, STACK_SIZE
<1>7. v \in 0 .. 2 ^ 30 - 1
  BY <1>1, <1>2, <1>3, SMT
<1>8. QED
  BY <1>3, <1>6, <1>7, SMT

\* So do the values for the SRAM and the flash.
LEMMA MemoryRegions ==
    /\ Region(Napot(SRAM)) = SRAM /\ Napot(SRAM) \in 0 .. 2 ^ 30 - 1
    /\ Region(Napot(FLASH)) = FLASH /\ Napot(FLASH) \in 0 .. 2 ^ 30 - 1
<1>1. PICK v \in Nat : v = Napot(SRAM) /\ v = 267517952 + 65535
  BY SMT DEF Napot, SRAM
<1>2. v % 2 ^ (16 + 1) = 2 ^ 16 - 1
  BY <1>1, SMT
<1>3. TrailingOnes(v) = 16
  BY <1>2, OnesOfSram, SMT
<1>4. Region(v) = SRAM /\ v \in 0 .. 2 ^ 30 - 1
  <2>1. Region(v) = [base |-> (v - (2 ^ 16 - 1)) * 4, size |-> 2 ^ (16 + 3)]
    BY <1>3, Zenon DEF Region
  <2>2. QED
    BY <1>1, <2>1, SMT DEF SRAM
<1>5. PICK w \in Nat : w = Napot(FLASH) /\ w = 276824064 + 524287
  BY SMT DEF Napot, FLASH
<1>6. w % 2 ^ (19 + 1) = 2 ^ 19 - 1
  BY <1>5, SMT
<1>7. TrailingOnes(w) = 19
  BY <1>6, OnesOfFlash, SMT
<1>8. Region(w) = FLASH /\ w \in 0 .. 2 ^ 30 - 1
  <2>1. Region(w) = [base |-> (w - (2 ^ 19 - 1)) * 4, size |-> 2 ^ (19 + 3)]
    BY <1>7, Zenon DEF Region
  <2>2. QED
    BY <1>5, <2>1, SMT DEF FLASH
<1>9. QED
  BY <1>1, <1>4, <1>5, <1>8, SMT

\* The stacks lie in the SRAM and apart from each other; the flash is elsewhere.
LEMMA Layout ==
    ASSUME NEW k \in 1 .. 5, NEW a \in Nat, In(a, StackOf(Stacks[k]))
    PROVE  /\ In(a, SRAM) /\ ~In(a, FLASH)
           /\ \A l \in 1 .. 5 : In(a, StackOf(Stacks[l])) => l = k
<1>1. \A l \in 1 .. 5 : /\ StackBase[Stacks[l]] \in Nat /\ StackBase[Stacks[l]] % 1024 = 0
                        /\ 1070071808 <= StackBase[Stacks[l]]
                        /\ StackBase[Stacks[l]] + 1024 <= 1070071808 + 524288
                        /\ StackBase[Stacks[l]] = StackBase[Stacks[k]] => l = k
  BY PmpAssumption, SMT DEF STACK_SIZE, SRAM, Name
<1>2. In(a, SRAM) /\ ~In(a, FLASH)
  BY <1>1, SMT DEF In, StackOf, STACK_SIZE, SRAM, FLASH
<1>3. ASSUME NEW l \in 1 .. 5, In(a, StackOf(Stacks[l])) PROVE l = k
  <2>1. StackBase[Stacks[l]] <= a /\ a < StackBase[Stacks[l]] + 1024
    BY <1>3, SMT DEF In, StackOf, STACK_SIZE
  <2>2. StackBase[Stacks[k]] <= a /\ a < StackBase[Stacks[k]] + 1024
    BY SMT DEF In, StackOf, STACK_SIZE
  <2>3. StackBase[Stacks[l]] = StackBase[Stacks[k]]
    BY <1>1, <2>1, <2>2, SMT
  <2>4. QED
    BY <1>1, <2>3, SMT
<1>4. QED
  BY <1>2, <1>3, SMT

-----------------------------------------------------------------------------
(* The calls                                                                *)

FlashCall == Call(0, FLASH, Config({"r", "x"}, "Napot", TRUE))
SramCall  == Call(3, SRAM, Config({"r", "w"}, "Napot", FALSE))
Closes(k) == Call(StackEntry[k], StackOf(Stacks[k]), NoAccess)
Opens(k)  == Call(StackEntry[k], [base |-> 0, size |-> STACK_SIZE], Off)

Calls == {FlashCall, SramCall} \cup {Closes(k) : k \in 1 .. 5} \cup {Opens(k) : k \in 1 .. 5}

\* The entry exists, the value fits the register, only entry 0 is ever locked.
Proper(c) ==
    /\ c.entry \in Entry
    /\ Napot(c.region) \in 0 .. 2 ^ 30 - 1
    /\ c.config \in {FlashCall.config, SramCall.config, NoAccess, Off}
    /\ c.config.locked <=> c.entry = 0

\* The table of entries.
LEMMA EntryFacts ==
    /\ StackEntry[1] = 1 /\ StackEntry[2] = 2 /\ StackEntry[3] = 4
    /\ StackEntry[4] = 5 /\ StackEntry[5] = 6
    /\ \A k \in 1 .. 5 : StackEntry[k] \in Entry \ {0, 3}
    /\ \A k, l \in 1 .. 5 : StackEntry[k] = StackEntry[l] => k = l
    /\ \A e \in Entry : e = 0 \/ e = 3 \/ \E k \in 1 .. 5 : e = StackEntry[k]
BY SMT DEF StackEntry, Entry

\* The calls are well formed, wherever the stacks are.
LEMMA ProperCalls == \A c \in Calls : Proper(c)
<1>1. \A k \in 1 .. 5 : Stacks[k] \in Name
  BY PmpAssumption, SMT DEF Name
<1>2. Napot([base |-> 0, size |-> STACK_SIZE]) \in 0 .. 2 ^ 30 - 1
  BY SMT DEF Napot, STACK_SIZE
<1>3. /\ Napot(FLASH) \in 0 .. 2 ^ 30 - 1 /\ Napot(SRAM) \in 0 .. 2 ^ 30 - 1
      /\ \A k \in 1 .. 5 : Napot(StackOf(Stacks[k])) \in 0 .. 2 ^ 30 - 1
  BY <1>1, StackRegion, MemoryRegions, Zenon
<1>4. Proper(FlashCall) /\ Proper(SramCall)
  BY <1>3, SMT DEF Proper, FlashCall, SramCall, Call, Config, Entry
<1>5. ASSUME NEW k \in 1 .. 5 PROVE Proper(Closes(k)) /\ Proper(Opens(k))
  BY <1>2, <1>3, EntryFacts, SMT DEF Proper, Closes, Opens, Call, NoAccess, Off, Config
<1>6. QED
  BY <1>4, <1>5, Zenon DEF Calls

\* init_memory_protection, call by call.
LEMMA InitCallsFacts ==
    /\ InitCalls \in Seq(Calls) /\ Len(InitCalls) = 7
    /\ InitCalls[1] = FlashCall /\ InitCalls[7] = SramCall
    /\ \A k \in 1 .. 5 : InitCalls[k + 1] = Closes(k)
<1> DEFINE S == [k \in 1 .. 5 |-> Closes(k)]
<1>1. InitCalls = <<FlashCall>> \o S \o <<SramCall>>
  BY PmpAssumption, Zenon DEF InitCalls, FlashCall, SramCall, Closes
<1>2. S \in Seq(Calls) /\ Len(S) = 5 /\ \A k \in 1 .. 5 : S[k] = Closes(k)
  BY SMT DEF Calls
<1>3. <<FlashCall>> \in Seq(Calls) /\ <<SramCall>> \in Seq(Calls)
  BY SMT DEF Calls
<1> HIDE DEF S
<1>4. PICK T : T = <<FlashCall>> \o S
  BY Zenon
<1>5. /\ T \in Seq(Calls) /\ Len(T) = 6 /\ T[1] = FlashCall
      /\ \A k \in 1 .. 5 : T[k + 1] = Closes(k)
  <2>1. /\ T \in Seq(Calls) /\ Len(T) = 1 + 5
        /\ \A i \in 1 .. 1 + 5 : T[i] = IF i <= 1 THEN <<FlashCall>>[i] ELSE S[i - 1]
    <3>1. Len(<<FlashCall>>) = 1
      BY SMT
    <3>2. /\ T \in Seq(Calls) /\ Len(T) = Len(<<FlashCall>>) + Len(S)
          /\ \A i \in 1 .. Len(<<FlashCall>>) + Len(S) : T[i] =
                IF i <= Len(<<FlashCall>>) THEN <<FlashCall>>[i] ELSE S[i - Len(<<FlashCall>>)]
      BY <1>2, <1>3, <1>4, ConcatProperties, Zenon
    <3>3. QED
      BY <1>2, <3>1, <3>2, Zenon
  <2>2. QED
    BY <1>2, <2>1, SMT
<1>6. InitCalls = T \o <<SramCall>>
  BY <1>1, <1>4, Zenon
<1>7. /\ InitCalls \in Seq(Calls) /\ Len(InitCalls) = 6 + 1
      /\ \A i \in 1 .. 6 + 1 : InitCalls[i] = IF i <= 6 THEN T[i] ELSE <<SramCall>>[i - 6]
  <2>1. Len(<<SramCall>>) = 1
    BY SMT
  <2>2. /\ InitCalls \in Seq(Calls) /\ Len(InitCalls) = Len(T) + Len(<<SramCall>>)
        /\ \A i \in 1 .. Len(T) + Len(<<SramCall>>) : InitCalls[i] =
              IF i <= Len(T) THEN T[i] ELSE <<SramCall>>[i - Len(T)]
    BY <1>3, <1>5, <1>6, ConcatProperties, Zenon
  <2>3. QED
    BY <1>5, <2>1, <2>2, Zenon
<1>8. QED
  BY <1>5, <1>7, SMT

\* reprogram_pmp_stack, call by call.
LEMMA ReprogramFacts ==
    ASSUME NEW name
    PROVE  /\ ReprogramCalls(name) \in Seq(Calls) /\ Len(ReprogramCalls(name)) = 5
           /\ \A k \in 1 .. 5 : ReprogramCalls(name)[k] =
                 IF Stacks[k] = name THEN Opens(k) ELSE Closes(k)
<1>1. ReprogramCalls(name) = [k \in 1 .. 5 |-> IF Stacks[k] = name THEN Opens(k) ELSE Closes(k)]
  BY PmpAssumption, Zenon DEF ReprogramCalls, Opens, Closes
<1>2. QED
  BY <1>1, SMT DEF Calls

-----------------------------------------------------------------------------
(* The registers                                                            *)

\* The registers hold what call c writes.
Done(c) == pmpcfg[c.entry] = c.config /\ pmpaddr[c.entry] = Napot(c.region)

\* What is left of the calls P after n of them.
Rest(P, n) == SubSeq(P, n + 1, Len(P))

\* n of the calls P are done, and the next one half; none of the others can be
\* refused by a locked entry.
Progress(P, n) ==
    /\ P \in Seq(Calls) /\ n \in 0 .. Len(P) /\ todo = Rest(P, n)
    /\ \A i, j \in 1 .. Len(P) : P[i].entry = P[j].entry => i = j
    /\ \A i \in 1 .. n : Done(P[i])
    /\ \A i \in n + 1 .. Len(P) : ~pmpcfg[P[i].entry].locked
    /\ half => n < Len(P) /\ pmpaddr[P[n + 1].entry] = Napot(P[n + 1].region)

Types ==
    /\ pmpaddr \in [Entry -> 0 .. 2 ^ 30 - 1]
    /\ pmpcfg \in [Entry -> {FlashCall.config, SramCall.config, NoAccess, Off}]
    /\ half \in BOOLEAN /\ active \in Name \cup {Idle}

\* Either the hart is still in init_memory_protection, or flash and SRAM have
\* their entries and the stacks get theirs.
PInv ==
    /\ Types
    /\ \E P, n : /\ Progress(P, n)
                 /\ \/ P = InitCalls /\ active = Idle
                    \/ P = ReprogramCalls(active) /\ Done(FlashCall) /\ Done(SramCall)

\* What is left of a programme of register writes after its first n.
LEMMA RestFacts ==
    ASSUME NEW P \in Seq(Calls), NEW n \in 0 .. Len(P)
    PROVE  /\ Rest(P, n) = <<>> <=> n = Len(P)
           /\ n < Len(P) => Head(Rest(P, n)) = P[n + 1] /\ Tail(Rest(P, n)) = Rest(P, n + 1)
           /\ Rest(P, 0) = P
<1>1. Len(P) \in Nat
  BY LenProperties, Zenon
<1>2. CASE n = Len(P)
  <2>1. Rest(P, n) = <<>>
    BY <1>1, <1>2, SubSeqEmpty, SMT DEF Rest
  <2>2. QED
    BY <1>1, <1>2, <2>1, SubSeqFull, SMT DEF Rest
<1>3. CASE n # Len(P)
  <2>1. n + 1 \in 1 .. Len(P) /\ Len(P) \in n + 1 .. Len(P)
    BY <1>1, <1>3, SMT
  <2>2. Head(Rest(P, n)) = P[n + 1] /\ Tail(Rest(P, n)) = SubSeq(P, (n + 1) + 1, Len(P))
    BY <2>1, HeadTailOfSubSeq, Zenon DEF Rest
  <2>3. Rest(P, n) # <<>>
    <3>1. \A i \in n + 1 .. Len(P) : P[i] \in Calls
      BY <1>1, LenProperties, SMT
    <3>2. n + 1 \in Int /\ Len(P) \in Int
      BY <1>1, SMT
    <3>3. Len(Rest(P, n)) = Len(P) - (n + 1) + 1
      BY <2>1, <3>1, <3>2, SubSeqProperties, SMT DEF Rest
    <3>4. QED
      BY <1>1, <2>1, <3>3, EmptySeq, SMT
  <2>4. Rest(P, 0) = P
    BY SubSeqFull, SMT DEF Rest
  <2>5. QED
    BY <1>3, <2>2, <2>3, <2>4, Zenon DEF Rest
<1>4. QED
  BY <1>2, <1>3, Zenon

\* The first half of a call of configure_pmp.
LEMMA AddrWritten ==
    ASSUME Types, NEW P, NEW n, Progress(P, n), WriteAddr
    PROVE  /\ Types' /\ Progress(P, n)' /\ active' = active /\ n + 1 \in 1 .. Len(P)
           /\ \A c \in Calls : c.entry # P[n + 1].entry /\ Done(c) => Done(c)'
<1>1. /\ P \in Seq(Calls) /\ n \in 0 .. Len(P) /\ todo = Rest(P, n) /\ ~half
      /\ \A i, j \in 1 .. Len(P) : P[i].entry = P[j].entry => i = j
      /\ \A i \in 1 .. n : Done(P[i])
      /\ \A i \in n + 1 .. Len(P) : ~pmpcfg[P[i].entry].locked
  BY Zenon DEF Progress, WriteAddr
<1>2. Len(P) \in Nat /\ n # Len(P) /\ Head(todo) = P[n + 1]
  <2>1. Len(P) \in Nat /\ n # Len(P)
    BY <1>1, LenProperties, RestFacts, Zenon DEF WriteAddr
  <2>2. n < Len(P)
    BY <1>1, <2>1, SMT
  <2>3. QED
    BY <1>1, <2>1, <2>2, RestFacts, Zenon
<1>3. n + 1 \in n + 1 .. Len(P) /\ n + 1 \in 1 .. Len(P) /\ \A i \in 1 .. n : i # n + 1 /\ i \in 1 .. Len(P)
  BY <1>1, <1>2, SMT
<1>4. PICK c \in Calls : c = P[n + 1]
  BY <1>1, <1>3, LenProperties, ZenonT(40)
<1>5. Proper(c) /\ ~pmpcfg[c.entry].locked
  BY <1>1, <1>3, <1>4, ProperCalls, Zenon
<1>6. /\ pmpaddr' = [pmpaddr EXCEPT ![c.entry] = Napot(c.region)]
      /\ half' = TRUE /\ UNCHANGED <<pmpcfg, todo, active>>
  BY <1>2, <1>4, <1>5, Zenon DEF WriteAddr
<1>7. Types' /\ pmpaddr'[c.entry] = Napot(c.region)
  BY <1>5, <1>6, Zenon DEF Types, Proper
<1>8. \A d \in Calls : d.entry # c.entry /\ Done(d) => Done(d)'
  BY <1>5, <1>6, ProperCalls, Zenon DEF Types, Proper, Done
<1>9. \A i \in 1 .. n : Done(P[i])'
  <2>1. \A i \in 1 .. n : P[i].entry # c.entry /\ P[i] \in Calls
    BY <1>1, <1>3, <1>4, LenProperties, ZenonT(40)
  <2>2. QED
    BY <1>1, <1>8, <2>1, Zenon
<1>10. half' => n < Len(P) /\ pmpaddr'[P[n + 1].entry] = Napot(P[n + 1].region)
  BY <1>1, <1>2, <1>4, <1>7, SMT
<1>11. Progress(P, n)'
  BY <1>1, <1>6, <1>9, <1>10, Zenon DEF Progress
<1>12. QED
  BY <1>3, <1>4, <1>6, <1>7, <1>8, <1>11, Zenon

\* The second half: the call is done.
LEMMA CfgWritten ==
    ASSUME Types, NEW P, NEW n, Progress(P, n), WriteCfg
    PROVE  /\ Types' /\ Progress(P, n + 1)' /\ active' = active /\ n + 1 \in 1 .. Len(P)
           /\ \A c \in Calls : c.entry # P[n + 1].entry /\ Done(c) => Done(c)'
<1>1. /\ P \in Seq(Calls) /\ n \in 0 .. Len(P) /\ todo = Rest(P, n) /\ half
      /\ \A i, j \in 1 .. Len(P) : P[i].entry = P[j].entry => i = j
      /\ \A i \in 1 .. n : Done(P[i])
      /\ \A i \in n + 1 .. Len(P) : ~pmpcfg[P[i].entry].locked
      /\ n < Len(P) /\ pmpaddr[P[n + 1].entry] = Napot(P[n + 1].region)
  BY Zenon DEF Progress, WriteCfg
<1>2. Len(P) \in Nat /\ Head(todo) = P[n + 1] /\ Tail(todo) = Rest(P, n + 1)
  BY <1>1, LenProperties, RestFacts, Zenon
<1>3. /\ n + 1 \in n + 1 .. Len(P) /\ n + 1 \in 1 .. Len(P) /\ n + 1 \in 0 .. Len(P)
      /\ \A i \in 1 .. n : i # n + 1 /\ i \in 1 .. Len(P)
      /\ \A i \in 1 .. n + 1 : i = n + 1 \/ i \in 1 .. n
      /\ \A i \in (n + 1) + 1 .. Len(P) : i # n + 1 /\ i \in n + 1 .. Len(P) /\ i \in 1 .. Len(P)
  BY <1>1, <1>2, SMT
<1>4. PICK c \in Calls : c = P[n + 1]
  <2>1. n + 1 \in 1 .. Len(P)
    BY <1>3, Zenon
  <2>2. QED
    BY <1>1, <2>1, LenProperties, ZenonT(40)
<1>5. Proper(c) /\ ~pmpcfg[c.entry].locked
  BY <1>1, <1>3, <1>4, ProperCalls, Zenon
<1>6. /\ pmpcfg' = [pmpcfg EXCEPT ![c.entry] = c.config]
      /\ half' = FALSE /\ todo' = Rest(P, n + 1) /\ UNCHANGED <<pmpaddr, active>>
  BY <1>2, <1>4, <1>5, Zenon DEF WriteCfg
<1>7. Types' /\ Done(c)'
  BY <1>1, <1>4, <1>5, <1>6, Zenon DEF Types, Proper, Done
<1>8. \A d \in Calls : d.entry # c.entry => (Done(d) => Done(d)') /\ pmpcfg'[d.entry] = pmpcfg[d.entry]
  BY <1>5, <1>6, ProperCalls, Zenon DEF Types, Proper, Done
<1>9. \A i \in 1 .. Len(P) : i # n + 1 => P[i].entry # c.entry /\ P[i] \in Calls
  <2>1. \A i \in 1 .. Len(P) : P[i] \in Calls
    <3>1. P \in Seq(Calls)
      BY <1>1, Zenon
    <3>2. QED
      BY <3>1, LenProperties, Zenon
  <2>2. n + 1 \in 1 .. Len(P)
    BY <1>3, Zenon
  <2>3. QED
    BY <1>1, <1>4, <2>1, <2>2, Zenon
<1>10. \A i \in 1 .. n + 1 : Done(P[i])'
  BY <1>1, <1>3, <1>4, <1>7, <1>8, <1>9, Zenon
<1>11. \A i \in (n + 1) + 1 .. Len(P) : ~pmpcfg'[P[i].entry].locked
  BY <1>1, <1>3, <1>8, <1>9, Zenon
<1>12. Progress(P, n + 1)'
  BY <1>1, <1>3, <1>6, <1>10, <1>11, Zenon DEF Progress
<1>13. QED
  BY <1>3, <1>4, <1>6, <1>7, <1>8, <1>12, Zenon

\* The registers once all calls are made: flash and SRAM have their entries,
\* every stack but the active task's is closed.
Settled ==
    /\ Types /\ Done(FlashCall) /\ Done(SramCall)
    /\ \A k \in 1 .. 5 : Done(IF Stacks[k] = active THEN Opens(k) ELSE Closes(k))

\* In user mode no register write is outstanding.
LEMMA SettledInUser ==
    ASSUME PInv, InUser
    PROVE  Settled
<1>1. PICK P, n : /\ Progress(P, n)
                  /\ \/ P = InitCalls /\ active = Idle
                     \/ P = ReprogramCalls(active) /\ Done(FlashCall) /\ Done(SramCall)
  BY Zenon DEF PInv
<1>2. n = Len(P) /\ \A i \in 1 .. n : Done(P[i])
  BY <1>1, RestFacts, Zenon DEF Progress, InUser
<1>3. CASE P = InitCalls /\ active = Idle
  <2>1. \A k \in 1 .. 5 : Stacks[k] # active
    BY <1>3, PmpAssumption, SMT DEF Name
  <2>2. \A i \in 1 .. 7 : Done(InitCalls[i])
    BY <1>2, <1>3, InitCallsFacts, Zenon
  <2>3. \A k \in 1 .. 5 : k + 1 \in 1 .. 7
    BY SMT
  <2>4. 1 \in 1 .. 7 /\ 7 \in 1 .. 7
    BY SMT
  <2>5. Done(FlashCall) /\ Done(SramCall) /\ \A k \in 1 .. 5 : Done(Closes(k))
    BY <2>2, <2>3, <2>4, InitCallsFacts, Zenon
  <2>6. QED
    BY <2>1, <2>5, Zenon DEF Settled, PInv
<1>4. CASE P = ReprogramCalls(active) /\ Done(FlashCall) /\ Done(SramCall)
  <2>1. \A k \in 1 .. 5 : Done(ReprogramCalls(active)[k])
    BY <1>2, <1>4, ReprogramFacts, Zenon
  <2>2. QED
    BY <1>4, <2>1, ReprogramFacts, Zenon DEF Settled, PInv
<1>5. QED
  BY <1>1, <1>3, <1>4, Zenon

\* PInv is inductive.
LEMMA PmpInit == Init => PInv
<1> SUFFICES ASSUME Init PROVE PInv
  BY Zenon
<1>1. /\ pmpaddr = [e \in Entry |-> 0] /\ pmpcfg = [e \in Entry |-> Off]
      /\ todo = InitCalls /\ half = FALSE /\ active = Idle
  BY Zenon DEF Init
<1>2. 0 \in 0 .. 2 ^ 30 - 1
  BY SMT
<1>3. Types
  BY <1>1, <1>2, Zenon DEF Types
<1>4. InitCalls \in Seq(Calls) /\ Len(InitCalls) = 7 /\ 0 \in 0 .. Len(InitCalls)
  BY InitCallsFacts, SMT
<1>5. \A i, j \in 1 .. 7 : InitCalls[i].entry = InitCalls[j].entry => i = j
  <2>1. \A i \in 1 .. 7 : i = 1 \/ i = 7 \/ \E k \in 1 .. 5 : i = k + 1
    BY SMT
  <2>2. InitCalls[1].entry = 0 /\ InitCalls[7].entry = 3
    BY InitCallsFacts, SMT DEF FlashCall, SramCall, Call
  <2>3. \A k \in 1 .. 5 : InitCalls[k + 1].entry = StackEntry[k]
    BY InitCallsFacts, SMT DEF Closes, Call
  <2>4. \A k \in 1 .. 5 : InitCalls[k + 1].entry \notin {0, 3}
    BY <2>3, EntryFacts, Zenon
  <2>5. \A k, l \in 1 .. 5 : InitCalls[k + 1].entry = InitCalls[l + 1].entry => k = l
    BY <2>3, EntryFacts, SMT
  <2>6. QED
    BY <2>1, <2>2, <2>4, <2>5, SMT
<1>6. \A i \in 1 .. 7 : ~pmpcfg[InitCalls[i].entry].locked
  <2>1. \A i \in 1 .. 7 : InitCalls[i] \in Calls
    BY <1>4, LenProperties, Zenon
  <2>2. \A i \in 1 .. 7 : InitCalls[i].entry \in Entry
    BY <2>1, ProperCalls, Zenon DEF Proper
  <2>3. QED
    BY <1>1, <2>2, Zenon DEF Off, Config
<1>7. Progress(InitCalls, 0)
  <2>1. \A i \in 1 .. 0 : Done(InitCalls[i])
    BY SMT
  <2>2. 0 + 1 .. Len(InitCalls) = 1 .. 7
    BY <1>4, SMT
  <2>3. todo = Rest(InitCalls, 0)
    BY <1>1, <1>4, RestFacts, Zenon
  <2>4. QED
    BY <1>1, <1>4, <1>5, <1>6, <2>1, <2>2, <2>3, Zenon DEF Progress
<1>8. QED
  BY <1>1, <1>3, <1>7, Zenon DEF PInv

\* A switch starts the calls of reprogram_pmp_stack, none of which is refused.
LEMMA Switched ==
    ASSUME PInv, NEW name \in Name \cup {Idle}, SwitchTo(name)
    PROVE  PInv'
<1>1. Settled /\ InUser
  BY SettledInUser, Zenon DEF SwitchTo, InUser
<1>2. /\ todo' = ReprogramCalls(name) /\ active' = name /\ UNCHANGED <<pmpaddr, pmpcfg, half>>
      /\ ~half
  <2>1. todo' = ReprogramCalls(name) /\ active' = name /\ UNCHANGED <<pmpaddr, pmpcfg, half>>
    BY Zenon DEF SwitchTo
  <2>2. PICK P, n : Progress(P, n)
    BY Zenon DEF PInv
  <2>3. n = Len(P) /\ Len(P) \in Nat
    BY <1>1, <2>2, RestFacts, LenProperties, Zenon DEF Progress, InUser
  <2>4. ~half
    BY <2>2, <2>3, SMT DEF Progress
  <2>5. QED
    BY <2>1, <2>4, Zenon
<1>3. PICK P : P = ReprogramCalls(name)
  BY Zenon
<1>4. /\ P \in Seq(Calls) /\ Len(P) = 5 /\ 0 \in 0 .. Len(P) /\ 0 + 1 .. Len(P) = 1 .. 5
      /\ \A k \in 1 .. 5 : P[k].entry = StackEntry[k]
  <2>1. P \in Seq(Calls) /\ Len(P) = 5 /\ \A k \in 1 .. 5 : P[k] = Opens(k) \/ P[k] = Closes(k)
    BY <1>3, ReprogramFacts, Zenon
  <2>2. \A k \in 1 .. 5 : P[k].entry = StackEntry[k]
    BY <2>1, SMT DEF Opens, Closes, Call
  <2>3. 0 \in 0 .. 5 /\ 0 + 1 .. 5 = 1 .. 5
    BY SMT
  <2>4. QED
    BY <2>1, <2>2, <2>3, Zenon
<1>5. \A k \in 1 .. 5 : ~pmpcfg[StackEntry[k]].locked
  <2>1. \A k \in 1 .. 5 : Done(Opens(k)) \/ Done(Closes(k))
    BY <1>1, Zenon DEF Settled
  <2>2. QED
    BY <2>1, SMT DEF Done, Opens, Closes, Call, Off, NoAccess, Config
<1>6. Progress(P, 0)'
  <2>1. \A i \in 1 .. 0 : Done(P[i])'
    BY SMT
  <2>2. todo' = Rest(P, 0)
    BY <1>2, <1>3, <1>4, RestFacts, Zenon
  <2>3. \A i, j \in 1 .. Len(P) : P[i].entry = P[j].entry => i = j
    BY <1>4, EntryFacts, SMT
  <2>4. \A i \in 0 + 1 .. Len(P) : ~pmpcfg'[P[i].entry].locked
    BY <1>2, <1>4, <1>5, Zenon
  <2>5. QED
    BY <1>2, <1>4, <2>1, <2>2, <2>3, <2>4, Zenon DEF Progress
<1>7. Types' /\ Done(FlashCall)' /\ Done(SramCall)'
  BY <1>1, <1>2, Zenon DEF Settled, Types, Done
<1>8. P = ReprogramCalls(active')
  BY <1>2, <1>3, Zenon
<1>9. QED
  BY <1>6, <1>7, <1>8, Zenon DEF PInv

\* A write keeps it: the stacks have entries of their own.
LEMMA Written ==
    ASSUME PInv, WriteAddr \/ WriteCfg
    PROVE  PInv'
<1>1. PICK P, n : /\ Progress(P, n)
                  /\ \/ P = InitCalls /\ active = Idle
                     \/ P = ReprogramCalls(active) /\ Done(FlashCall) /\ Done(SramCall)
  BY Zenon DEF PInv
<1>2. PICK m : /\ Types' /\ Progress(P, m)' /\ active' = active /\ n + 1 \in 1 .. Len(P)
               /\ \A c \in Calls : c.entry # P[n + 1].entry /\ Done(c) => Done(c)'
  BY <1>1, AddrWritten, CfgWritten, Zenon DEF PInv
<1>3. CASE P = InitCalls /\ active = Idle
  BY <1>2, <1>3, Zenon DEF PInv
<1>4. CASE P = ReprogramCalls(active) /\ Done(FlashCall) /\ Done(SramCall)
  <2>1. n + 1 \in 1 .. 5
    BY <1>2, <1>4, ReprogramFacts, Zenon
  <2>2. P[n + 1] = Opens(n + 1) \/ P[n + 1] = Closes(n + 1)
    BY <1>4, <2>1, ReprogramFacts, Zenon
  <2>3. P[n + 1].entry = StackEntry[n + 1]
    BY <2>2, SMT DEF Opens, Closes, Call
  <2>4. P[n + 1].entry \notin {0, 3}
    BY <2>1, <2>3, EntryFacts, Zenon
  <2>5. /\ FlashCall \in Calls /\ SramCall \in Calls
        /\ FlashCall.entry = 0 /\ SramCall.entry = 3
    BY Zenon DEF Calls, FlashCall, SramCall, Call
  <2>6. Done(FlashCall)' /\ Done(SramCall)'
    BY <1>2, <1>4, <2>4, <2>5, Zenon
  <2>7. P = ReprogramCalls(active')
    BY <1>2, <1>4, Zenon
  <2>8. QED
    BY <1>2, <2>6, <2>7, Zenon DEF PInv
<1>5. QED
  BY <1>1, <1>3, <1>4, Zenon

\* Every write and every switch preserves the invariant.
LEMMA PmpStep == PInv /\ [Next]_vars => PInv'
<1> SUFFICES ASSUME PInv, [Next]_vars PROVE PInv'
  BY Zenon
<1>1. CASE UNCHANGED vars
  BY <1>1, Zenon DEF vars, PInv, Types, Progress, Done
<1>2. QED
  BY <1>1, Switched, Written, Zenon DEF Next

-----------------------------------------------------------------------------
(* What a task may access                                                   *)

\* One entry decides, or none.
LEMMA OneDecides ==
    ASSUME NEW a
    PROVE  /\ Allowed(a) = {} \/ \E e \in Entry : Allowed(a) = pmpcfg[e].perms
           /\ \A e \in Entry : Matches(e, a) /\ (\A f \in Entry : f < e => ~Matches(f, a)) =>
                 Allowed(a) = pmpcfg[e].perms
<1> DEFINE M == {e \in Entry : Matches(e, a)}
           Lowest(e) == e \in M /\ \A f \in M : e <= f
<1>1. Allowed(a) = IF M = {} THEN {} ELSE pmpcfg[CHOOSE e \in M : \A f \in M : e <= f].perms
  BY Zenon DEF Allowed
<1>2. M \subseteq 0 .. 6
  BY Zenon DEF Entry
<1>3. M # {} => \E e \in M : \A f \in M : e <= f
  <2> HIDE DEF M
  <2>1. M \subseteq {0, 1, 2, 3, 4, 5, 6}
    BY <1>2, SMT
  <2>2. CASE 0 \in M \/ 1 \in M \/ 2 \in M
    BY <2>1, <2>2, SMT
  <2>3. CASE M \subseteq {3, 4, 5, 6} /\ 3 \in M
    BY <2>3, SMT
  <2>4. CASE M \subseteq {4, 5, 6} /\ 4 \in M
    BY <2>4, SMT
  <2>5. CASE M \subseteq {5, 6} /\ 5 \in M
    BY <2>5, SMT
  <2>6. CASE M \subseteq {6}
    <3>1. M # {} => M = {6}
      BY <2>6, Zenon
    <3>2. 6 <= 6
      BY SMT
    <3>3. QED
      BY <3>1, <3>2, Zenon
  <2>7. QED
    BY <2>1, <2>2, <2>3, <2>4, <2>5, <2>6, SMT
<1>4. M # {} => \E e \in Entry : Allowed(a) = pmpcfg[e].perms
  BY <1>1, <1>3, Zenon
<1>5. ASSUME NEW e \in Entry, Matches(e, a), \A f \in Entry : f < e => ~Matches(f, a)
      PROVE  Allowed(a) = pmpcfg[e].perms
  <2>1. e \in M /\ \A f \in M : ~(f < e)
    BY <1>5, Zenon
  <2>2. PICK g \in M : g = (CHOOSE d \in M : \A f \in M : d <= f) /\ \A f \in M : g <= f
    BY <1>3, <2>1, Zenon
  <2>3. g = e
    <3> HIDE DEF M
    <3>1. QED
      BY <1>2, <2>1, <2>2, SMT
  <2>4. QED
    BY <1>1, <2>1, <2>2, <2>3, Zenon
<1>6. QED
  BY <1>1, <1>4, <1>5, Zenon

\* In whatever order the entries are rewritten, no address can be both written
\* and executed.
LEMMA WriteOrExecute ==
    ASSUME Types, NEW a
    PROVE  ~({"w", "x"} \subseteq Allowed(a))
<1>1. CASE Allowed(a) = {}
  BY <1>1, Zenon
<1>2. ASSUME NEW e \in Entry, Allowed(a) = pmpcfg[e].perms
      PROVE  ~({"w", "x"} \subseteq Allowed(a))
  <2>1. pmpcfg[e].perms \in {{"r", "x"}, {"r", "w"}, {}}
    <3>1. /\ FlashCall.config.perms = {"r", "x"} /\ SramCall.config.perms = {"r", "w"}
          /\ NoAccess.perms = {} /\ Off.perms = {}
      BY SMT DEF FlashCall, SramCall, Call, Config, NoAccess, Off
    <3>2. pmpcfg[e] \in {FlashCall.config, SramCall.config, NoAccess, Off}
      BY Zenon DEF Types
    <3>3. QED
      BY <3>1, <3>2, Zenon
  <2>2. QED
    BY <1>2, <2>1, SMT
<1>3. QED
  BY <1>1, <1>2, OneDecides, Zenon

\* Which entries match once the registers are settled.
LEMMA Matching ==
    ASSUME Settled, NEW a \in Nat
    PROVE  /\ Matches(0, a) <=> In(a, FLASH)
           /\ Matches(3, a) <=> In(a, SRAM)
           /\ \A k \in 1 .. 5 :
                 Matches(StackEntry[k], a) <=> Stacks[k] # active /\ In(a, StackOf(Stacks[k]))
<1>1. /\ pmpcfg[0].mode = "Napot" /\ pmpaddr[0] = Napot(FLASH)
      /\ pmpcfg[3].mode = "Napot" /\ pmpaddr[3] = Napot(SRAM)
  BY SMT DEF Settled, Done, FlashCall, SramCall, Call, Config
<1>2. ASSUME NEW k \in 1 .. 5
      PROVE  IF Stacks[k] = active THEN pmpcfg[StackEntry[k]].mode = "Off"
             ELSE /\ pmpcfg[StackEntry[k]].mode = "Napot"
                  /\ pmpaddr[StackEntry[k]] = Napot(StackOf(Stacks[k]))
  BY <1>2, SMT DEF Settled, Done, Opens, Closes, Call, Config, NoAccess, Off
<1>3. Region(Napot(FLASH)) = FLASH /\ Region(Napot(SRAM)) = SRAM
  BY MemoryRegions, Zenon
<1>4. \A k \in 1 .. 5 : Region(Napot(StackOf(Stacks[k]))) = StackOf(Stacks[k])
  <2>1. \A k \in 1 .. 5 : Stacks[k] \in Name
    BY PmpAssumption, SMT DEF Name
  <2>2. QED
    BY <2>1, StackRegion, Zenon
<1>5. \A e : Matches(e, a) <=> pmpcfg[e].mode = "Napot" /\ In(a, Region(pmpaddr[e]))
  BY Zenon DEF Matches, In
<1>6. Matches(0, a) <=> In(a, FLASH)
  BY <1>1, <1>3, <1>5, Zenon
<1>7. Matches(3, a) <=> In(a, SRAM)
  BY <1>1, <1>3, <1>5, Zenon
<1>8. ASSUME NEW k \in 1 .. 5
      PROVE  Matches(StackEntry[k], a) <=> Stacks[k] # active /\ In(a, StackOf(Stacks[k]))
  <2>1. CASE Stacks[k] = active
    BY <1>2, <1>5, <2>1
  <2>2. CASE Stacks[k] # active
    BY <1>2, <1>4, <1>5, <2>2, Zenon
  <2>3. QED
    BY <2>1, <2>2, Zenon
<1>9. QED
  BY <1>6, <1>7, <1>8, Zenon

\* Every address of the active task's stack is decided by the SRAM's entry.
LEMMA OwnStack ==
    ASSUME Settled, active \in Name, NEW a \in Nat, In(a, StackOf(active))
    PROVE  Allowed(a) = {"r", "w"}
<1>1. PICK k \in 1 .. 5 : Stacks[k] = active
  BY PmpAssumption, SMT DEF Name
<1>2. /\ In(a, SRAM) /\ ~In(a, FLASH)
      /\ \A l \in 1 .. 5 : In(a, StackOf(Stacks[l])) => l = k
  BY <1>1, Layout, Zenon
<1>3. /\ Matches(3, a) /\ ~Matches(0, a)
      /\ \A l \in 1 .. 5 : ~Matches(StackEntry[l], a)
  BY <1>1, <1>2, Matching, Zenon
<1>4. 3 \in Entry /\ \A f \in Entry : f < 3 => ~Matches(f, a)
  <2>1. 3 \in Entry /\ \A f \in Entry : f < 3 => f # 3
    BY SMT DEF Entry
  <2>2. QED
    BY <1>3, <2>1, EntryFacts
<1>5. Allowed(a) = pmpcfg[3].perms
  BY <1>3, <1>4, OneDecides, Zenon
<1>6. pmpcfg[3].perms = {"r", "w"}
  BY SMT DEF Settled, Done, SramCall, Call, Config
<1>7. QED
  BY <1>5, <1>6, Zenon

\* Every address of a stack with entry 1 or 2 is decided by that entry, unless
\* the stack is the active task's.
LEMMA EarlyStack ==
    ASSUME Settled, NEW k \in {1, 2}, Stacks[k] # active, NEW a \in Nat, In(a, StackOf(Stacks[k]))
    PROVE  Allowed(a) = {}
<1>1. k \in 1 .. 5 /\ StackEntry[k] = k /\ k \in Entry
  BY EntryFacts, SMT DEF Entry
<1>2. /\ ~In(a, FLASH)
      /\ \A l \in 1 .. 5 : In(a, StackOf(Stacks[l])) => l = k
  BY <1>1, Layout, Zenon
<1>3. /\ ~Matches(0, a)
      /\ Matches(StackEntry[k], a)
      /\ \A l \in 1 .. 5 : Matches(StackEntry[l], a) => l = k
  BY <1>1, <1>2, Matching, Zenon
<1>4. \A f \in Entry : f < k => ~Matches(f, a)
  <2>1. \A f \in Entry : f < k => f # 3 /\ f # k
    BY SMT DEF Entry
  <2>2. QED
    BY <1>1, <1>3, <2>1, EntryFacts
<1>5. Allowed(a) = pmpcfg[k].perms
  BY <1>1, <1>3, <1>4, OneDecides, Zenon
<1>6. Done(Closes(k))
  BY <1>1, Zenon DEF Settled
<1>7. pmpcfg[k].perms = {}
  BY <1>1, <1>6, SMT DEF Done, Closes, Call, NoAccess, Config
<1>8. QED
  BY <1>5, <1>7, Zenon

\* The entry of a stack is that of its place in the table.
LEMMA EntriesOfStacks ==
    /\ Name = {Stacks[k] : k \in 1 .. 5}
    /\ \A k \in 1 .. 5 : /\ Stacks[k] \in Name
                         /\ EntryOf(Stacks[k]) = StackEntry[k]
                         /\ StackBase[Stacks[k]] \in Nat
                         /\ (CHOOSE n \in Name : EntryOf(n) = StackEntry[k]) = Stacks[k]
<1>1. DOMAIN Stacks = 1 .. 5
  BY PmpAssumption, Zenon
<1>2. \A k, l \in 1 .. 5 : Stacks[k] = Stacks[l] => k = l
  BY PmpAssumption, <1>1, Zenon
<1>3. Name = {Stacks[k] : k \in 1 .. 5}
  BY <1>1, Zenon DEF Name
<1>4. ASSUME NEW k \in 1 .. 5 PROVE EntryOf(Stacks[k]) = StackEntry[k]
  <2>1. (CHOOSE l \in 1 .. 5 : Stacks[l] = Stacks[k]) = k
    BY <1>2, Zenon
  <2>2. QED
    BY <1>1, <2>1, Zenon DEF EntryOf
<1>5. ASSUME NEW k \in 1 .. 5
      PROVE  (CHOOSE n \in Name : EntryOf(n) = StackEntry[k]) = Stacks[k]
  <2>1. \A n \in Name : EntryOf(n) = StackEntry[k] => n = Stacks[k]
    <3> SUFFICES ASSUME NEW n \in Name, EntryOf(n) = StackEntry[k] PROVE n = Stacks[k]
      BY Zenon
    <3>1. PICK l \in 1 .. 5 : n = Stacks[l]
      BY <1>3, Zenon
    <3>2. StackEntry[l] = StackEntry[k]
      BY <1>4, <3>1, Zenon
    <3>3. QED
      BY <3>1, <3>2, EntryFacts, Zenon
  <2>2. Stacks[k] \in Name /\ EntryOf(Stacks[k]) = StackEntry[k]
    BY <1>3, <1>4, Zenon
  <2>3. QED
    BY <2>1, <2>2, Zenon
<1>6. \A n \in Name : StackBase[n] \in Nat
  BY PmpAssumption, Zenon
<1>7. QED
  BY <1>3, <1>4, <1>5, <1>6, Zenon

\* The first and the last byte of a stack are addresses of it.
LEMMA EndsInside ==
    ASSUME NEW k \in 1 .. 5, NEW a \in Ends(StackOf(Stacks[k]))
    PROVE  a \in Nat /\ In(a, StackOf(Stacks[k]))
<1>1. StackBase[Stacks[k]] \in Nat
  BY EntriesOfStacks, Zenon
<1>2. QED
  BY <1>1, SMT DEF Ends, In, StackOf, STACK_SIZE

-----------------------------------------------------------------------------
(* Theorems                                                                 *)

\* The inductive invariant holds throughout.
LEMMA PmpInvariant == Spec => []PInv
<1>1. Init => PInv
  BY PmpInit, Zenon
<1>2. PInv /\ [Next]_vars => PInv'
  BY PmpStep, Zenon
<1>3. QED
  BY <1>1, <1>2, PTL DEF Spec

\* Every address configure_pmp writes fits its register, and every
\* configuration byte is one of the four the code writes.
THEOREM PmpTypes == Spec => []TypeOK
<1>1. PInv => TypeOK
  <2> SUFFICES ASSUME Types PROVE TypeOK
    BY Zenon DEF PInv
  <2>1. ASSUME NEW c \in {FlashCall.config, SramCall.config, NoAccess, Off}
        PROVE  c.perms \subseteq {"r", "w", "x"} /\ c.mode \in {"Off", "Napot"}
    BY <2>1, SMT DEF FlashCall, SramCall, Call, Config, NoAccess, Off
  <2>2. \A e \in Entry : /\ pmpaddr[e] \in 0 .. 2 ^ 30 - 1
                         /\ pmpcfg[e] \in {FlashCall.config, SramCall.config, NoAccess, Off}
    BY Zenon DEF Types
  <2>3. half \in BOOLEAN /\ active \in Name \cup {Idle}
    BY DEF Types
  <2>4. QED
    BY <2>1, <2>2, <2>3, SMT DEF TypeOK
<1>2. QED
  BY <1>1, PmpInvariant, PTL

\* Wherever the linker puts the five stacks, the task that runs next can read
\* and write the whole of its own stack (Spec => []OwnStackOpen speaks of its
\* two ends, lemma OwnStack of all of it).
THEOREM ActiveStackUsable ==
    Spec => [](/\ OwnStackOpen
               /\ InUser /\ active \in Name =>
                     \A a \in Nat : In(a, StackOf(active)) => Allowed(a) = {"r", "w"})
<1> DEFINE Whole == InUser /\ active \in Name =>
                       \A a \in Nat : In(a, StackOf(active)) => Allowed(a) = {"r", "w"}
<1>1. PInv => Whole
  BY SettledInUser, OwnStack, Zenon
<1>2. Whole => OwnStackOpen
  <2> SUFFICES ASSUME Whole, InUser, active \in Name, NEW a \in Ends(StackOf(active))
               PROVE  Allowed(a) = {"r", "w"}
    BY Zenon DEF OwnStackOpen
  <2>1. PICK k \in 1 .. 5 : active = Stacks[k]
    BY EntriesOfStacks, Zenon
  <2>2. a \in Nat /\ In(a, StackOf(active))
    BY <2>1, EndsInside, Zenon
  <2>3. QED
    BY <2>2, Zenon
<1>3. PInv => OwnStackOpen /\ Whole
  BY <1>1, <1>2, Zenon
<1>4. QED
  BY <1>3, PmpInvariant, PTL

\* Every entry in use covers the flash, the SRAM or one whole stack, and not a
\* byte more: the value configure_pmp computes is decoded to the region asked
\* for, wherever the stacks are.
THEOREM EntriesExact == Spec => []RegionsExact
<1>1. PInv => RegionsExact
  <2> SUFFICES ASSUME Settled, NEW e \in Entry, pmpcfg[e].mode = "Napot"
               PROVE  Region(pmpaddr[e]) =
                         CASE e = 0 -> FLASH
                           [] e = 3 -> SRAM
                           [] OTHER -> StackOf(CHOOSE n \in Name : EntryOf(n) = e)
    BY SettledInUser, Zenon DEF RegionsExact
  <2>1. CASE e = 0
    <3>1. pmpaddr[0] = Napot(FLASH)
      BY SMT DEF Settled, Done, FlashCall, Call
    <3>2. Region(pmpaddr[e]) = FLASH
      BY <2>1, <3>1, MemoryRegions, Zenon
    <3>3. QED
      BY <2>1, <3>2, SMT
  <2>2. CASE e = 3
    <3>1. pmpaddr[3] = Napot(SRAM)
      BY SMT DEF Settled, Done, SramCall, Call
    <3>2. Region(pmpaddr[e]) = SRAM
      BY <2>2, <3>1, MemoryRegions, Zenon
    <3>3. 3 # 0
      BY SMT
    <3>4. QED
      BY <2>2, <3>2, <3>3, SMT
  <2>3. ASSUME NEW k \in 1 .. 5, e = StackEntry[k], e # 0, e # 3
        PROVE  Region(pmpaddr[e]) = StackOf(CHOOSE n \in Name : EntryOf(n) = e)
    <3>1. Done(IF Stacks[k] = active THEN Opens(k) ELSE Closes(k))
      BY Zenon DEF Settled
    <3>2. Stacks[k] # active
      BY <2>3, <3>1, SMT DEF Done, Opens, Off, Config, Call
    <3>3. pmpaddr[e] = Napot(StackOf(Stacks[k]))
      BY <2>3, <3>1, <3>2, SMT DEF Done, Closes, Call
    <3>4. Region(pmpaddr[e]) = StackOf(Stacks[k])
      BY <3>3, StackRegion, EntriesOfStacks, Zenon
    <3>5. QED
      BY <2>3, <3>4, EntriesOfStacks, Zenon
  <2>4. CASE e # 0 /\ e # 3
    <3>1. PICK k \in 1 .. 5 : e = StackEntry[k]
      BY <2>4, EntryFacts, Zenon
    <3>2. Region(pmpaddr[e]) = StackOf(CHOOSE n \in Name : EntryOf(n) = e)
      BY <2>3, <2>4, <3>1, Zenon
    <3>3. QED
      BY <2>4, <3>2, Zenon
  <2>5. QED
    BY <2>1, <2>2, <2>4, Zenon
<1>2. QED
  BY <1>1, PmpInvariant, PTL

\* The stacks with entries 1 and 2 are out of reach of every other task, with
\* all their addresses.
THEOREM EarlyStacksUnreachable ==
    Spec => [](/\ EarlyStacksBlocked
               /\ InUser => \A k \in {1, 2} : Stacks[k] # active =>
                     \A a \in Nat : In(a, StackOf(Stacks[k])) => Allowed(a) = {})
<1> DEFINE Whole == InUser => \A k \in {1, 2} : Stacks[k] # active =>
                       \A a \in Nat : In(a, StackOf(Stacks[k])) => Allowed(a) = {}
<1>1. PInv => Whole
  BY SettledInUser, EarlyStack, Zenon
<1>2. Whole => EarlyStacksBlocked
  <2> SUFFICES ASSUME Whole, InUser, NEW n \in Name \ {active}, EntryOf(n) < 3,
                      NEW a \in Ends(StackOf(n))
               PROVE  Allowed(a) = {}
    BY Zenon DEF EarlyStacksBlocked
  <2>1. PICK k \in 1 .. 5 : n = Stacks[k]
    BY EntriesOfStacks, Zenon
  <2>2. StackEntry[k] < 3
    BY <2>1, EntriesOfStacks, Zenon
  <2>3. k \in {1, 2}
    BY <2>2, EntryFacts, SMT
  <2>4. a \in Nat /\ In(a, StackOf(Stacks[k]))
    BY <2>1, EndsInside, Zenon
  <2>5. QED
    BY <2>1, <2>3, <2>4, Zenon
<1>3. PInv => EarlyStacksBlocked /\ Whole
  BY <1>1, <1>2, Zenon
<1>4. QED
  BY <1>3, PmpInvariant, PTL

\* Nothing is both writable and executable, at any address and also while the
\* entries are being rewritten.
THEOREM NothingWritableRuns ==
    Spec => [](WriteXorExecute /\ \A a \in Nat : ~({"w", "x"} \subseteq Allowed(a)))
<1>1. PInv => WriteXorExecute /\ \A a \in Nat : ~({"w", "x"} \subseteq Allowed(a))
  BY WriteOrExecute, Zenon DEF PInv, WriteXorExecute
<1>2. QED
  BY <1>1, PmpInvariant, PTL

=============================================================================
