---------------------------- MODULE SigningProofs ----------------------------
(***************************************************************************)
(* Proofs that a signing operation signs each owner name exactly once,     *)
(* finds its own status in the ring buffer and never gets stuck, for any   *)
(* zones, any number of owners and threads, and any room in the channel    *)
(* and the buffer.                                                         *)
(***************************************************************************)
EXTENDS Signing, TLAPS

Sizes == MaxOwners \in Nat /\ MaxTasks \in Nat \ {0} /\ ParallelFrom \in Nat

(***************************************************************************)
(* The division of n owners over threads.                                  *)
(***************************************************************************)

Workers(n) == 0 .. Parallelism(n) - 1

\* The first owner of thread i, and the first one after its owners.
Lo(i, n) == i * ChunkSize(n)
Hi(i, n) == IF IsLast(i, n) THEN n ELSE (i + 1) * ChunkSize(n)

(* The chunks fit, the threads are threads. *)
LEMMA ChunksFit ==
  ASSUME Sizes, NEW n \in Nat
  PROVE  /\ Parallelism(n) \in 1 .. MaxTasks
         /\ Workers(n) \subseteq Thread
         /\ ChunkSize(n) \in Nat
         /\ Parallelism(n) * ChunkSize(n) <= n
<1>1. Parallelism(n) \in 1 .. MaxTasks
  BY DEF Sizes, Parallelism, Least
<1>2. ChunkSize(n) \in Nat /\ Parallelism(n) * ChunkSize(n) <= n
  <2> DEFINE p == Parallelism(n)
  <2>1. p \in Nat \ {0}
    BY <1>1 DEF Sizes
  <2> HIDE DEF p
  <2>2. n \div p \in Nat /\ p * (n \div p) <= n
    BY <2>1
  <2> QED BY <2>2 DEF p, ChunkSize
<1> QED BY <1>1, <1>2 DEF Workers, Thread, Sizes

(* Multiples are in order. *)
LEMMA Multiples ==
  ASSUME NEW a \in Nat, NEW b \in Nat, NEW c \in Nat, a <= b
  PROVE  a * c \in Nat /\ b * c \in Nat /\ a * c <= b * c
  OBVIOUS

(* Each thread has a range of owners, and the ranges follow each other. *)
LEMMA Ranges ==
  ASSUME Sizes, NEW n \in Nat
  PROVE  /\ \A i \in Workers(n) : /\ Lo(i, n) \in Nat /\ Hi(i, n) \in Nat
                                  /\ Lo(i, n) <= Hi(i, n) /\ Hi(i, n) <= n
         /\ \A i, j \in Workers(n) : i < j => Hi(i, n) <= Lo(j, n)
<1> DEFINE p == Parallelism(n)
           c == ChunkSize(n)
<1>1. p \in Nat \ {0} /\ c \in Nat /\ p * c <= n
  BY ChunksFit DEF Sizes
<1>2. ASSUME NEW i \in Workers(n)
      PROVE  /\ i \in Nat /\ i + 1 <= p
             /\ Lo(i, n) = i * c
             /\ Hi(i, n) = IF i = p - 1 THEN n ELSE (i + 1) * c
  BY <1>1 DEF Workers, Lo, Hi, IsLast
<1> HIDE DEF p, c
<1>3. ASSUME NEW i \in Workers(n)
      PROVE  /\ Lo(i, n) \in Nat /\ Hi(i, n) \in Nat
             /\ Lo(i, n) <= Hi(i, n) /\ Hi(i, n) <= n
  <2>1. i * c \in Nat /\ (i + 1) * c \in Nat /\ i * c <= (i + 1) * c /\ (i + 1) * c <= p * c
    BY <1>1, <1>2, Multiples
  <2>2. p * c \in Nat
    BY <1>1, Multiples
  <2> QED BY <1>1, <1>2, <2>1, <2>2
<1>4. ASSUME NEW i \in Workers(n), NEW j \in Workers(n), i < j
      PROVE  Hi(i, n) <= Lo(j, n)
  <2>1. i + 1 <= j /\ i # p - 1 /\ i + 1 \in Nat /\ j \in Nat
    BY <1>1, <1>2, <1>4
  <2>2. (i + 1) * c <= j * c
    BY <1>1, <2>1, Multiples
  <2> QED BY <1>2, <2>1, <2>2
<1> QED BY <1>3, <1>4

(* Every owner is in the range of some thread: the last one takes what is over. *)
LEMMA Covered ==
  ASSUME Sizes, NEW n \in Nat, NEW o \in 0 .. n - 1
  PROVE  \E i \in Workers(n) : Lo(i, n) <= o /\ o < Hi(i, n)
<1> DEFINE p == Parallelism(n)
           c == ChunkSize(n)
<1>1. p \in Nat \ {0} /\ c \in Nat
  BY ChunksFit DEF Sizes
<1>2. \A i \in Workers(n) : /\ Lo(i, n) = i * c
                            /\ Hi(i, n) = IF i = p - 1 THEN n ELSE (i + 1) * c
  BY DEF Lo, Hi, IsLast
<1>3. Workers(n) = 0 .. p - 1
  BY DEF Workers
<1> HIDE DEF p, c
<1>4. CASE (p - 1) * c <= o
  <2>1. p - 1 \in Workers(n)
    BY <1>1, <1>3
  <2> QED BY <1>2, <1>4, <2>1
<1>5. CASE o < (p - 1) * c
  <2>1. c # 0
    BY <1>1, <1>5
  <2> DEFINE i == o \div c
  <2>2. i \in Nat /\ i * c <= o /\ o < (i + 1) * c
    BY <1>1, <2>1
  <2> HIDE DEF i
  <2>3. i < p - 1
    <3>1. SUFFICES ASSUME p - 1 <= i PROVE FALSE
      BY <1>1, <2>2
    <3>2. (p - 1) * c <= i * c
      BY <1>1, <2>2, <3>1, Multiples
    <3> QED BY <1>1, <1>5, <2>2, <3>2
  <2>4. i \in Workers(n) /\ i # p - 1
    BY <1>1, <1>3, <2>2, <2>3
  <2> QED BY <1>2, <2>2, <2>4
<1>6. (p - 1) * c \in Int
  BY <1>1
<1> QED BY <1>4, <1>5, <1>6

(* A thread that is not done with its chunk has an owner of its own left. *)
LEMMA DoneAtTheEnd ==
  ASSUME Sizes, NEW n \in Nat, NEW i \in Workers(n), NEW k \in Nat,
         Lo(i, n) <= k, k <= Hi(i, n)
  PROVE  ChunkDone(i, k, n) <=> k = Hi(i, n)
<1>1. Hi(i, n) \in Nat /\ Hi(i, n) <= n
  BY Ranges
<1> QED BY <1>1 DEF ChunkDone, Hi

(***************************************************************************)
(* The invariant.                                                          *)
(***************************************************************************)

Working == stage \in {"sign", "store", "finish"}

WorkTypes ==
  /\ stage \in Stages
  /\ owners \in 0 .. MaxOwners
  /\ threads \in [Thread -> [at : {"sign", "send", "done"}, next : Nat]]
  /\ channel \in Seq(Owner)
  /\ stored \in [Owner -> Nat]
  /\ ok \in BOOLEAN

\* Every thread is within its range, and those that have none are done.
InRange ==
  Working =>
    /\ \A i \in Workers(owners) :
         /\ threads[i].at # "done" => /\ Lo(i, owners) <= threads[i].next
                                      /\ threads[i].next <= Hi(i, owners)
         /\ threads[i].at = "send" => threads[i].next < Hi(i, owners)
    /\ \A i \in Thread \ Workers(owners) : threads[i].at = "done"

StagesInTurn ==
  /\ stage \in {"store", "finish"} => Signed /\ ok
  /\ ~ Working \/ stage = "finish" => channel = <<>>
  /\ ~ Working => stored = Nothing

\* The owners whose signatures were sent, those under way among them.
UpTo(i) == IF threads[i].at = "done" THEN Hi(i, owners) ELSE threads[i].next
Sent(o) == \E i \in Workers(owners) : Lo(i, owners) <= o /\ o < UpTo(i)
InChannel(o) == \E k \in 1 .. Len(channel) : channel[k] = o

\* What is in the channel or stored was sent, once; while no thread has failed, all
\* that was sent is in the one or the other.
SentOnce ==
  Working =>
    /\ \A j, k \in 1 .. Len(channel) : channel[j] = channel[k] => j = k
    /\ \A o \in Owner : /\ stored[o] \in {0, 1}
                        /\ InChannel(o) => stored[o] = 0
                        /\ InChannel(o) \/ stored[o] = 1 => Sent(o)
                        /\ ok /\ Sent(o) => InChannel(o) \/ stored[o] = 1

SignInv == WorkTypes /\ InRange /\ StagesInTurn /\ SentOnce /\ SignedExactlyOnce

LEMMA InitInv == ASSUME Sizes, Init PROVE SignInv
BY DEF Sizes, Init, SignInv, WorkTypes, InRange, StagesInTurn, SentOnce, SignedExactlyOnce,
       Working, Stages, NoThreads, Nothing, Owner

(* Outside of the three stages that work on the records little can be wrong. *)
LEMMA NotWorking ==
  ASSUME SignInv, ~ Working, ~ Working', stage' \in Stages, owners' \in 0 .. MaxOwners,
         UNCHANGED <<threads, channel, stored, ok, committed>>
  PROVE  SignInv'
  BY DEF SignInv, WorkTypes, InRange, StagesInTurn, SentOnce, SignedExactlyOnce, Working

LEMMA OpenInv == ASSUME Sizes, SignInv, Open PROVE SignInv'
<1>1. /\ stage = "open" /\ stage' = "sign" /\ ok' = TRUE
      /\ UNCHANGED <<zone, owners, channel, stored, locked, committed>>
      /\ threads' = [i \in Thread |-> IF i < Parallelism(owners)
                                      THEN [at |-> "sign", next |-> i * ChunkSize(owners)]
                                      ELSE [at |-> "done", next |-> 0]]
  BY DEF Open
<1>2. ~ Working /\ Working' /\ channel = <<>> /\ stored = Nothing
  BY <1>1 DEF Working, SignInv, StagesInTurn
<1>3. owners \in Nat /\ owners' = owners
  BY <1>1 DEF Sizes, SignInv, WorkTypes
<1>4. Workers(owners) \subseteq Thread /\ Parallelism(owners) \in 1 .. MaxTasks
  BY <1>3, ChunksFit
<1>5. \A i \in Workers(owners) : threads'[i] = [at |-> "sign", next |-> Lo(i, owners)]
  BY <1>1, <1>4 DEF Workers, Lo
<1>6. \A i \in Thread \ Workers(owners) : threads'[i] = [at |-> "done", next |-> 0]
  BY <1>1, <1>4 DEF Workers, Thread, Sizes
<1>13. \A i \in Workers(owners) : /\ Lo(i, owners) \in Nat /\ Hi(i, owners) \in Nat
                                  /\ Lo(i, owners) <= Hi(i, owners)
  BY <1>3, Ranges
<1>7. threads' \in [Thread -> [at : {"sign", "send", "done"}, next : Nat]]
  <2>1. \A i \in Thread : threads'[i] \in [at : {"sign", "send", "done"}, next : Nat]
    <3> TAKE i \in Thread
    <3>1. CASE i \in Workers(owners)
      <4>1. threads'[i] = [at |-> "sign", next |-> Lo(i, owners)]
        BY <1>5, <3>1
      <4>2. Lo(i, owners) \in Nat
        BY <1>13, <3>1
      <4> QED BY <4>1, <4>2
    <3>2. CASE i \notin Workers(owners)
      BY <1>6, <3>2
    <3> QED BY <3>1, <3>2
  <2> QED BY <1>1, <2>1
<1>8. WorkTypes'
  BY <1>1, <1>7 DEF SignInv, WorkTypes, Stages
<1>9. InRange'
  <2>1. \A i \in Workers(owners) : /\ Lo(i, owners) <= threads'[i].next
                                   /\ threads'[i].next <= Hi(i, owners)
                                   /\ threads'[i].at # "send"
    <3> TAKE i \in Workers(owners)
    <3>1. threads'[i] = [at |-> "sign", next |-> Lo(i, owners)]
      BY <1>5
    <3>2. Lo(i, owners) \in Nat /\ Hi(i, owners) \in Nat /\ Lo(i, owners) <= Hi(i, owners)
      BY <1>13
    <3> QED BY <3>1, <3>2
  <2>2. \A i \in Thread \ Workers(owners) : threads'[i].at = "done"
    BY <1>6
  <2> QED BY <1>3, <2>1, <2>2 DEF InRange
<1>10. StagesInTurn'
  BY <1>1, <1>2 DEF StagesInTurn, Working
<1>11. \A o \in Owner : ~ Sent(o)'
  <2> SUFFICES ASSUME NEW o \in Owner, NEW i \in Workers(owners),
                      Lo(i, owners) <= o, o < UpTo(i)'
               PROVE  FALSE
    BY <1>3 DEF Sent
  <2>1. UpTo(i)' = Lo(i, owners) /\ Lo(i, owners) \in Nat /\ o \in Int
    <3>1. threads'[i] = [at |-> "sign", next |-> Lo(i, owners)] /\ Lo(i, owners) \in Nat
      BY <1>5, <1>13
    <3>2. o \in Int
      BY DEF Sizes, Owner
    <3> QED BY <1>3, <3>1, <3>2 DEF UpTo
  <2> QED BY <2>1
<1>12. SentOnce'
  <2>1. channel' = <<>> /\ \A o \in Owner : stored'[o] = 0
    BY <1>1, <1>2 DEF Nothing
  <2>2. \A o \in Owner : ~ InChannel(o)'
    BY <2>1 DEF InChannel
  <2> QED BY <1>11, <2>1, <2>2 DEF SentOnce
<1> QED BY <1>1, <1>8, <1>9, <1>10, <1>12 DEF SignInv, SignedExactlyOnce

LEMMA SignStep == ASSUME Sizes, SignInv, NEW i \in Thread, Sign(i) PROVE SignInv'
<1>1. /\ stage = "sign" /\ threads[i].at = "sign" /\ Working /\ Working'
      /\ UNCHANGED <<stage, zone, owners, channel, stored, committed>>
  BY DEF Sign, Working
<1>2. owners \in Nat /\ threads[i].next \in Nat
  BY DEF Sizes, SignInv, WorkTypes
<1>3. i \in Workers(owners)
  BY <1>1 DEF SignInv, InRange
<1>4. /\ Lo(i, owners) <= threads[i].next /\ threads[i].next <= Hi(i, owners)
      /\ Lo(i, owners) \in Nat /\ Hi(i, owners) \in Nat
  BY <1>1, <1>2, <1>3, Ranges DEF SignInv, InRange
<1>5. \A j \in Thread \ {i} : threads'[j] = threads[j]
  BY DEF Sign, SignInv, WorkTypes
<1>6. \/ /\ threads' = [threads EXCEPT ![i] = NoThreads[i]]
         /\ ok' = ok => threads[i].next = Hi(i, owners)
      \/ /\ threads' = [threads EXCEPT ![i].at = "send"]
         /\ threads[i].next # Hi(i, owners) /\ ok' = ok
      \/ /\ threads' = [threads EXCEPT ![i] = NoThreads[i]]
         /\ ok' = FALSE
  <2>1. ChunkDone(i, threads[i].next, owners) <=> threads[i].next = Hi(i, owners)
    BY <1>2, <1>3, <1>4, DoneAtTheEnd
  <2> QED BY <2>1 DEF Sign
<1>7. ok' \in BOOLEAN
  BY DEF Sign, SignInv, WorkTypes
<1>8. CASE threads' = [threads EXCEPT ![i] = NoThreads[i]]
  <2>1. threads'[i] = [at |-> "done", next |-> 0]
    BY <1>8 DEF SignInv, WorkTypes, NoThreads
  <2>2. threads' \in [Thread -> [at : {"sign", "send", "done"}, next : Nat]]
    BY <1>8 DEF SignInv, WorkTypes, NoThreads
  <2>3. WorkTypes' /\ StagesInTurn'
    BY <1>1, <1>7, <2>2 DEF SignInv, WorkTypes, StagesInTurn, Working
  <2>4. InRange'
    BY <1>1, <1>2, <1>5, <2>1, ChunksFit DEF SignInv, InRange
  <2>5. ASSUME ok' PROVE SentOnce'
    <3>1. ok' = ok /\ UpTo(i)' = UpTo(i)
      <4>1. ok' = ok /\ threads[i].next = Hi(i, owners)
        <5>1. threads'[i].at # "send"
          BY <2>1
        <5>2. threads' # [threads EXCEPT ![i].at = "send"]
          BY <5>1 DEF SignInv, WorkTypes
        <5>3. ok' # FALSE
          BY <2>5
        <5>4. ok' = ok
          BY <5>2, <5>3 DEF Sign, SignInv, WorkTypes
        <5> QED BY <1>6, <5>2, <5>3, <5>4
      <4> QED BY <1>1, <2>1, <4>1 DEF UpTo
    <3>2. \A j \in Workers(owners) : UpTo(j)' = UpTo(j)
      BY <1>1, <1>2, <1>5, <3>1, ChunksFit DEF UpTo
    <3>3. \A o \in Owner : (Sent(o)' <=> Sent(o)) /\ (InChannel(o)' <=> InChannel(o))
      BY <1>1, <3>2 DEF Sent, InChannel
    <3> QED BY <1>1, <3>1, <3>3 DEF SignInv, SentOnce
  <2>6. ASSUME ~ ok' PROVE SentOnce'
    <3>1. UpTo(i) <= UpTo(i)' /\ UpTo(i) \in Nat /\ UpTo(i)' \in Nat
      BY <1>1, <1>2, <1>4, <2>1 DEF UpTo
    <3>2. \A j \in Workers(owners) \ {i} : UpTo(j)' = UpTo(j)
      BY <1>1, <1>2, <1>5, ChunksFit DEF UpTo
    <3>3. ASSUME NEW o \in Owner, Sent(o) PROVE Sent(o)'
      <4>1. PICK j \in Workers(owners) : Lo(j, owners) <= o /\ o < UpTo(j)
        BY <3>3 DEF Sent
      <4>2. o \in Int
        BY DEF Owner, Sizes
      <4>3. o < UpTo(j)'
        BY <3>1, <3>2, <4>1, <4>2
      <4> QED BY <1>1, <4>1, <4>3 DEF Sent
    <3>4. \A o \in Owner : InChannel(o)' <=> InChannel(o)
      BY <1>1 DEF InChannel
    <3> QED BY <1>1, <2>6, <3>3, <3>4 DEF SignInv, SentOnce
  <2> QED BY <1>1, <2>3, <2>4, <2>5, <2>6 DEF SignInv, SignedExactlyOnce
<1>9. CASE /\ threads' = [threads EXCEPT ![i].at = "send"]
           /\ threads[i].next # Hi(i, owners) /\ ok' = ok
  <2>1. threads'[i] = [at |-> "send", next |-> threads[i].next]
    BY <1>9 DEF SignInv, WorkTypes
  <2>2. threads' \in [Thread -> [at : {"sign", "send", "done"}, next : Nat]]
    BY <1>9 DEF SignInv, WorkTypes
  <2>3. WorkTypes' /\ StagesInTurn'
    BY <1>1, <1>7, <2>2 DEF SignInv, WorkTypes, StagesInTurn, Working
  <2>4. InRange'
    BY <1>1, <1>2, <1>4, <1>5, <1>9, <2>1 DEF SignInv, InRange
  <2>5. \A j \in Workers(owners) : UpTo(j)' = UpTo(j)
    BY <1>1, <1>2, <1>5, <2>1, ChunksFit DEF UpTo
  <2>6. \A o \in Owner : (Sent(o)' <=> Sent(o)) /\ (InChannel(o)' <=> InChannel(o))
    BY <1>1, <2>5 DEF Sent, InChannel
  <2>7. SentOnce'
    BY <1>1, <1>9, <2>6 DEF SignInv, SentOnce
  <2> QED BY <1>1, <2>3, <2>4, <2>7 DEF SignInv, SignedExactlyOnce
<1> QED BY <1>6, <1>8, <1>9

(* Only one thread has an owner in its range. *)
LEMMA NotSentYet ==
  ASSUME Sizes, SignInv, Working, NEW i \in Workers(owners), threads[i].at = "send"
  PROVE  ~ Sent(threads[i].next)
<1> DEFINE o == threads[i].next
<1>1. owners \in Nat
  BY DEF Sizes, SignInv, WorkTypes
<1>2. i \in Thread /\ o \in Nat /\ UpTo(i) = o
  BY <1>1, ChunksFit DEF SignInv, WorkTypes, UpTo
<1>3. Lo(i, owners) <= o /\ o < Hi(i, owners)
  BY DEF SignInv, InRange
<1> SUFFICES ASSUME NEW j \in Workers(owners), Lo(j, owners) <= o, o < UpTo(j)
             PROVE  FALSE
  BY DEF Sent
<1>4. Lo(i, owners) \in Nat /\ Hi(i, owners) \in Nat /\ Lo(j, owners) \in Nat
      /\ Hi(j, owners) \in Nat
  BY <1>1, Ranges
<1>5. i \in Int /\ j \in Int
  BY <1>1, ChunksFit DEF Workers
<1>6. j \in Thread /\ threads[j].next \in Nat
  BY <1>1, ChunksFit DEF SignInv, WorkTypes
<1>7. UpTo(j) <= Hi(j, owners)
  BY <1>4 DEF SignInv, InRange, UpTo
<1>8. UpTo(j) \in Nat
  BY <1>4, <1>6 DEF UpTo
<1> HIDE DEF o
<1>9. CASE j = i
  BY <1>2, <1>9
<1>10. CASE j < i
  <2>1. Hi(j, owners) <= Lo(i, owners)
    BY <1>1, <1>10, Ranges
  <2> QED BY <1>2, <1>3, <1>4, <1>7, <1>8, <2>1
<1>11. CASE i < j
  <2>1. Hi(i, owners) <= Lo(j, owners)
    BY <1>1, <1>11, Ranges
  <2> QED BY <1>2, <1>3, <1>4, <2>1
<1> QED BY <1>5, <1>9, <1>10, <1>11

LEMMA Appended ==
  ASSUME NEW S, NEW c \in Seq(S), NEW o \in S
  PROVE  /\ Append(c, o) \in Seq(S)
         /\ Len(Append(c, o)) = Len(c) + 1
         /\ \A k \in 1 .. Len(c) : Append(c, o)[k] = c[k]
         /\ Append(c, o)[Len(c) + 1] = o
  OBVIOUS

LEMMA SendInv == ASSUME Sizes, SignInv, NEW i \in Thread, Send(i) PROVE SignInv'
<1> DEFINE o == threads[i].next
<1>1. /\ stage = "sign" /\ threads[i].at = "send" /\ Working /\ Working'
      /\ channel' = Append(channel, o)
      /\ threads' = [threads EXCEPT ![i] = [at |-> "sign", next |-> @.next + 1]]
      /\ UNCHANGED <<stage, zone, owners, stored, ok, committed>>
  BY DEF Send, Working
<1>2. owners \in Nat /\ owners <= MaxOwners /\ o \in Nat /\ MaxOwners \in Nat
  BY DEF Sizes, SignInv, WorkTypes
<1>3. i \in Workers(owners)
  BY <1>1 DEF SignInv, InRange
<1>4. /\ Lo(i, owners) <= o /\ o < Hi(i, owners) /\ Hi(i, owners) <= owners
      /\ Lo(i, owners) \in Nat /\ Hi(i, owners) \in Nat
  BY <1>1, <1>2, <1>3, Ranges DEF SignInv, InRange
<1>5. o \in Owner
  BY <1>2, <1>4 DEF Owner
<1>6. /\ threads'[i] = [at |-> "sign", next |-> o + 1]
      /\ \A j \in Thread \ {i} : threads'[j] = threads[j]
      /\ threads' \in [Thread -> [at : {"sign", "send", "done"}, next : Nat]]
  BY <1>1, <1>2 DEF SignInv, WorkTypes
<1>7. ~ Sent(o)
  BY <1>1, <1>3, NotSentYet
<1>8. channel \in Seq(Owner)
  BY DEF SignInv, WorkTypes
<1> HIDE DEF o
<1>9. /\ channel' \in Seq(Owner) /\ Len(channel') = Len(channel) + 1 /\ Len(channel) \in Nat
      /\ \A k \in 1 .. Len(channel) : channel'[k] = channel[k]
      /\ channel'[Len(channel) + 1] = o
  BY <1>1, <1>5, <1>8, Appended
<1>10. WorkTypes' /\ StagesInTurn'
  BY <1>1, <1>6, <1>9 DEF SignInv, WorkTypes, StagesInTurn, Working
<1>11. InRange'
  <2>1. \A j \in Workers(owners) : j \in Thread
    BY <1>2, ChunksFit
  <2>2. Lo(i, owners) <= threads'[i].next /\ threads'[i].next <= Hi(i, owners)
        /\ threads'[i].at = "sign"
    BY <1>2, <1>4, <1>6
  <2> QED BY <1>1, <1>3, <1>6, <2>1, <2>2 DEF SignInv, InRange
<1>12. \A p \in Owner : InChannel(p)' <=> InChannel(p) \/ p = o
  <2> TAKE p \in Owner
  <2>1. ASSUME InChannel(p) PROVE InChannel(p)'
    <3>1. PICK k \in 1 .. Len(channel) : channel[k] = p
      BY <2>1 DEF InChannel
    <3>2. k \in 1 .. Len(channel') /\ channel'[k] = p
      BY <1>9, <3>1
    <3> QED BY <3>2 DEF InChannel
  <2>2. ASSUME p = o PROVE InChannel(p)'
    <3>1. Len(channel) + 1 \in 1 .. Len(channel')
      BY <1>9
    <3> QED BY <1>9, <2>2, <3>1 DEF InChannel
  <2>3. ASSUME InChannel(p)', p # o PROVE InChannel(p)
    <3>1. PICK k \in 1 .. Len(channel') : channel'[k] = p
      BY <2>3 DEF InChannel
    <3>2. k \in 1 .. Len(channel)
      BY <1>9, <2>3, <3>1
    <3> QED BY <1>9, <3>1, <3>2 DEF InChannel
  <2> QED BY <2>1, <2>2, <2>3
<1>13. \A p \in Owner : Sent(p)' <=> Sent(p) \/ p = o
  <2> TAKE p \in Owner
  <2>1. p \in Int
    BY <1>2 DEF Owner
  <2>2. UpTo(i) = o /\ UpTo(i)' = o + 1
    BY <1>1, <1>6 DEF UpTo, o
  <2>3. \A j \in Workers(owners) \ {i} : UpTo(j)' = UpTo(j)
    BY <1>1, <1>2, <1>6, ChunksFit DEF UpTo
  <2>4. Workers(owners)' = Workers(owners) /\ \A j : Lo(j, owners)' = Lo(j, owners)
    BY <1>1
  <2>5. ASSUME p = o PROVE Sent(p)'
    BY <1>1, <1>2, <1>3, <1>4, <2>2, <2>5 DEF Sent
  <2>6. ASSUME Sent(p) PROVE Sent(p)'
    <3>1. PICK j \in Workers(owners) : Lo(j, owners) <= p /\ p < UpTo(j)
      BY <2>6 DEF Sent
    <3>2. p < UpTo(j)'
      BY <1>2, <2>1, <2>2, <2>3, <3>1
    <3> QED BY <1>1, <3>1, <3>2 DEF Sent
  <2>7. ASSUME Sent(p)', p # o PROVE Sent(p)
    <3>1. PICK j \in Workers(owners) : Lo(j, owners) <= p /\ p < UpTo(j)'
      BY <1>1, <2>7 DEF Sent
    <3>2. p < UpTo(j)
      BY <1>2, <2>1, <2>2, <2>3, <2>7, <3>1
    <3> QED BY <3>1, <3>2 DEF Sent
  <2> QED BY <2>5, <2>6, <2>7
<1>14. SentOnce'
  <2>1. ~ InChannel(o) /\ stored[o] # 1
    BY <1>1, <1>5, <1>7 DEF SignInv, SentOnce
  <2>2. \A j, k \in 1 .. Len(channel') : channel'[j] = channel'[k] => j = k
    <3> SUFFICES ASSUME NEW j \in 1 .. Len(channel'), NEW k \in 1 .. Len(channel'),
                        channel'[j] = channel'[k], j # k
                 PROVE  FALSE
      OBVIOUS
    <3>1. CASE j \in 1 .. Len(channel) /\ k \in 1 .. Len(channel)
      BY <1>1, <1>9, <3>1 DEF SignInv, SentOnce
    <3>2. CASE j = Len(channel) + 1 /\ k \in 1 .. Len(channel)
      BY <1>9, <2>1, <3>2 DEF InChannel
    <3>3. CASE k = Len(channel) + 1 /\ j \in 1 .. Len(channel)
      BY <1>9, <2>1, <3>3 DEF InChannel
    <3> QED BY <1>9, <3>1, <3>2, <3>3
  <2>3. \A p \in Owner : /\ stored'[p] \in {0, 1}
                         /\ InChannel(p)' => stored'[p] = 0
                         /\ InChannel(p)' \/ stored'[p] = 1 => Sent(p)'
                         /\ ok' /\ Sent(p)' => InChannel(p)' \/ stored'[p] = 1
    BY <1>1, <1>12, <1>13, <2>1 DEF SignInv, SentOnce
  <2> QED BY <2>2, <2>3 DEF SentOnce
<1> QED BY <1>1, <1>10, <1>11, <1>14 DEF SignInv, SignedExactlyOnce

LEMMA Tailed ==
  ASSUME NEW S, NEW c \in Seq(S), c # <<>>
  PROVE  /\ Tail(c) \in Seq(S) /\ Head(c) \in S /\ Head(c) = c[1]
         /\ Len(c) \in Nat /\ Len(c) > 0 /\ Len(Tail(c)) = Len(c) - 1
         /\ \A k \in 1 .. Len(c) - 1 : Tail(c)[k] = c[k + 1]
  OBVIOUS

LEMMA StoreInv == ASSUME Sizes, SignInv, Store PROVE SignInv'
<1> DEFINE h == Head(channel)
<1>1. /\ channel # <<>> /\ channel' = Tail(channel)
      /\ stored' = [stored EXCEPT ![h] = @ + 1]
      /\ UNCHANGED <<stage, zone, owners, threads, ok, committed>>
  BY DEF Store
<1>2. channel \in Seq(Owner) /\ stored \in [Owner -> Nat]
  BY DEF SignInv, WorkTypes
<1>3. /\ channel' \in Seq(Owner) /\ h \in Owner /\ h = channel[1]
      /\ Len(channel) \in Nat /\ Len(channel) > 0 /\ Len(channel') = Len(channel) - 1
      /\ \A k \in 1 .. Len(channel) - 1 : channel'[k] = channel[k + 1]
  BY <1>1, <1>2, Tailed
<1> HIDE DEF h
<1>4. Working /\ stage # "finish"
  BY <1>1 DEF SignInv, StagesInTurn
<1>5. WorkTypes'
  BY <1>1, <1>2, <1>3 DEF SignInv, WorkTypes
<1>6. InRange'
  BY <1>1 DEF SignInv, InRange, Working
<1>7. StagesInTurn'
  BY <1>1, <1>4 DEF SignInv, StagesInTurn, Working, Signed
<1>8. \A o \in Owner : Sent(o)' <=> Sent(o)
  BY <1>1 DEF Sent, UpTo
<1>9. SentOnce'
  <2>1. \A j, k \in 1 .. Len(channel) : channel[j] = channel[k] => j = k
    BY <1>4 DEF SignInv, SentOnce
  <2>2. \A j, k \in 1 .. Len(channel') : channel'[j] = channel'[k] => j = k
    <3> SUFFICES ASSUME NEW j \in 1 .. Len(channel'), NEW k \in 1 .. Len(channel'),
                        channel'[j] = channel'[k]
                 PROVE  j = k
      OBVIOUS
    <3>1. channel[j + 1] = channel[k + 1] /\ j + 1 \in 1 .. Len(channel)
          /\ k + 1 \in 1 .. Len(channel)
      BY <1>3
    <3>2. j + 1 = k + 1
      BY <2>1, <3>1
    <3> QED BY <1>3, <3>2
  <2>3. InChannel(h)
    BY <1>3 DEF InChannel
  <2>4. \A k \in 1 .. Len(channel') : channel'[k] # h
    <3> SUFFICES ASSUME NEW k \in 1 .. Len(channel'), channel'[k] = h PROVE FALSE
      OBVIOUS
    <3>1. channel[k + 1] = channel[1] /\ k + 1 \in 1 .. Len(channel) /\ 1 \in 1 .. Len(channel)
          /\ k + 1 # 1
      BY <1>3
    <3> QED BY <2>1, <3>1
  <2>5. \A o \in Owner \ {h} : InChannel(o)' <=> InChannel(o)
    <3> TAKE o \in Owner \ {h}
    <3>1. ASSUME InChannel(o) PROVE InChannel(o)'
      <4>1. PICK k \in 1 .. Len(channel) : channel[k] = o
        BY <3>1 DEF InChannel
      <4>2. k - 1 \in 1 .. Len(channel')
        BY <1>3, <4>1
      <4>3. channel'[k - 1] = o
        BY <1>3, <4>1, <4>2
      <4> QED BY <4>2, <4>3 DEF InChannel
    <3>2. ASSUME InChannel(o)' PROVE InChannel(o)
      <4>1. PICK k \in 1 .. Len(channel') : channel'[k] = o
        BY <3>2 DEF InChannel
      <4>2. k + 1 \in 1 .. Len(channel) /\ channel[k + 1] = o
        BY <1>3, <4>1
      <4> QED BY <4>2 DEF InChannel
    <3> QED BY <3>1, <3>2
  <2>6. stored[h] = 0 /\ Sent(h)
    BY <1>3, <1>4, <2>3 DEF SignInv, SentOnce
  <2>7. stored'[h] = 1 /\ \A o \in Owner \ {h} : stored'[o] = stored[o]
    BY <1>1, <1>2, <1>3, <2>6
  <2>8. \A o \in Owner : /\ stored'[o] \in {0, 1}
                         /\ InChannel(o)' => stored'[o] = 0
                         /\ InChannel(o)' \/ stored'[o] = 1 => Sent(o)'
                         /\ ok' /\ Sent(o)' => InChannel(o)' \/ stored'[o] = 1
    <3> TAKE o \in Owner
    <3>1. CASE o = h
      <4>1. ~ InChannel(o)'
        BY <2>4, <3>1 DEF InChannel
      <4>2. Sent(o)
        BY <2>6, <3>1
      <4> QED BY <1>8, <2>7, <3>1, <4>1, <4>2
    <3>2. CASE o # h
      BY <1>1, <1>4, <1>8, <2>5, <2>7, <3>2 DEF SignInv, SentOnce
    <3> QED BY <3>1, <3>2
  <2> QED BY <2>2, <2>8 DEF SentOnce
<1> QED BY <1>1, <1>5, <1>6, <1>7, <1>9 DEF SignInv, SignedExactlyOnce

LEMMA JoinedInv == ASSUME Sizes, SignInv, Joined PROVE SignInv'
<1>1. stage = "sign" /\ Signed /\ Working /\ UNCHANGED <<threads, ok, committed>>
  BY DEF Joined, Working
<1>2. CASE ok
  <2>1. stage' = "store" /\ UNCHANGED <<owners, channel, stored>>
    BY <1>2 DEF Joined
  <2>2. WorkTypes' /\ InRange'
    BY <1>1, <2>1 DEF SignInv, WorkTypes, InRange, Working, Stages
  <2>3. StagesInTurn'
    BY <1>1, <1>2, <2>1 DEF StagesInTurn, Working, Signed
  <2>4. \A o \in Owner : (Sent(o)' <=> Sent(o)) /\ (InChannel(o)' <=> InChannel(o))
    BY <1>1, <2>1 DEF Sent, UpTo, InChannel
  <2>5. SentOnce'
    BY <1>1, <1>2, <2>1, <2>4 DEF SignInv, SentOnce
  <2> QED BY <1>1, <2>2, <2>3, <2>5 DEF SignInv, SignedExactlyOnce
<1>3. CASE ~ ok
  <2>1. stage' = "idle" /\ owners' = 0 /\ channel' = <<>> /\ stored' = Nothing /\ ~ Working'
    BY <1>3 DEF Joined, Working
  <2>2. WorkTypes'
    BY <1>1, <2>1 DEF Sizes, SignInv, WorkTypes, Stages, Nothing
  <2> QED BY <1>1, <2>1, <2>2
       DEF SignInv, InRange, StagesInTurn, SentOnce, SignedExactlyOnce, Working
<1> QED BY <1>2, <1>3

LEMMA StoredInv == ASSUME Sizes, SignInv, Stored PROVE SignInv'
<1>1. /\ stage = "store" /\ stage' = "finish" /\ channel = <<>> /\ Working /\ Working'
      /\ UNCHANGED <<owners, threads, channel, stored, ok, committed>>
  BY DEF Stored, work, Working
<1>2. \A o \in Owner : (Sent(o)' <=> Sent(o)) /\ (InChannel(o)' <=> InChannel(o))
  BY <1>1 DEF Sent, UpTo, InChannel
<1>3. SentOnce'
  BY <1>1, <1>2 DEF SignInv, SentOnce
<1> QED BY <1>1, <1>3
     DEF SignInv, WorkTypes, Stages, InRange, StagesInTurn, Signed, SignedExactlyOnce

LEMMA CommitInv == ASSUME Sizes, SignInv, Commit PROVE SignInv'
<1>1. /\ stage = "finish" /\ stage' = "idle" /\ owners' = 0 /\ stored' = Nothing
      /\ committed' = {stored[o] : o \in 0 .. owners - 1}
      /\ UNCHANGED <<threads, channel, ok>> /\ Working /\ ~ Working'
  BY DEF Commit, Working
<1>2. Signed /\ ok /\ channel = <<>> /\ owners \in Nat /\ owners <= MaxOwners
      /\ MaxOwners \in Nat
  BY <1>1 DEF Sizes, SignInv, StagesInTurn, WorkTypes
<1>3. ASSUME NEW o \in 0 .. owners - 1 PROVE stored[o] = 1
  <2>1. o \in Owner
    BY <1>2 DEF Owner
  <2>2. PICK i \in Workers(owners) : Lo(i, owners) <= o /\ o < Hi(i, owners)
    BY <1>2, Covered
  <2>3. UpTo(i) = Hi(i, owners)
    BY <1>2, <2>2, ChunksFit DEF UpTo, Signed
  <2>4. Sent(o)
    BY <2>2, <2>3 DEF Sent
  <2>5. ~ InChannel(o)
    BY <1>2 DEF InChannel
  <2> QED BY <1>1, <1>2, <2>1, <2>4, <2>5 DEF SignInv, SentOnce
<1>4. committed' \subseteq {1}
  BY <1>1, <1>3
<1>5. WorkTypes'
  BY <1>1 DEF Sizes, SignInv, WorkTypes, Stages, Nothing
<1> QED BY <1>1, <1>2, <1>4, <1>5
     DEF SignInv, InRange, StagesInTurn, SentOnce, SignedExactlyOnce, Working

LEMMA StepInv == ASSUME Sizes, SignInv, [Next]_vars PROVE SignInv'
<1>1. ASSUME NEW z \in Zones, Request(z) PROVE SignInv'
  BY <1>1, NotWorking DEF Request, Working, Stages, SignInv, WorkTypes
<1>2. ASSUME NEW z \in Zones, Abandoned(z) PROVE SignInv'
  <2>1. UNCHANGED <<stage, owners, threads, channel, stored, ok, committed>>
    BY <1>2 DEF Abandoned
  <2> QED BY <2>1 DEF SignInv, WorkTypes, InRange, StagesInTurn, SentOnce, SignedExactlyOnce,
                      Working, Signed, Sent, UpTo, InChannel
<1>3. CASE Fail
  BY <1>3, NotWorking DEF Fail, Working, Stages, Sizes
<1>4. CASE Begin \/ LoadKeys \/ Sort \/ Deny \/ Split
  <2>1. UNCHANGED <<owners, threads, channel, stored, ok, committed>>
        /\ ~ Working /\ ~ Working' /\ stage' \in Stages
    BY <1>4 DEF Begin, LoadKeys, Sort, Deny, Split, work, Working, Stages
  <2>2. owners' \in 0 .. MaxOwners
    BY <2>1 DEF SignInv, WorkTypes
  <2> QED BY <2>1, <2>2, NotWorking
<1>5. CASE Walk
  BY <1>5, NotWorking DEF Walk, Working, Stages
<1>6. CASE Open
  BY <1>6, OpenInv
<1>7. ASSUME NEW i \in Thread, Sign(i) \/ Send(i) PROVE SignInv'
  BY <1>7, SignStep, SendInv
<1>8. CASE Store
  BY <1>8, StoreInv
<1>9. CASE Joined
  BY <1>9, JoinedInv
<1>10. CASE Stored
  BY <1>10, StoredInv
<1>11. CASE Commit
  BY <1>11, CommitInv
<1>12. CASE UNCHANGED vars
  BY <1>12 DEF vars, SignInv, WorkTypes, InRange, StagesInTurn, SentOnce, SignedExactlyOnce,
               Working, Signed, Sent, UpTo, InChannel
<1> QED BY <1>1, <1>2, <1>3, <1>4, <1>5, <1>6, <1>7, <1>8, <1>9, <1>10, <1>11, <1>12 DEF Next

(* However the owner names of a version are divided over threads, in whatever order *)
(* these run, and however the channel fills up: each owner of a version that is     *)
(* committed was signed by exactly one thread, and stored once.                     *)
THEOREM EachOwnerSignedOnce == ASSUME Sizes PROVE Spec => []SignedExactlyOnce
<1>1. Init => SignInv
  BY InitInv
<1>2. SignInv /\ [Next]_vars => SignInv'
  BY StepInv
<1>3. SignInv => SignedExactlyOnce
  BY DEF SignInv
<1> QED BY <1>1, <1>2, <1>3, PTL DEF Spec

(***************************************************************************)
(* The statuses: the newest entry of the buffer is that of the operation   *)
(* under way, whatever earlier ones left behind.                           *)
(***************************************************************************)

Rooms == ChannelCap \in Nat /\ HistoryCap \in Nat \ {0}

HistoryTypes ==
  /\ zone \in Zones
  /\ locked \subseteq Zones
  /\ history \in Seq(Entry)
  /\ Len(history) <= HistoryCap

StatusAt(s)     == IF s = "requested" THEN "requested" ELSE "progress"
FiguresSoFar(s) == IF s = "requested" THEN {} ELSE FiguresAt(s)

\* The entry that an operation has when it comes to a stage.
LastEntry(s) ==
  /\ Len(history) > 0
  /\ history[Len(history)].zone = zone
  /\ history[Len(history)].status = StatusAt(s)
  /\ history[Len(history)].figures = FiguresSoFar(s)

HistoryInv == HistoryTypes /\ (stage # "idle" => LastEntry(stage))

LEMMA InitHistory == ASSUME Rooms, Init PROVE HistoryInv
BY DEF Rooms, Init, HistoryInv, HistoryTypes

(* The newest entry of all is the newest of its zone. *)
LEMMA NewestOfAll ==
  ASSUME NEW z, history \in Seq(Entry), Len(history) > 0, history[Len(history)].zone = z
  PROVE  Entries(z) # {} /\ EntryOf(z) = Len(history)
<1>1. Len(history) \in Nat /\ DOMAIN history = 1 .. Len(history)
  OBVIOUS
<1>2. Len(history) \in Entries(z) /\ \A j \in Entries(z) : j \in Nat /\ Len(history) >= j
  BY <1>1 DEF Entries
<1>3. \A k \in Entries(z) : (\A j \in Entries(z) : k >= j) => k = Len(history)
  BY <1>1, <1>2
<1> QED BY <1>2, <1>3 DEF EntryOf

\* A buffer whose entry k was changed.
Changed(h, k, to, figures) == [h EXCEPT ![k].status = to, ![k].figures = @ \cup figures]

LEMMA Sequence ==
  ASSUME NEW S, NEW n \in Nat, NEW g \in [1 .. n -> S]
  PROVE  g \in Seq(S) /\ Len(g) = n
OBVIOUS

LEMMA ChangedEntry ==
  ASSUME NEW h \in Seq(Entry), NEW n \in 1 .. Len(h), NEW to \in Status,
         NEW figures \in SUBSET Figures
  PROVE  /\ Changed(h, n, to, figures) \in Seq(Entry)
         /\ Len(Changed(h, n, to, figures)) = Len(h)
         /\ Changed(h, n, to, figures)[n].zone = h[n].zone
         /\ Changed(h, n, to, figures)[n].status = to
         /\ Changed(h, n, to, figures)[n].figures = h[n].figures \cup figures
<1> DEFINE g == Changed(h, n, to, figures)
<1>1. DOMAIN h = 1 .. Len(h) /\ Len(h) \in Nat /\ h \in [1 .. Len(h) -> Entry]
  OBVIOUS
<1>2. h[n] \in Entry
  BY <1>1
<1>3. h[n].zone \in Zones /\ h[n].figures \in SUBSET Figures
  BY <1>2 DEF Entry
<1> DEFINE f == [h EXCEPT ![n].status = to]
<1>4. f[n] = [zone |-> h[n].zone, status |-> to, figures |-> h[n].figures]
      /\ f \in [1 .. Len(h) -> Entry] /\ \A k \in 1 .. Len(h) : k # n => f[k] = h[k]
  BY <1>1, <1>2 DEF Entry
<1>5. g = [f EXCEPT ![n].figures = h[n].figures \cup figures]
  BY <1>1 DEF Changed
<1> HIDE DEF f, g
<1>6. f[n] \in Entry
  BY <1>4
<1>7. g[n] = [f[n] EXCEPT !.figures = h[n].figures \cup figures]
      /\ DOMAIN g = 1 .. Len(h) /\ \A k \in 1 .. Len(h) : k # n => g[k] = f[k]
  BY <1>4, <1>5
<1>8. /\ g[n] \in Entry /\ g[n].zone = h[n].zone /\ g[n].status = to
      /\ g[n].figures = h[n].figures \cup figures
  <2> DEFINE union == h[n].figures \cup figures
  <2>1. union \in SUBSET Figures /\ g[n] = [f[n] EXCEPT !.figures = union]
    BY <1>3, <1>7
  <2> HIDE DEF union
  <2>2. /\ g[n] \in Entry /\ g[n].zone = f[n].zone /\ g[n].status = f[n].status
        /\ g[n].figures = union
    BY <1>6, <2>1 DEF Entry
  <2> QED BY <1>4, <2>2 DEF union
<1>9. g \in [1 .. Len(h) -> Entry]
  BY <1>4, <1>5, <1>7, <1>8
<1>10. g \in Seq(Entry) /\ Len(g) = Len(h)
  <2> DEFINE m == Len(h)
  <2>1. m \in Nat /\ g \in [1 .. m -> Entry]
    BY <1>1, <1>9
  <2> HIDE DEF m
  <2>2. g \in Seq(Entry) /\ Len(g) = m
    BY ONLY <2>1, Sequence, Zenon
  <2> QED BY <2>2 DEF m
<1> QED BY <1>8, <1>10 DEF g

(* A change of the status of the operation under way is one of the newest entry. *)
LEMMA ChangedLast ==
  ASSUME HistoryTypes, NEW s \in Stages, LastEntry(s), NEW to \in Status,
         NEW figures \in SUBSET Figures, Change(zone, StatusAt(s), to, figures)
  PROVE  /\ history' \in Seq(Entry) /\ Len(history') = Len(history)
         /\ history'[Len(history)].zone = zone
         /\ history'[Len(history)].status = to
         /\ history'[Len(history)].figures = FiguresSoFar(s) \cup figures
<1> DEFINE n == Len(history)
<1>1. /\ history \in Seq(Entry) /\ n \in Nat /\ n > 0 /\ n \in 1 .. Len(history)
      /\ history[n].zone = zone /\ history[n].status = StatusAt(s)
      /\ history[n].figures = FiguresSoFar(s)
  BY DEF HistoryTypes, LastEntry
<1>2. Entries(zone) # {} /\ EntryOf(zone) = n
  BY <1>1, NewestOfAll
<1>3. history' = Changed(history, n, to, figures)
  BY <1>1, <1>2 DEF Change, Changed
<1> HIDE DEF n
<1>4. /\ Changed(history, n, to, figures) \in Seq(Entry)
      /\ Len(Changed(history, n, to, figures)) = Len(history)
      /\ Changed(history, n, to, figures)[n].zone = history[n].zone
      /\ Changed(history, n, to, figures)[n].status = to
      /\ Changed(history, n, to, figures)[n].figures = history[n].figures \cup figures
  BY <1>1, ChangedEntry
<1> QED BY <1>1, <1>3, <1>4 DEF n

(* So is a request, whether the buffer was full or not. *)
LEMMA RequestHistory ==
  ASSUME Rooms, HistoryInv, NEW z \in Zones, Request(z) PROVE HistoryInv'
<1> DEFINE new == [zone |-> z, status |-> "requested", figures |-> {}]
           old == IF Len(history) = HistoryCap THEN Tail(history) ELSE history
<1>1. stage' = "requested" /\ zone' = z /\ history' = Append(old, new) /\ locked' = locked
  BY DEF Request, Enqueued
<1>2. history \in Seq(Entry) /\ Len(history) \in Nat /\ Len(history) <= HistoryCap
      /\ HistoryCap \in Nat /\ HistoryCap > 0
  BY DEF HistoryInv, HistoryTypes, Rooms
<1>3. new \in Entry
  BY DEF Entry, Status
<1>4. old \in Seq(Entry) /\ Len(old) \in Nat /\ Len(old) < HistoryCap
  <2>1. CASE Len(history) = HistoryCap
    <3>1. history # <<>>
      BY <1>2, <2>1
    <3>2. Tail(history) \in Seq(Entry) /\ Len(Tail(history)) = Len(history) - 1
      BY <1>2, <3>1
    <3> QED BY <1>2, <2>1, <3>2
  <2>2. CASE Len(history) # HistoryCap
    BY <1>2, <2>2
  <2> QED BY <2>1, <2>2
<1> HIDE DEF old, new
<1>5. history' \in Seq(Entry) /\ Len(history') = Len(old) + 1 /\ history'[Len(old) + 1] = new
  BY <1>1, <1>3, <1>4
<1>6. Len(history') > 0 /\ Len(history') <= HistoryCap /\ history'[Len(history')] = new
  BY <1>2, <1>4, <1>5
<1>7. new.zone = z /\ new.status = "requested" /\ new.figures = {}
  BY DEF new
<1> QED BY <1>1, <1>5, <1>6, <1>7 DEF HistoryInv, HistoryTypes, LastEntry, StatusAt, FiguresSoFar

LEMMA StepHistory == ASSUME Rooms, SignInv, HistoryInv, [Next]_vars PROVE HistoryInv'
<1>0. /\ HistoryTypes /\ stage \in Stages
      /\ stage # "idle" => LastEntry(stage)
  BY DEF HistoryInv, SignInv, WorkTypes
<1>1. ASSUME NEW z \in Zones, Request(z) PROVE HistoryInv'
  BY <1>1, RequestHistory
<1>2. ASSUME NEW z \in Zones, Abandoned(z) PROVE HistoryInv'
  BY <1>2 DEF Abandoned, HistoryInv, HistoryTypes, LastEntry
<1>3. CASE Fail
  BY <1>3 DEF Fail, HistoryInv, HistoryTypes
<1>4. ASSUME NEW to \in Status, NEW figures \in SUBSET Figures,
             stage # "idle", Change(zone, StatusAt(stage), to, figures),
             UNCHANGED <<zone, locked>>,
             stage' # "idle" => /\ to = StatusAt(stage')
                                /\ FiguresSoFar(stage') = FiguresSoFar(stage) \cup figures
      PROVE  HistoryInv'
  <2>1. LastEntry(stage)
    BY <1>0, <1>4
  <2>2. /\ history' \in Seq(Entry) /\ Len(history') = Len(history)
        /\ history'[Len(history)].zone = zone
        /\ history'[Len(history)].status = to
        /\ history'[Len(history)].figures = FiguresSoFar(stage) \cup figures
    BY <1>0, <1>4, <2>1, ChangedLast
  <2>3. HistoryTypes'
    BY <1>0, <1>4, <2>2 DEF HistoryTypes
  <2>4. ASSUME stage' # "idle" PROVE LastEntry(stage)'
    BY <1>4, <2>1, <2>2, <2>4 DEF LastEntry
  <2> QED BY <2>3, <2>4 DEF HistoryInv
<1> USE DEF StatusAt, FiguresSoFar, FiguresAt, Status, Figures
<1>5. CASE Begin
  <2>1. /\ stage = "requested" /\ Change(zone, StatusAt(stage), "progress", {})
        /\ stage' = "walk" /\ UNCHANGED <<zone, locked>>
    BY <1>5 DEF Begin, StartStatus, work
  <2> QED BY <1>4, <2>1
<1>6. CASE Walk
  <2>1. /\ stage = "walk" /\ Change(zone, StatusAt(stage), "progress", {"walk"})
        /\ stage' = "keys" /\ UNCHANGED <<zone, locked>>
    BY <1>6 DEF Walk, Report
  <2> QED BY <1>4, <2>1
<1>7. CASE LoadKeys
  <2>1. stage = "keys" /\ stage' = "sort" /\ UNCHANGED <<zone, locked, history>>
    BY <1>7 DEF LoadKeys, work
  <2> QED BY <1>0, <2>1 DEF HistoryInv, HistoryTypes, LastEntry
<1>8. CASE Sort
  <2>1. /\ stage = "sort" /\ Change(zone, StatusAt(stage), "progress", {"sort"})
        /\ stage' = "deny" /\ UNCHANGED <<zone, locked>>
    BY <1>8 DEF Sort, Report, work
  <2> QED BY <1>4, <2>1
<1>9. CASE Deny
  <2>1. /\ stage = "deny" /\ Change(zone, StatusAt(stage), "progress", {"denial"})
        /\ stage' = "split" /\ UNCHANGED <<zone, locked>>
    BY <1>9 DEF Deny, Report, work
  <2> QED BY <1>4, <2>1
<1>10. CASE Split
  <2>1. /\ stage = "split" /\ Change(zone, StatusAt(stage), "progress", {"threads"})
        /\ stage' = "open" /\ UNCHANGED <<zone, locked>>
    BY <1>10 DEF Split, Report, work
  <2> QED BY <1>4, <2>1
<1>11. ASSUME NEW i \in Thread, Sign(i) \/ Send(i) PROVE HistoryInv'
  <2>1. UNCHANGED <<stage, zone, locked, history>>
    BY <1>11 DEF Sign, Send
  <2> QED BY <1>0, <2>1 DEF HistoryInv, HistoryTypes, LastEntry
<1>12. CASE Store
  <2>1. UNCHANGED <<stage, zone, locked, history>>
    BY <1>12 DEF Store
  <2> QED BY <1>0, <2>1 DEF HistoryInv, HistoryTypes, LastEntry
<1>13. CASE Joined
  <2>1. /\ stage = "sign" /\ stage' \in {"store", "idle"} /\ UNCHANGED <<zone, history>>
        /\ locked' \in {locked, locked \cup {zone}}
    BY <1>13 DEF Joined
  <2> QED BY <1>0, <2>1 DEF HistoryInv, HistoryTypes, LastEntry
<1>14. CASE Stored
  <2>1. /\ stage = "store" /\ Change(zone, StatusAt(stage), "progress", {"rrsig"})
        /\ stage' = "finish" /\ UNCHANGED <<zone, locked>>
    BY <1>14 DEF Stored, Report, work
  <2> QED BY <1>4, <2>1
<1>15. CASE Commit
  <2>1. /\ stage = "finish" /\ Change(zone, StatusAt(stage), "finished", {"insertion"})
        /\ stage' = "idle" /\ UNCHANGED <<zone, locked>>
    BY <1>15 DEF Commit, FinishStatus
  <2> QED BY <1>4, <2>1
<1>16. CASE Open
  <2>1. stage = "open" /\ stage' = "sign" /\ UNCHANGED <<zone, locked, history>>
    BY <1>16 DEF Open
  <2> QED BY <1>0, <2>1 DEF HistoryInv, HistoryTypes, LastEntry
<1>17. CASE UNCHANGED vars
  BY <1>0, <1>17 DEF vars, HistoryInv, HistoryTypes, LastEntry
<1> QED BY <1>1, <1>2, <1>3, <1>5, <1>6, <1>7, <1>8, <1>9, <1>10, <1>11, <1>12, <1>13, <1>14,
           <1>15, <1>16, <1>17 DEF Next

LEMMA HistoryFollows == HistoryInv => StatusFollows
<1> SUFFICES ASSUME HistoryInv, stage # "idle" PROVE StatusFollows
  BY DEF StatusFollows
<1>1. history \in Seq(Entry) /\ LastEntry(stage)
  BY DEF HistoryInv, HistoryTypes
<1>2. Entries(zone) # {} /\ EntryOf(zone) = Len(history)
  BY <1>1, NewestOfAll DEF LastEntry
<1> QED BY <1>1, <1>2 DEF StatusFollows, LastEntry, StatusAt, FiguresSoFar

(* Whatever operations before it left in the ring buffer, the newest entry of a zone *)
(* that is being signed is that of the operation under way, with the figures of the  *)
(* stages it went through, so that finishing it finds each figure it unwraps.        *)
THEOREM NewestStatusIsCurrent ==
  ASSUME Sizes, Rooms
  PROVE  Spec => []StatusFollows
<1>1. Init => SignInv /\ HistoryInv
  BY InitInv, InitHistory
<1>2. SignInv /\ HistoryInv /\ [Next]_vars => SignInv' /\ HistoryInv'
  BY StepInv, StepHistory
<1> QED BY <1>1, <1>2, HistoryFollows, PTL DEF Spec

(***************************************************************************)
(* The types.                                                              *)
(***************************************************************************)

\* What SignInv does not say of them.
MoreTypes ==
  /\ threads \in [Thread -> [at : {"sign", "send", "done"}, next : 0 .. MaxOwners]]
  /\ Len(channel) <= ChannelCap

LEMMA InitMore == ASSUME Sizes, Rooms, Init PROVE MoreTypes
BY DEF Sizes, Rooms, Init, MoreTypes, NoThreads

LEMMA StepMore ==
  ASSUME Sizes, Rooms, SignInv, MoreTypes, [Next]_vars
  PROVE  MoreTypes'
<1>0. channel \in Seq(Owner) /\ Len(channel) \in Nat /\ owners \in 0 .. MaxOwners
      /\ MaxOwners \in Nat /\ ChannelCap \in Nat
  BY DEF Sizes, Rooms, SignInv, WorkTypes
<1>1. ASSUME NEW z \in Zones, Request(z) \/ Abandoned(z) PROVE MoreTypes'
  BY <1>1 DEF Request, Abandoned, MoreTypes
<1>2. CASE Fail \/ Begin \/ Walk \/ LoadKeys \/ Sort \/ Deny \/ Split \/ Stored \/ Commit
  BY <1>2 DEF Fail, Begin, Walk, LoadKeys, Sort, Deny, Split, Stored, Commit, work, MoreTypes
<1>3. CASE Open
  <2>1. \A i \in Workers(owners) : i * ChunkSize(owners) \in 0 .. MaxOwners
    <3> TAKE i \in Workers(owners)
    <3>1. /\ Lo(i, owners) \in Nat /\ Hi(i, owners) \in Nat
          /\ Lo(i, owners) <= Hi(i, owners) /\ Hi(i, owners) <= owners
      BY <1>0, Ranges
    <3>2. Lo(i, owners) \in 0 .. MaxOwners
      BY <1>0, <3>1
    <3> QED BY <3>2 DEF Lo
  <2>2. \A i \in Thread : i < Parallelism(owners) => i \in Workers(owners)
    BY <1>0, ChunksFit DEF Workers, Thread, Sizes
  <2>3. \A i \in Thread : i < Parallelism(owners) => i * ChunkSize(owners) \in 0 .. MaxOwners
    BY <2>1, <2>2
  <2> QED BY <1>0, <1>3, <2>3 DEF Open, MoreTypes
<1>4. ASSUME NEW i \in Thread, Sign(i) PROVE MoreTypes'
  BY <1>0, <1>4 DEF Sign, NoThreads, MoreTypes
<1>5. ASSUME NEW i \in Thread, Send(i) PROVE MoreTypes'
  <2> DEFINE o == threads[i].next
  <2>1. /\ stage = "sign" /\ threads[i].at = "send" /\ Len(channel) < ChannelCap
        /\ channel' = Append(channel, o)
        /\ threads' = [threads EXCEPT ![i] = [at |-> "sign", next |-> o + 1]]
    BY <1>5 DEF Send, MoreTypes
  <2>2. i \in Workers(owners)
    BY <2>1 DEF SignInv, InRange, Working
  <2>3. o \in Nat /\ o < Hi(i, owners) /\ Hi(i, owners) \in Nat /\ Hi(i, owners) <= owners
    BY <1>0, <2>1, <2>2, Ranges DEF SignInv, WorkTypes, InRange, Working
  <2>4. o + 1 \in 0 .. MaxOwners /\ o \in Owner
    BY <1>0, <2>3 DEF Owner
  <2> HIDE DEF o
  <2>5. Len(channel') = Len(channel) + 1
    BY <1>0, <2>1, <2>4
  <2>6. Len(channel') <= ChannelCap
    BY <1>0, <2>1, <2>5
  <2> QED BY <2>1, <2>4, <2>6 DEF MoreTypes
<1>6. CASE Store
  <2>1. threads' = threads /\ Len(channel') = Len(channel) - 1
    BY <1>0, <1>6, Tailed DEF Store
  <2>2. Len(channel') <= ChannelCap
    BY <1>0, <2>1 DEF MoreTypes
  <2> QED BY <2>1, <2>2 DEF MoreTypes
<1>7. CASE Joined
  <2>1. threads' = threads /\ channel' \in {channel, <<>>}
    BY <1>7 DEF Joined
  <2> QED BY <1>0, <2>1 DEF MoreTypes
<1>8. CASE UNCHANGED vars
  BY <1>8 DEF vars, MoreTypes
<1> QED BY <1>1, <1>2, <1>3, <1>4, <1>5, <1>6, <1>7, <1>8 DEF Next

LEMMA Typed ==
  ASSUME Sizes, SignInv, HistoryInv, MoreTypes
  PROVE  TypeOK
<1>1. stored \in [Owner -> 0 .. MaxTasks]
  <2>1. \A o \in Owner : stored[o] \in {0, 1}
    BY DEF SignInv, SentOnce, StagesInTurn, Nothing
  <2>2. 0 \in 0 .. MaxTasks /\ 1 \in 0 .. MaxTasks
    BY DEF Sizes
  <2> QED BY <2>1, <2>2 DEF SignInv, WorkTypes
<1>2. committed \subseteq 0 .. MaxTasks
  BY DEF SignInv, SignedExactlyOnce, Sizes
<1> QED BY <1>1, <1>2 DEF SignInv, WorkTypes, HistoryInv, HistoryTypes, MoreTypes, TypeOK

(* The buffer never holds more statuses than it may, nor the channel more signatures *)
(* than it has room for; and no owner is signed more than once even while a thread   *)
(* has failed.                                                                       *)
THEOREM OperationsKeepTypes == ASSUME Sizes, Rooms PROVE Spec => []TypeOK
<1> DEFINE Inv == SignInv /\ HistoryInv /\ MoreTypes
<1>1. Init => Inv
  BY InitInv, InitHistory, InitMore
<1>2. Inv /\ [Next]_vars => Inv'
  BY StepInv, StepHistory, StepMore
<1>3. Inv => TypeOK
  BY Typed
<1> QED BY <1>1, <1>2, <1>3, PTL DEF Spec

(***************************************************************************)
(* What OperationsEnd rests on: an operation under way is never stuck, and *)
(* none of its steps undoes what it has done.                              *)
(***************************************************************************)

\* What the operation, its threads and the storing tasks wait for before their next steps.
OperationReady ==
  \/ stage \in {"requested", "walk", "keys", "sort", "deny", "split", "finish"}
  \/ stage = "open" /\ zone \notin locked
  \/ stage = "sign" /\ Signed
  \/ stage = "store" /\ SendersGone /\ channel = <<>>

ThreadReady(i) ==
  stage = "sign" /\ \/ threads[i].at = "sign"
                    \/ threads[i].at = "send" /\ Len(channel) < ChannelCap

StoringReady == channel # <<>> \/ (stage = "open" /\ zone \in locked)

NobodyWaitsForGood ==
  stage # "idle" => OperationReady \/ StoringReady \/ \E i \in Thread : ThreadReady(i)

(* Threads that wait for room wait for a storing task that has something to store, and *)
(* an operation waits for a lock only while a task that was left to itself has it.     *)
LEMMA SomebodyGoesOn ==
  ASSUME Sizes, ChannelCap \in Nat \ {0}, SignInv PROVE NobodyWaitsForGood
<1> SUFFICES ASSUME stage # "idle", ~ OperationReady, ~ StoringReady,
                    \A i \in Thread : ~ ThreadReady(i)
             PROVE  FALSE
  BY DEF NobodyWaitsForGood
<1>1. channel = <<>> /\ Len(channel) = 0
  BY DEF StoringReady
<1>2. stage # "store"
  BY <1>1 DEF OperationReady, SendersGone, SignInv, StagesInTurn
<1>3. stage = "sign"
  BY <1>2 DEF OperationReady, StoringReady, SignInv, WorkTypes, Stages
<1>4. \A i \in Thread : threads[i].at \in {"sign", "send", "done"}
  BY DEF SignInv, WorkTypes
<1>5. \A i \in Thread : threads[i].at = "done"
  BY <1>1, <1>3, <1>4 DEF ThreadReady
<1> QED BY <1>3, <1>5 DEF OperationReady, Signed

(* With any number of owners and threads and a channel with any room at all, neither the *)
(* operation nor its threads nor the storing tasks wait for each other: while there is   *)
(* an operation, somebody's guards hold.                                                 *)
THEOREM OperationsAreNeverStuck ==
  ASSUME Sizes, ChannelCap \in Nat \ {0} PROVE Spec => []NobodyWaitsForGood
<1>1. Init => SignInv
  BY InitInv
<1>2. SignInv /\ [Next]_vars => SignInv'
  BY StepInv
<1>3. SignInv => NobodyWaitsForGood
  BY SomebodyGoesOn
<1> QED BY <1>1, <1>2, <1>3, PTL DEF Spec

\* How far an operation is, and how far one of its threads.
Rank(s) ==
  CASE s = "requested" -> 1 [] s = "walk" -> 2 [] s = "keys" -> 3 [] s = "sort" -> 4
    [] s = "deny" -> 5 [] s = "split" -> 6 [] s = "open" -> 7 [] s = "sign" -> 8
    [] s = "store" -> 9 [] s = "finish" -> 10

Place(t) ==
  CASE t.at = "sign" -> 2 * t.next [] t.at = "send" -> 2 * t.next + 1
    [] t.at = "done" -> 2 * MaxOwners + 2

\* The operation gets to a later stage, or one thread further; or the storing task has
\* less to store, or one that was left to itself gives its lock back.
Closer ==
  \/ Rank(stage') > Rank(stage)
  \/ /\ stage' = stage
     /\ \/ \E i \in Thread : /\ Place(threads'[i]) > Place(threads[i])
                             /\ \A j \in Thread \ {i} : threads'[j] = threads[j]
        \/ UNCHANGED threads /\ Len(channel') < Len(channel)
        \/ UNCHANGED <<threads, channel>> /\ \E z \in locked : locked' = locked \ {z}

LEMMA ThreadsAdvance ==
  ASSUME Sizes, MoreTypes, NEW i \in Thread, Sign(i) \/ Send(i)
  PROVE  Closer
<1>1. /\ threads[i] \in [at : {"sign", "send", "done"}, next : 0 .. MaxOwners]
      /\ MaxOwners \in Nat
  BY DEF MoreTypes, Sizes
<1>2. stage' = stage /\ \A j \in Thread \ {i} : threads'[j] = threads[j]
  BY DEF Sign, Send, MoreTypes
<1>3. threads[i].next \in Nat /\ MaxOwners \in Nat /\ threads[i].next <= MaxOwners
  BY <1>1
<1>4. CASE Sign(i)
  <2>1. threads[i].at = "sign"
    BY <1>4 DEF Sign
  <2>2. \/ threads'[i] = [at |-> "done", next |-> 0]
        \/ threads'[i] = [at |-> "send", next |-> threads[i].next]
    BY <1>1, <1>4, <2>1 DEF Sign, NoThreads, MoreTypes
  <2>3. Place(threads'[i]) > Place(threads[i])
    BY <1>3, <2>1, <2>2 DEF Place
  <2> QED BY <1>2, <2>3 DEF Closer
<1>5. CASE Send(i)
  <2>1. threads[i].at = "send" /\ threads'[i] = [at |-> "sign", next |-> threads[i].next + 1]
    BY <1>1, <1>5 DEF Send, MoreTypes
  <2>2. Place(threads'[i]) > Place(threads[i])
    BY <1>3, <2>1 DEF Place
  <2> QED BY <1>2, <2>2 DEF Closer
<1> QED BY <1>4, <1>5

(* No step of an operation, of its threads or of a storing task undoes what was done: it *)
(* ends the operation or brings it closer to its end.  No chunk is signed again, nothing *)
(* goes back to an earlier stage, and the stages and places of threads are bounded, so   *)
(* that an operation has a bounded number of steps, whatever fails.                      *)
THEOREM OperationsComeCloser ==
  ASSUME Sizes, Rooms
  PROVE  Spec => [][stage # "idle" => stage' = "idle" \/ Closer]_vars
<1> DEFINE Inv == SignInv /\ MoreTypes
<1>1. Init => Inv
  BY InitInv, InitMore
<1>2. Inv /\ [Next]_vars => Inv'
  BY StepInv, StepMore
<1>3. Inv /\ Next => (stage # "idle" => stage' = "idle" \/ Closer)
  <2> SUFFICES ASSUME Inv, Next, stage # "idle", stage' # "idle" PROVE Closer
    OBVIOUS
  <2>1. ASSUME NEW i \in Thread, Sign(i) \/ Send(i) PROVE Closer
    BY <2>1, ThreadsAdvance
  <2>2. CASE Store
    <3>1. Len(channel') = Len(channel) - 1 /\ Len(channel) \in Nat
      BY <2>2, Tailed DEF Store, SignInv, WorkTypes
    <3>2. Len(channel') < Len(channel)
      BY <3>1
    <3>3. UNCHANGED <<stage, threads>>
      BY <2>2 DEF Store
    <3> QED BY <3>2, <3>3 DEF Closer
  <2>3. ASSUME NEW z \in Zones, Abandoned(z) PROVE Closer
    BY <2>3 DEF Abandoned, Closer
  <2>4. CASE Begin \/ Walk \/ LoadKeys \/ Sort \/ Deny \/ Split \/ Open \/ Joined \/ Stored
    BY <2>4 DEF Begin, Walk, LoadKeys, Sort, Deny, Split, Open, Joined, Stored, Rank, Closer
  <2>5. ASSUME NEW z \in Zones, Request(z) PROVE Closer
    BY <2>5 DEF Request
  <2> QED BY <2>1, <2>2, <2>3, <2>4, <2>5 DEF Next, Fail, Commit
<1> QED BY <1>1, <1>2, <1>3, PTL DEF Spec

=============================================================================
