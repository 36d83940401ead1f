--------------------------- MODULE Weakref_proofs ---------------------------
(***************************************************************************)
(* Proofs about weak references, for any sets of threads, references and   *)
(* objects and any mix of functions.                                       *)
(***************************************************************************)
EXTENDS Weakref, SequenceTheorems, TLAPS

-----------------------------------------------------------------------------
(* No weak reference gives out a dying object *)

Places == {"idle", "check", "acquire", "wait", "use", "commit", "release"}

CallTypes == [kind : Kinds \cup {"destroy"}, self : Refs \cup {Null},
              other : Refs \cup {Null}, ob : Objs \cup {Null}]

\* The types of what the count of an object depends on.
CallInv == /\ refs \in [Objs -> SUBSET (Threads \cup {Root})]
           /\ pc \in [Threads -> Places]
           /\ op \in [Threads -> CallTypes]
           /\ \A t \in Threads : op[t].kind = "destroy" => op[t].ob \in Objs

IInv == CallInv /\ NoResurrection

\* What a function may turn into when it finds the other reference unbound.
Cleared(o) == [o EXCEPT !.kind = "clear", !.other = Null]

\* A call under way goes on, as it is or as a Dee_weakref_clear, or ends.
Continues(t) ==
    /\ pc[t] # "idle"
    /\ \E label \in Places : pc' = [pc EXCEPT ![t] = label]
    /\ \/ op' = op
       \/ op' = [op EXCEPT ![t] = Cleared(@)]
       \/ op' = [op EXCEPT ![t] = NoOp]

\* A thread that goes on where it is.
LEMMA StayContinues ==
    ASSUME CallInv, NEW t \in Threads, pc' = pc, pc[t] # "idle",
           \/ op' = op
           \/ op' = [op EXCEPT ![t] = Cleared(@)]
    PROVE  Continues(t)
<1>1. pc' = [pc EXCEPT ![t] = pc[t]] /\ pc[t] \in Places
  BY DEF CallInv
<1> QED BY <1>1 DEF Continues

\* A thread that goes to another place.
LEMMA GotoContinues ==
    ASSUME NEW t \in Threads, NEW label \in Places, Goto(t, label), pc[t] # "idle",
           \/ op' = op
           \/ op' = [op EXCEPT ![t] = Cleared(@)]
           \/ op' = [op EXCEPT ![t] = NoOp]
    PROVE  Continues(t)
BY DEF Continues, Goto

\* A function starts over.
LEMMA AgainContinues ==
    ASSUME NEW t \in Threads, pc[t] # "idle", Again(t) PROVE Continues(t)
<1>1. PICK label \in Places : Goto(t, label)
  BY DEF Places, Again, Entry
<1> QED BY <1>1, GotoContinues DEF Again

\* A function returns.
LEMMA ReturnContinues ==
    ASSUME NEW t \in Threads, pc[t] # "idle", Return(t) PROVE Continues(t)
BY GotoContinues DEF Places, Return

\* A function goes on to its stores.
LEMMA WriteContinues ==
    ASSUME NEW t \in Threads, pc[t] # "idle", NEW s, NEW label, Write(t, s, label)
    PROVE  Continues(t)
BY GotoContinues DEF Places, Write

\* A function backs off.
LEMMA BackOffContinues ==
    ASSUME NEW t \in Threads, pc[t] # "idle", NEW label, BackOff(t, label)
    PROVE  Continues(t)
BY GotoContinues DEF Places, BackOff

\* A function goes on with its plan.
LEMMA ProceedContinues ==
    ASSUME CallInv, NEW t \in Threads, pc[t] # "idle", Proceed(t)
    PROVE  Continues(t)
<1>1. \/ pc' = pc /\ op' = op
      \/ \E label : Write(t, Script(t), label)
  BY DEF Proceed, ProceedLooping
<1> QED BY <1>1, StayContinues, WriteContinues

\* A function has got a lock.
LEMMA GotContinues ==
    ASSUME CallInv, NEW t \in Threads, pc[t] # "idle", NEW what, Got(t, what)
    PROVE  Continues(t)
<1>1. \/ \E s, label : Write(t, s, label)
      \/ \E label : BackOff(t, label)
      \/ Proceed(t)
      \/ /\ Goto(t, "commit")
         /\ \/ op' = op
            \/ op' = [op EXCEPT ![t].kind = "clear", ![t].other = Null]
      \/ Goto(t, "use") /\ op' = op
  BY DEF Got
<1>2. op[t] \in CallTypes
  BY DEF CallInv
<1>3. ASSUME op' = [op EXCEPT ![t].kind = "clear", ![t].other = Null]
      PROVE  op' = [op EXCEPT ![t] = Cleared(@)]
  BY <1>2, <1>3 DEF CallInv, CallTypes, Cleared
<1> QED BY <1>1, <1>3, WriteContinues, BackOffContinues, ProceedContinues, GotoContinues DEF Places

\* Nothing but a call, the end of a call and a function that turns into another one changes
\* what a thread is in, and nothing but a call and Use the counts.
LEMMA StepContinues ==
    ASSUME CallInv, NEW t \in Threads,
           Check(t) \/ Acquire(t) \/ Waitfor(t) \/ Release(t) \/ Commit(t)
    PROVE  refs' = refs /\ Continues(t)
<1>1. CASE Check(t)
  <2>1. /\ pc[t] # "idle" /\ refs' = refs
        /\ \/ Goto(t, "acquire") /\ op' = op
           \/ op' = [op EXCEPT ![t].kind = "clear", ![t].other = Null] /\ pc' = pc
           \/ Return(t)
    BY <1>1 DEF Check
  <2>2. op' = [op EXCEPT ![t].kind = "clear", ![t].other = Null] => op' = [op EXCEPT ![t] = Cleared(@)]
    BY DEF CallInv, CallTypes, Cleared
  <2> QED BY <2>1, <2>2, GotoContinues, StayContinues, ReturnContinues DEF Places
<1>2. CASE Acquire(t)
  <2> DEFINE what == Plan[op[t].kind][stage[t]]
  <2>1. /\ pc[t] # "idle" /\ refs' = refs
        /\ Got(t, what) \/ Refused(t, what)
    BY <1>2 DEF Acquire, object
  <2>2. CASE Got(t, what)
    BY <2>1, <2>2, GotContinues
  <2>3. CASE Refused(t, what)
    <3>1. (\E label : BackOff(t, label)) \/ (\E s, label : Write(t, s, label))
      BY <2>3 DEF Refused
    <3> QED BY <2>1, <3>1, BackOffContinues, WriteContinues
  <2> QED BY <2>1, <2>2, <2>3
<1>3. CASE Waitfor(t)
  BY <1>3, AgainContinues DEF Waitfor
<1>4. CASE Release(t)
  <2>1. /\ pc[t] # "idle" /\ refs' = refs
        /\ \/ pc' = pc /\ op' = op
           \/ Return(t)
           \/ Goto(t, "wait") /\ op' = op
           \/ Again(t)
    BY <1>4 DEF Release
  <2> QED BY <2>1, StayContinues, ReturnContinues, GotoContinues, AgainContinues DEF Places
<1>5. CASE Commit(t)
  <2>1. /\ pc[t] # "idle" /\ refs' = refs
        /\ \/ pc' = pc /\ op' = op
           \/ Return(t)
           \/ Again(t)
    BY <1>5 DEF Commit
  <2> QED BY <2>1, StayContinues, ReturnContinues, AgainContinues
<1> QED BY <1>1, <1>2, <1>3, <1>4, <1>5

\* A step that goes on with a call and gives nobody a reference to an object that has
\* none left.
LEMMA ContinuesIInv ==
    ASSUME IInv, NEW t \in Threads, Continues(t),
           refs' \in [Objs -> SUBSET (Threads \cup {Root})],
           \A o \in Objs : refs[o] = {} => refs'[o] = {}
    PROVE  IInv'
<1>1. CallInv /\ NoResurrection
  BY DEF IInv
<1>2. \A u \in Threads : \/ op'[u] = op[u]
                         \/ op'[u] = Cleared(op[u])
                         \/ op'[u] = NoOp
  BY <1>1 DEF CallInv, Continues
<1>3. \A u \in Threads : op[u] \in CallTypes /\ Cleared(op[u]) \in CallTypes
  <2> SUFFICES ASSUME NEW u \in Threads
               PROVE  op[u] \in CallTypes /\ Cleared(op[u]) \in CallTypes
    OBVIOUS
  <2>1. op[u] \in CallTypes
    BY <1>1 DEF CallInv
  <2>2. Cleared(op[u]) \in CallTypes
    BY <2>1 DEF CallTypes, Cleared, Kinds
  <2> QED BY <2>1, <2>2
<1>4. NoOp \in CallTypes /\ NoOp.kind # "destroy"
  BY DEF NoOp, CallTypes, Kinds
<1>5. \A u \in Threads : Cleared(op[u]).kind # "destroy"
  BY <1>3 DEF Cleared, CallTypes
<1>6. op' \in [Threads -> CallTypes]
  BY <1>1, <1>3, <1>4 DEF CallInv, Continues
<1>7. pc' \in [Threads -> Places]
  BY <1>1 DEF CallInv, Continues
<1>8. \A u \in Threads : op'[u].kind = "destroy" => op'[u] = op[u]
  BY <1>2, <1>4, <1>5
<1>9. \A u \in Threads : pc'[u] # "idle" => pc[u] # "idle"
  BY <1>1 DEF CallInv, Continues
<1>10. CallInv'
  BY <1>1, <1>6, <1>7, <1>8 DEF CallInv
<1>11. NoResurrection'
  BY <1>1, <1>8, <1>9 DEF NoResurrection, CallInv
<1> QED BY <1>10, <1>11 DEF IInv

\* Nothing is being destroyed at first.
LEMMA InitIInv == Init => IInv
<1> SUFFICES ASSUME Init PROVE IInv
  OBVIOUS
<1>1. NoOp \in CallTypes /\ NoOp.kind = "clear"
  BY DEF NoOp, CallTypes, Kinds
<1>2. refs \in [Objs -> SUBSET (Threads \cup {Root})]
  BY DEF Init
<1>3. pc \in [Threads -> Places] /\ \A t \in Threads : pc[t] = "idle"
  BY DEF Init, Places
<1>4. op \in [Threads -> CallTypes] /\ \A t \in Threads : op[t].kind # "destroy"
  BY <1>1 DEF Init
<1> QED BY <1>2, <1>3, <1>4 DEF IInv, CallInv, NoResurrection

\* Every step keeps it so.
LEMMA NextIInv == IInv /\ [Next]_vars => IInv'
<1> SUFFICES ASSUME IInv, [Next]_vars PROVE IInv'
  OBVIOUS
<1>0. CallInv /\ NoResurrection
  BY DEF IInv
<1>1. CASE UNCHANGED vars
  BY <1>0, <1>1 DEF vars, object, IInv, CallInv, NoResurrection
<1>2. ASSUME NEW t \in Threads, NEW k \in Ops, NEW s \in Refs, NEW x \in Refs \cup {Null},
             NEW o \in Objs \cup {Null}, Call(t, k, s, x, o)
      PROVE  IInv'
  <2> DEFINE c == [kind |-> k, self |-> s, other |-> x, ob |-> o]
  <2>1. c \in CallTypes /\ c.kind # "destroy"
    BY <1>2, OpsAssumption DEF CallTypes, Kinds
  <2>2. op' = [op EXCEPT ![t] = c] /\ refs' = refs
    BY <1>2 DEF Call, Begin, object
  <2>3. PICK label \in Places : pc' = [pc EXCEPT ![t] = label]
    BY <1>2 DEF Call, Begin, Entry, Goto, Places
  <2> HIDE DEF c
  <2> QED BY <1>0, <2>1, <2>2, <2>3 DEF IInv, CallInv, NoResurrection
<1>3. ASSUME NEW t \in Threads, NEW h \in {t, Root}, NEW o \in Objs, Decref(t, h, o)
      PROVE  IInv'
  <2>1. /\ refs' = [refs EXCEPT ![o] = @ \ {h}]
        /\ refs' \in [Objs -> SUBSET (Threads \cup {Root})]
    BY <1>0, <1>3 DEF Decref, CallInv
  <2>2. CASE refs[o] = {h}
    <3> DEFINE c == [kind |-> "destroy", self |-> Null, other |-> Null, ob |-> o]
    <3>1. c \in CallTypes /\ c.ob = o
      BY DEF CallTypes
    <3>2. op' = [op EXCEPT ![t] = c]
      BY <1>3, <2>2 DEF Decref, Begin
    <3>3. PICK label \in Places : pc' = [pc EXCEPT ![t] = label]
      BY <1>3, <2>2 DEF Decref, Begin, Entry, Goto, Places
    <3>4. refs'[o] = {}
      BY <1>0, <2>1, <2>2 DEF CallInv
    <3> HIDE DEF c
    <3> QED BY <1>0, <2>1, <3>1, <3>2, <3>3, <3>4 DEF IInv, CallInv, NoResurrection
  <2>3. CASE refs[o] # {h}
    <3>1. op' = op /\ pc' = pc
      BY <1>3, <2>3 DEF Decref
    <3> QED BY <1>0, <2>1, <3>1 DEF IInv, CallInv, NoResurrection
  <2> QED BY <2>2, <2>3
<1>4. ASSUME NEW t \in Threads, Use(t) PROVE IInv'
  <2> DEFINE o == wr_obj[op[t].self]
  <2>1. /\ pc[t] # "idle" /\ BackOff(t, "return")
        /\ refs' = IF o \in {v \in Objs : refs[v] # {}}
                   THEN [refs EXCEPT ![o] = @ \cup {t}] ELSE refs
    BY <1>4 DEF Use, Incref
  <2>2. Continues(t)
    BY <2>1, BackOffContinues
  <2> HIDE DEF o
  <2>3. refs' \in [Objs -> SUBSET (Threads \cup {Root})]
    BY <1>0, <2>1 DEF CallInv
  <2>4. \A v \in Objs : refs[v] = {} => refs'[v] = {}
    BY <1>0, <2>1 DEF CallInv
  <2> QED BY <2>2, <2>3, <2>4, ContinuesIInv
<1>5. ASSUME NEW t \in Threads,
             Check(t) \/ Acquire(t) \/ Waitfor(t) \/ Release(t) \/ Commit(t)
      PROVE  IInv'
  <2>1. refs' = refs /\ Continues(t)
    BY <1>0, <1>5, StepContinues
  <2> QED BY <1>0, <2>1, ContinuesIInv DEF CallInv
<1> QED BY <1>1, <1>2, <1>3, <1>4, <1>5 DEF Next, Step

\* An object that is being destroyed is not brought back to life: DeeObject_Destroy was
\* called with the last reference gone, and Dee_weakref_lock takes a reference only while
\* there is another one.
THEOREM ResurrectionSafety == Spec => []NoResurrection
<1>1. IInv => NoResurrection
  BY DEF IInv
<1> QED BY <1>1, InitIInv, NextIInv, PTL DEF Spec

-----------------------------------------------------------------------------
(* What a sequence of stores unlocks and writes *)

\* The locations that a store writes.
Writes(s) == DOMAIN s.ptr \cup DOMAIN s.pself \cup DOMAIN s.obj

\* A store has its types, leaves behind only pointers to what is in M, and binds a
\* reference only if something points to it.
StoreOK(s, M) ==
    /\ s.unlock \in Locs \cup {Null}
    /\ DOMAIN s.ptr \subseteq Locs /\ DOMAIN s.pself \subseteq Refs /\ DOMAIN s.obj \subseteq Refs
    /\ \A l \in DOMAIN s.ptr : s.ptr[l] \in (Refs \cup {Null}) \cap M
    /\ \A r \in DOMAIN s.pself : s.pself[r] \in (Locs \cup {Null}) \cap M
    /\ \A r \in DOMAIN s.obj : s.obj[r] \in Objs \cup {Null}
    /\ \A r \in DOMAIN s.obj : s.obj[r] # Null => r \in DOMAIN s.pself /\ s.pself[r] # Null
    /\ \A r \in DOMAIN s.pself : s.pself[r] = Null => r \in DOMAIN s.obj /\ s.obj[r] = Null

\* The stores of q unlock every location of S once, and write only what is still to be
\* unlocked then, or in W.
Closes(q, S, W, M) ==
    /\ q \in Seq(Ranked(q))
    /\ \A i \in 1 .. Len(q) :
          /\ StoreOK(q[i], M)
          /\ q[i].unlock \in S \cup {Null}
          /\ \A l \in Writes(q[i]) : l \in W \/ \E j \in i .. Len(q) : q[j].unlock = l
    /\ \A l \in S : \E i \in 1 .. Len(q) : q[i].unlock = l
    /\ \A i, j \in 1 .. Len(q) : q[i].unlock = q[j].unlock => i = j \/ q[i].unlock = Null

\* A sequence is one of its own elements.
LEMMA RankedSeq == ASSUME NEW Z, NEW q \in Seq(Z) PROVE q \in Seq(Ranked(q)) /\ Ranked(q) \subseteq Z
<1>1. Len(q) \in Nat /\ q \in [1 .. Len(q) -> Z]
  OBVIOUS
<1>2. q \in [1 .. Len(q) -> Ranked(q)]
  BY <1>1 DEF Ranked
<1>3. Ranked(q) \subseteq Z
  BY <1>1 DEF Ranked
<1> QED BY <1>1, <1>2, <1>3, SeqDef

\* No stores.
LEMMA ClosesEmpty == ASSUME NEW W, NEW M PROVE Closes(<<>>, {}, W, M)
BY DEF Closes, Ranked

\* One store.
LEMMA ClosesOne ==
    ASSUME NEW s, NEW W, NEW M, StoreOK(s, M),
           \A l \in Writes(s) : l \in W \/ l = s.unlock
    PROVE  Closes(<<s>>, {s.unlock} \ {Null}, W, M)
<1>1. <<s>> \in Seq({s}) /\ Len(<<s>>) = 1 /\ <<s>>[1] = s
  OBVIOUS
<1>2. <<s>> \in Seq(Ranked(<<s>>))
  BY <1>1, RankedSeq
<1> QED BY <1>1, <1>2 DEF Closes

\* One store part after the other; the first part may write what the second unlocks.
LEMMA ClosesConcat ==
    ASSUME NEW p, NEW q, NEW S, NEW T, NEW W, NEW M,
           Closes(p, S, W \cup T, M), Closes(q, T, W, M),
           S \cap T = {}, Null \notin S \cup T
    PROVE  Closes(p \o q, S \cup T, W, M)
<1> DEFINE Z == Ranked(p) \cup Ranked(q)
           n == Len(p)
           m == Len(q)
           r == p \o q
<1>1. p \in Seq(Z) /\ q \in Seq(Z)
  BY SeqMonotonic DEF Closes
<1>2. /\ r \in Seq(Z) /\ n \in Nat /\ m \in Nat /\ Len(r) = n + m
      /\ \A i \in 1 .. n : r[i] = p[i]
      /\ \A i \in 1 .. m : r[n + i] = q[i]
  BY <1>1, ConcatProperties
<1>3. r \in Seq(Ranked(r))
  BY <1>2, RankedSeq
<1> HIDE DEF Z, n, m, r
<1>4. \A i \in 1 .. n + m : i \in 1 .. n \/ \E k \in 1 .. m : i = n + k
  <2> SUFFICES ASSUME NEW i \in 1 .. n + m, i \notin 1 .. n PROVE \E k \in 1 .. m : i = n + k
    OBVIOUS
  <2>1. i - n \in 1 .. m /\ i = n + (i - n)
    BY <1>2
  <2> QED BY <2>1
<1>5. ASSUME NEW i \in 1 .. n + m
      PROVE  /\ StoreOK(r[i], M)
             /\ r[i].unlock \in S \cup T \cup {Null}
             /\ \A l \in Writes(r[i]) : l \in W \/ \E j \in i .. n + m : r[j].unlock = l
  <2>1. CASE i \in 1 .. n
    <3>1. /\ r[i] = p[i] /\ StoreOK(p[i], M) /\ p[i].unlock \in S \cup {Null}
          /\ \A l \in Writes(p[i]) : l \in W \cup T \/ \E j \in i .. n : p[j].unlock = l
      BY <1>2, <2>1 DEF Closes, n
    <3>2. ASSUME NEW l \in Writes(p[i]), l \notin W PROVE \E j \in i .. n + m : r[j].unlock = l
      <4>1. CASE l \in T
        <5>1. PICK k \in 1 .. m : q[k].unlock = l
          BY <4>1 DEF Closes, m
        <5>2. n + k \in i .. n + m /\ r[n + k] = q[k]
          BY <1>2, <2>1
        <5> QED BY <5>1, <5>2
      <4>2. CASE l \notin T
        <5>1. PICK k \in i .. n : p[k].unlock = l
          BY <3>1, <3>2, <4>2
        <5>2. k \in i .. n + m /\ r[k] = p[k]
          BY <1>2, <2>1
        <5> QED BY <5>1, <5>2
      <4> QED BY <4>1, <4>2
    <3> QED BY <3>1, <3>2
  <2>2. ASSUME NEW k \in 1 .. m, i = n + k
        PROVE  /\ StoreOK(r[i], M)
               /\ r[i].unlock \in S \cup T \cup {Null}
               /\ \A l \in Writes(r[i]) : l \in W \/ \E j \in i .. n + m : r[j].unlock = l
    <3>1. /\ r[i] = q[k] /\ StoreOK(q[k], M) /\ q[k].unlock \in T \cup {Null}
          /\ \A l \in Writes(q[k]) : l \in W \/ \E j \in k .. m : q[j].unlock = l
      BY <1>2, <2>2 DEF Closes, m
    <3>2. ASSUME NEW j \in k .. m PROVE n + j \in i .. n + m /\ r[n + j] = q[j]
      BY <1>2, <2>2
    <3> QED BY <3>1, <3>2
  <2> QED BY <1>4, <2>1, <2>2
<1>6. ASSUME NEW l \in S \cup T PROVE \E i \in 1 .. n + m : r[i].unlock = l
  <2>1. CASE l \in S
    <3>1. PICK k \in 1 .. n : p[k].unlock = l
      BY <2>1 DEF Closes, n
    <3> QED BY <1>2, <3>1
  <2>2. CASE l \in T
    <3>1. PICK k \in 1 .. m : q[k].unlock = l
      BY <2>2 DEF Closes, m
    <3>2. n + k \in 1 .. n + m /\ r[n + k] = q[k]
      BY <1>2
    <3> QED BY <3>1, <3>2
  <2> QED BY <2>1, <2>2
<1>7. ASSUME NEW i \in 1 .. n + m, NEW j \in 1 .. n + m, r[i].unlock = r[j].unlock, r[i].unlock # Null
      PROVE  i = j
  <2>1. \A k \in 1 .. n : r[k] = p[k] /\ p[k].unlock \in S \cup {Null}
    BY <1>2 DEF Closes, n
  <2>2. \A k \in 1 .. m : r[n + k] = q[k] /\ q[k].unlock \in T \cup {Null}
    BY <1>2 DEF Closes, m
  <2>3. CASE i \in 1 .. n /\ j \in 1 .. n
    BY <1>7, <2>1, <2>3 DEF Closes, n
  <2>4. ASSUME NEW a \in 1 .. m, NEW b \in 1 .. m, i = n + a, j = n + b PROVE i = j
    BY <1>7, <2>2, <2>4 DEF Closes, m
  <2>5. ~(\E a \in 1 .. m : i = n + a /\ j \in 1 .. n)
    BY <1>7, <2>1, <2>2
  <2>6. ~(\E b \in 1 .. m : j = n + b /\ i \in 1 .. n)
    BY <1>7, <2>1, <2>2
  <2> QED BY <1>4, <2>3, <2>4, <2>5, <2>6
<1>8. Len(r) = n + m
  BY <1>2
<1>9. Closes(r, S \cup T, W, M)
  BY ONLY <1>3, <1>5, <1>6, <1>7, <1>8 DEF Closes
<1> QED BY <1>9 DEF r

\* The same for sets that are given in another form.
LEMMA ClosesThen ==
    ASSUME NEW p, NEW q, NEW S, NEW T, NEW U, NEW V, NEW W, NEW M,
           Closes(p, S, V, M), Closes(q, T, W, M), V \subseteq W \cup T,
           U = S \cup T, S \cap T = {}, Null \notin U
    PROVE  Closes(p \o q, U, W, M)
<1>1. Closes(p, S, W \cup T, M)
  BY DEF Closes
<1> QED BY <1>1, ClosesConcat

\* The first store is made.
LEMMA ClosesTail ==
    ASSUME NEW q, NEW S, NEW M, Closes(q, S, {}, M), q # <<>>, Null \notin S
    PROVE  /\ StoreOK(Head(q), M) /\ Head(q).unlock \in S \cup {Null}
           /\ Writes(Head(q)) \subseteq S
           /\ Closes(Tail(q), S \ {Head(q).unlock}, {}, M)
<1> DEFINE n == Len(q)
           r == Tail(q)
<1>1. /\ n \in Nat \ {0} /\ Head(q) = q[1] /\ r \in Seq(Ranked(q)) /\ Len(r) = n - 1
      /\ \A i \in 1 .. n - 1 : r[i] = q[i + 1]
  BY HeadTailProperties DEF Closes
<1>2. r \in Seq(Ranked(r))
  BY <1>1, RankedSeq
<1> HIDE DEF n, r
<1>3. \A i \in 1 .. n :
          /\ StoreOK(q[i], M) /\ q[i].unlock \in S \cup {Null}
          /\ \A l \in Writes(q[i]) : \E j \in i .. n : q[j].unlock = l
  BY DEF Closes, n
<1>4. \A i, j \in 1 .. n : q[i].unlock = q[j].unlock => i = j \/ q[i].unlock = Null
  BY DEF Closes, n
<1>5. \A i \in 1 .. n : Null \notin Writes(q[i])
  BY <1>3, DistinctAssumption DEF StoreOK, Writes, Locs
<1>6. ASSUME NEW i \in 1 .. n - 1
      PROVE  /\ StoreOK(r[i], M)
             /\ r[i].unlock \in (S \ {q[1].unlock}) \cup {Null}
             /\ \A l \in Writes(r[i]) : \E j \in i .. n - 1 : r[j].unlock = l
  <2>1. r[i] = q[i + 1] /\ i + 1 \in 1 .. n /\ i + 1 # 1 /\ 1 \in 1 .. n
    BY <1>1
  <2>2. q[i + 1].unlock # q[1].unlock \/ q[i + 1].unlock = Null
    BY <1>4, <2>1
  <2>3. ASSUME NEW l \in Writes(q[i + 1]) PROVE \E j \in i .. n - 1 : r[j].unlock = l
    <3>1. PICK j \in i + 1 .. n : q[j].unlock = l
      BY <1>3, <2>1
    <3>2. j - 1 \in i .. n - 1 /\ r[j - 1] = q[j]
      BY <1>1, <2>1
    <3> QED BY <3>1, <3>2
  <2> QED BY <1>3, <2>1, <2>2, <2>3
<1>7. ASSUME NEW l \in S \ {q[1].unlock} PROVE \E i \in 1 .. n - 1 : r[i].unlock = l
  <2>1. PICK j \in 1 .. n : q[j].unlock = l
    BY DEF Closes, n
  <2>2. j - 1 \in 1 .. n - 1 /\ r[j - 1] = q[j]
    BY <1>1, <1>7, <2>1
  <2> QED BY <2>1, <2>2
<1>8. ASSUME NEW i \in 1 .. n - 1, NEW j \in 1 .. n - 1, r[i].unlock = r[j].unlock, r[i].unlock # Null
      PROVE  i = j
  <2>1. r[i] = q[i + 1] /\ r[j] = q[j + 1] /\ i + 1 \in 1 .. n /\ j + 1 \in 1 .. n
    BY <1>1
  <2>2. i + 1 = j + 1
    BY <1>4, <1>8, <2>1
  <2> QED BY <2>2
<1>9. Closes(r, S \ {q[1].unlock}, {}, M)
  BY <1>1, <1>2, <1>6, <1>7, <1>8 DEF Closes
<1>10. 1 \in 1 .. n
  BY <1>1
<1>11. Writes(q[1]) \subseteq S
  <2> SUFFICES ASSUME NEW l \in Writes(q[1]) PROVE l \in S
    OBVIOUS
  <2>1. PICK j \in 1 .. n : q[j].unlock = l
    BY <1>3, <1>10
  <2> QED BY <1>3, <1>5, <1>10, <2>1
<1> QED BY <1>1, <1>3, <1>9, <1>10, <1>11 DEF r

\* Nothing is left when the last store is made.
LEMMA ClosesDone == ASSUME NEW S, NEW W, NEW M, Closes(<<>>, S, W, M) PROVE S = {}
BY DEF Closes

\* More may be pointed to later.
LEMMA ClosesMore ==
    ASSUME NEW q, NEW S, NEW W, NEW M, NEW N, Closes(q, S, W, M), M \subseteq N
    PROVE  Closes(q, S, W, N)
BY DEF Closes, StoreOK

-----------------------------------------------------------------------------
(* What the functions' stores unlock *)

\* One value of a function.
LEMMA Points == ASSUME NEW a, NEW b PROVE DOMAIN (a :> b) = {a} /\ (a :> b)[a] = b
BY DEF :>

\* The parts of a store.
LEMMA StoreParts ==
    ASSUME NEW u, NEW p, NEW b, NEW o
    PROVE  /\ Store(u, p, b, o).unlock = u /\ Store(u, p, b, o).ptr = p
           /\ Store(u, p, b, o).pself = b /\ Store(u, p, b, o).obj = o
           /\ Writes(Store(u, p, b, o)) = DOMAIN p \cup DOMAIN b \cup DOMAIN o
           /\ DOMAIN Same = {}
BY DEF Store, Writes, Same

\* A store to the pointer at l, which unlocks u.
LEMMA CloseLink ==
    ASSUME NEW u \in Locs \cup {Null}, NEW l \in Locs, NEW M, NEW n \in (Refs \cup {Null}) \cap M,
           NEW W, l \in W \/ l = u
    PROVE  Closes(<<Store(u, l :> n, Same, Same)>>, {u} \ {Null}, W, M)
<1>f. PICK f : f = l :> n /\ DOMAIN f = {l} /\ f[l] = n
  BY Points
<1> DEFINE s == Store(u, f, Same, Same)
<1>1. s.unlock = u /\ s.ptr = f /\ s.pself = Same /\ s.obj = Same /\ Writes(s) = {l}
  BY <1>f, StoreParts
<1>2. StoreOK(s, M)
  BY <1>f, <1>1, StoreParts DEF StoreOK
<1> HIDE DEF s
<1>3. Closes(<<s>>, {u} \ {Null}, W, M)
  BY <1>1, <1>2, ClosesOne
<1> QED BY <1>f, <1>3 DEF s

\* A store to the back pointer of r, which unlocks u.
LEMMA CloseBack ==
    ASSUME NEW u \in Locs \cup {Null}, NEW r \in Refs, NEW M, NEW b \in Locs \cap M,
           NEW W, r \in W \/ r = u
    PROVE  Closes(<<Store(u, Same, r :> b, Same)>>, {u} \ {Null}, W, M)
<1>f. PICK f : f = r :> b /\ DOMAIN f = {r} /\ f[r] = b
  BY Points
<1> DEFINE s == Store(u, Same, f, Same)
<1>1. s.unlock = u /\ s.ptr = Same /\ s.pself = f /\ s.obj = Same /\ Writes(s) = {r}
  BY <1>f, StoreParts
<1>2. StoreOK(s, M)
  BY <1>f, <1>1, StoreParts, DistinctAssumption DEF StoreOK, Locs
<1> HIDE DEF s
<1>3. Closes(<<s>>, {u} \ {Null}, W, M)
  BY <1>1, <1>2, ClosesOne
<1> QED BY <1>f, <1>3 DEF s

\* The same if there is such a reference.
LEMMA CloseBackIf ==
    ASSUME NEW r \in Refs \cup {Null}, NEW M, NEW b \in Locs \cap M, NEW W
    PROVE  Closes(StoreIf(r, Store(r, Same, r :> b, Same)), {r} \ {Null}, W, M)
<1>1. CASE r = Null
  <2>1. StoreIf(r, Store(r, Same, r :> b, Same)) = <<>> /\ {r} \ {Null} = {}
    BY <1>1 DEF StoreIf
  <2> QED BY <2>1, ClosesEmpty
<1>2. CASE r # Null
  <2>1. StoreIf(r, Store(r, Same, r :> b, Same)) = <<Store(r, Same, r :> b, Same)>>
    BY <1>2 DEF StoreIf
  <2>2. r \in Refs /\ r \in Locs \cup {Null}
    BY <1>2 DEF Locs
  <2> QED BY <2>1, <2>2, CloseBack
<1> QED BY <1>1, <1>2

\* A store that only unlocks u.
LEMMA ClosePlain ==
    ASSUME NEW u \in Locs \cup {Null}, NEW M, NEW W
    PROVE  Closes(<<Store(u, Same, Same, Same)>>, {u} \ {Null}, W, M)
<1> DEFINE s == Store(u, Same, Same, Same)
<1>1. s.unlock = u /\ s.ptr = Same /\ s.pself = Same /\ s.obj = Same /\ Writes(s) = {}
  BY StoreParts
<1>2. StoreOK(s, M)
  BY <1>1, StoreParts DEF StoreOK
<1> HIDE DEF s
<1>3. Closes(<<s>>, {u} \ {Null}, W, M)
  BY <1>1, <1>2, ClosesOne
<1> QED BY <1>3 DEF s

\* A store that binds or unbinds r.
LEMMA CloseBind ==
    ASSUME NEW r \in Refs, NEW M, NEW b \in (Locs \cup {Null}) \cap M, NEW o \in Objs \cup {Null},
           b = Null <=> o = Null, NEW W, r \in W
    PROVE  Closes(<<Store(Null, Same, r :> b, r :> o)>>, {}, W, M)
<1>f. PICK f : f = r :> b /\ DOMAIN f = {r} /\ f[r] = b
  BY Points
<1>g. PICK g : g = r :> o /\ DOMAIN g = {r} /\ g[r] = o
  BY Points
<1> DEFINE s == Store(Null, Same, f, g)
<1>1. s.unlock = Null /\ s.ptr = Same /\ s.pself = f /\ s.obj = g /\ Writes(s) = {r}
  BY <1>f, <1>g, StoreParts
<1>2. StoreOK(s, M)
  BY <1>f, <1>g, <1>1, StoreParts DEF StoreOK
<1> HIDE DEF s
<1>3. Closes(<<s>>, {Null} \ {Null}, W, M)
  BY <1>1, <1>2, ClosesOne
<1> QED BY <1>f, <1>g, <1>3 DEF s

\* Two stores in a row.
LEMMA ClosesTwo ==
    ASSUME NEW a, NEW b, NEW S, NEW T, NEW W, NEW M,
           Closes(<<a>>, S, W \cup T, M), Closes(<<b>>, T, W, M),
           S \cap T = {}, Null \notin S \cup T
    PROVE  Closes(<<a, b>>, S \cup T, W, M)
<1> DEFINE r == <<a>> \o <<b>>
<1>1. r = <<a, b>>
  <2>1. <<a>> \in Seq({a, b}) /\ <<b>> \in Seq({a, b})
    OBVIOUS
  <2>2. r \in Seq({a, b}) /\ Len(r) = 2 /\ r[1] = a /\ r[2] = b
    BY <2>1
  <2> HIDE DEF r
  <2> QED BY <2>2
<1>2. Closes(<<a>> \o <<b>>, S \cup T, W, M)
  BY ClosesConcat
<1> QED BY <1>1, <1>2

\* Three.
LEMMA ClosesThree ==
    ASSUME NEW a, NEW b, NEW c, NEW S, NEW T, NEW W, NEW M,
           Closes(<<a, b>>, S, W \cup T, M), Closes(<<c>>, T, W, M),
           S \cap T = {}, Null \notin S \cup T
    PROVE  Closes(<<a, b, c>>, S \cup T, W, M)
<1> DEFINE r == <<a, b>> \o <<c>>
<1>1. r = <<a, b, c>>
  <2>1. <<a, b>> \in Seq({a, b, c}) /\ <<c>> \in Seq({a, b, c})
    OBVIOUS
  <2>2. r \in Seq({a, b, c}) /\ Len(r) = 3 /\ r[1] = a /\ r[2] = b /\ r[3] = c
    BY <2>1
  <2> HIDE DEF r
  <2> QED BY <2>2
<1>2. Closes(<<a, b>> \o <<c>>, S \cup T, W, M)
  BY ClosesConcat
<1> QED BY <1>1, <1>2

\* Four.
LEMMA ClosesFour ==
    ASSUME NEW a, NEW b, NEW c, NEW d, NEW S, NEW T, NEW W, NEW M,
           Closes(<<a, b, c>>, S, W \cup T, M), Closes(<<d>>, T, W, M),
           S \cap T = {}, Null \notin S \cup T
    PROVE  Closes(<<a, b, c, d>>, S \cup T, W, M)
<1> DEFINE r == <<a, b, c>> \o <<d>>
<1>1. r = <<a, b, c, d>>
  <2>1. <<a, b, c>> \in Seq({a, b, c, d}) /\ <<d>> \in Seq({a, b, c, d})
    OBVIOUS
  <2>2. r \in Seq({a, b, c, d}) /\ Len(r) = 4 /\ r[1] = a /\ r[2] = b /\ r[3] = c /\ r[4] = d
    BY <2>1
  <2> HIDE DEF r
  <2> QED BY <2>2
<1>2. Closes(<<a, b, c>> \o <<d>>, S \cup T, W, M)
  BY ClosesConcat
<1> QED BY <1>1, <1>2

\* Take x out of its list: what it stands between is unlocked.
LEMMA CloseUnlink ==
    ASSUME NEW x \in Refs, NEW M, ptr[x] \in (Refs \cup {Null}) \cap M, wr_pself[x] \in Locs \cap M,
           ptr[x] # wr_pself[x], NEW W
    PROVE  Closes(Unlink(x), {ptr[x], wr_pself[x]} \ {Null}, W, M)
<1>1. PICK n : n = ptr[x]
  OBVIOUS
<1>2. PICK p : p = wr_pself[x]
  OBVIOUS
<1>3. n \in (Refs \cup {Null}) \cap M /\ p \in Locs \cap M /\ p \in Locs /\ n # p /\ p # Null
  BY <1>1, <1>2, DistinctAssumption DEF Locs
<1>4. Unlink(x) = StoreIf(n, Store(n, Same, n :> p, Same)) \o <<Store(p, p :> n, Same, Same)>>
  BY <1>1, <1>2 DEF Unlink, UnlinkWith
<1>5. Closes(StoreIf(n, Store(n, Same, n :> p, Same)), {n} \ {Null}, W \cup ({p} \ {Null}), M)
  BY <1>3, CloseBackIf
<1>6. Closes(<<Store(p, p :> n, Same, Same)>>, {p} \ {Null}, W, M)
  BY <1>3, CloseLink
<1>7. ({n} \ {Null}) \cap ({p} \ {Null}) = {}
  BY <1>3
<1>8. Closes(Unlink(x), ({n} \ {Null}) \cup ({p} \ {Null}), W, M)
  BY <1>4, <1>5, <1>6, <1>7, ClosesConcat
<1>9. ({n} \ {Null}) \cup ({p} \ {Null}) = {ptr[x], wr_pself[x]} \ {Null}
  BY <1>1, <1>2
<1> QED BY <1>8, <1>9

\* Unbind x and unlock it.
LEMMA CloseSever ==
    ASSUME NEW x \in Refs, NEW M, Null \in M, NEW W PROVE Closes(Sever(x), {x}, W, M)
<1>1. x \in Locs /\ x # Null
  BY DistinctAssumption DEF Locs
<1>2. Closes(<<Store(Null, Same, x :> Null, x :> Null)>>, {}, W \cup {x}, M)
  BY CloseBind
<1>3. Closes(<<Store(x, x :> Null, Same, Same)>>, {x} \ {Null}, W, M)
  BY <1>1, CloseLink
<1>4. {x} \ {Null} = {x} /\ {} \cup {x} = {x}
  BY <1>1
<1> QED BY <1>1, <1>2, <1>3, <1>4, ClosesTwo DEF Sever

\* The types of the fields, and what is bound is in a list.
FieldInv == /\ ptr \in [Locs -> Refs \cup {Null}]
            /\ owner \in [Locs -> Threads \cup {Free}]
            /\ wr_pself \in [Refs -> Locs \cup {Null}]
            /\ wr_obj \in [Refs -> Objs \cup {Null}]
            /\ life \in [Refs -> {"new", "live", "dying", "gone"}]
            /\ \A r \in Refs : wr_obj[r] # Null => wr_pself[r] # Null

\* M has everything that the fields point to.
Knows(M) == /\ Null \in M /\ Objs \subseteq M
            /\ \A l \in Locs : ptr[l] \in M
            /\ \A r \in Refs : wr_pself[r] \in M

\* What r stands between.
Around(r) == {wr_pself[r], ptr[r]} \ {Null}

AroundIfBound(r) == IF wr_obj[r] = Null THEN {} ELSE Around(r)

\* Take x, which is bound, out of its list.
LEMMA CloseUnlinkBound ==
    ASSUME FieldInv, NEW M, Knows(M), NEW x \in Refs, wr_obj[x] # Null, ptr[x] # wr_pself[x], NEW W
    PROVE  Closes(Unlink(x), Around(x), W, M)
<1>1. ptr[x] \in (Refs \cup {Null}) \cap M /\ wr_pself[x] \in Locs \cap M
  BY DEF FieldInv, Knows, Locs
<1>2. {ptr[x], wr_pself[x]} \ {Null} = Around(x)
  BY DEF Around
<1> QED BY <1>1, <1>2, CloseUnlink

\* Take x out of its list if it is in one.
LEMMA CloseUnlinkIfBound ==
    ASSUME FieldInv, NEW M, Knows(M), NEW x \in Refs,
           wr_obj[x] # Null => ptr[x] # wr_pself[x], NEW W
    PROVE  Closes(UnlinkIfBound(x), AroundIfBound(x), W, M)
BY CloseUnlinkBound, ClosesEmpty DEF UnlinkIfBound, AroundIfBound

\* Tell the first reference of a list of the one in front of it.
LEMMA ClosePush ==
    ASSUME NEW M, NEW s \in Refs \cap M, NEW r \in Refs \cup {Null}, NEW W
    PROVE  Closes(StoreIf(r, Store(r, Same, r :> s, Same)), {r} \ {Null}, W, M)
BY CloseBackIf DEF Locs

\* Dee_weakref_clear.
LEMMA ScriptClear ==
    ASSUME FieldInv, NEW M, Knows(M), NEW t, op[t].kind = "clear", op[t].self \in Refs,
           wr_obj[op[t].self] # Null, ptr[op[t].self] # wr_pself[op[t].self],
           op[t].self \notin Around(op[t].self)
    PROVE  Closes(Script(t), {op[t].self} \cup Around(op[t].self), {}, M)
<1>s. PICK s : s = op[t].self
  OBVIOUS
<1>1. Script(t) = Unlink(s) \o Sever(s)
  BY <1>s DEF Script
<1>2. Closes(Unlink(s), Around(s), {}, M)
  BY <1>s, CloseUnlinkBound
<1>3. Closes(Sever(s), {s}, {}, M)
  BY <1>s, CloseSever DEF Knows
<1>4. Null \notin {s} \cup Around(s) /\ Around(s) \cap {s} = {} /\ s \notin Around(s)
  BY <1>s, DistinctAssumption DEF Around
<1>5. Closes(Unlink(s) \o Sever(s), {s} \cup Around(s), {}, M)
  BY <1>2, <1>3, <1>4, ClosesThen
<1> QED BY <1>s, <1>1, <1>5

\* Dee_weakref_fini.
LEMMA ScriptFini ==
    ASSUME FieldInv, NEW M, Knows(M), NEW t, op[t].kind = "fini", op[t].self \in Refs,
           wr_obj[op[t].self] # Null, ptr[op[t].self] # wr_pself[op[t].self],
           op[t].self \notin Around(op[t].self)
    PROVE  Closes(Script(t), {op[t].self} \cup Around(op[t].self), {}, M)
<1>s. PICK s : s = op[t].self
  OBVIOUS
<1>0. s \in Refs /\ s \in Locs /\ Null \in M /\ s # Null
  BY <1>s, DistinctAssumption DEF Locs, Knows
<1> DEFINE e == Store(s, s :> Null, s :> Null, s :> Null)
<1>1. Script(t) = Unlink(s) \o <<e>>
  BY <1>s DEF Script
<1>2. Closes(Unlink(s), Around(s), {}, M)
  BY <1>s, CloseUnlinkBound
<1>3. Closes(<<e>>, {s}, {}, M)
  <2>1. PICK f : f = s :> Null /\ DOMAIN f = {s} /\ f[s] = Null
    BY Points
  <2> DEFINE d == Store(s, f, f, f)
  <2>2. d.unlock = s /\ d.ptr = f /\ d.pself = f /\ d.obj = f /\ Writes(d) = {s}
    BY <2>1, StoreParts
  <2>3. StoreOK(d, M)
    BY <1>0, <2>1, <2>2 DEF StoreOK
  <2>4. d = e
    BY <2>1
  <2> HIDE DEF d, e
  <2>5. Closes(<<d>>, {s} \ {Null}, {}, M)
    BY <2>2, <2>3, ClosesOne
  <2>6. {s} \ {Null} = {s}
    BY <1>0
  <2> QED BY <2>4, <2>5, <2>6
<1> HIDE DEF e
<1>4. Null \notin {s} \cup Around(s) /\ Around(s) \cap {s} = {}
  BY <1>s, <1>0 DEF Around
<1>5. Closes(Unlink(s) \o <<e>>, {s} \cup Around(s), {}, M)
  BY <1>2, <1>3, <1>4, ClosesThen
<1> QED BY <1>s, <1>1, <1>5

\* What Dee_weakref_moveassign does when both references are bound to one object.
LEMMA ScriptMoveOut ==
    ASSUME FieldInv, NEW M, Knows(M), NEW t, op[t].other \in Refs,
           wr_obj[op[t].other] # Null, ptr[op[t].other] # wr_pself[op[t].other],
           op[t].other \notin Around(op[t].other), NEW W
    PROVE  Closes(MoveOut(t), {op[t].other} \cup Around(op[t].other), W, M)
<1>s. PICK s : s = op[t].other
  OBVIOUS
<1>1. MoveOut(t) = Unlink(s) \o Sever(s)
  BY <1>s DEF MoveOut
<1>2. Closes(Unlink(s), Around(s), W, M)
  BY <1>s, CloseUnlinkBound
<1>3. Closes(Sever(s), {s}, W, M)
  BY <1>s, CloseSever DEF Knows
<1>4. Null \notin {s} \cup Around(s) /\ Around(s) \cap {s} = {} /\ s \notin Around(s)
  BY <1>s, DistinctAssumption DEF Around
<1>5. Closes(Unlink(s) \o Sever(s), {s} \cup Around(s), W, M)
  BY <1>2, <1>3, <1>4, ClosesThen
<1> QED BY <1>s, <1>1, <1>5

\* The same, and self is unlocked.
LEMMA ScriptMoveOutSelf ==
    ASSUME FieldInv, NEW M, Knows(M), NEW t, op[t].other \in Refs, op[t].self \in Refs,
           wr_obj[op[t].other] # Null, ptr[op[t].other] # wr_pself[op[t].other],
           op[t].other \notin Around(op[t].other),
           op[t].self \notin {op[t].other} \cup Around(op[t].other)
    PROVE  Closes(MoveOut(t) \o <<Store(op[t].self, Same, Same, Same)>>,
                  {op[t].self, op[t].other} \cup Around(op[t].other), {}, M)
<1>s. PICK s : s = op[t].self
  OBVIOUS
<1>x. PICK x : x = op[t].other
  OBVIOUS
<1>0. s \in Locs /\ s # Null /\ x # Null
  BY <1>s, <1>x, DistinctAssumption DEF Locs
<1>1. Closes(MoveOut(t), {x} \cup Around(x), {}, M)
  BY <1>x, ScriptMoveOut
<1>2. Closes(<<Store(s, Same, Same, Same)>>, {s} \ {Null}, {}, M)
  BY <1>0, ClosePlain
<1>3. /\ {s, x} \cup Around(x) = ({x} \cup Around(x)) \cup ({s} \ {Null})
      /\ ({x} \cup Around(x)) \cap ({s} \ {Null}) = {} /\ Null \notin {s, x} \cup Around(x)
  BY <1>s, <1>x, <1>0 DEF Around
<1>4. Closes(MoveOut(t) \o <<Store(s, Same, Same, Same)>>, {s, x} \cup Around(x), {}, M)
  BY <1>1, <1>2, <1>3, ClosesThen
<1> QED BY <1>s, <1>x, <1>4

\* Dee_weakref_set.
LEMMA ScriptSet ==
    ASSUME FieldInv, NEW M, Knows(M), NEW t, op[t].kind = "set", op[t].self \in Refs \cap M,
           op[t].ob \in Objs, wr_obj[op[t].self] # Null => ptr[op[t].self] # wr_pself[op[t].self],
           op[t].self # ptr[op[t].ob],
           {op[t].self, op[t].ob, ptr[op[t].ob]} \cap AroundIfBound(op[t].self) = {}
    PROVE  Closes(Script(t), ({op[t].self, op[t].ob, ptr[op[t].ob]} \ {Null})
                                \cup AroundIfBound(op[t].self), {}, M)
<1>s. PICK s : s = op[t].self
  OBVIOUS
<1>o. PICK o : o = op[t].ob
  OBVIOUS
<1>f. PICK f : f = ptr[o]
  OBVIOUS
<1>b. PICK B : B = AroundIfBound(s)
  OBVIOUS
<1>0. /\ s \in Refs /\ s \in Refs \cap M /\ s \in Locs /\ o \in Locs /\ o \in Objs /\ s # Null /\ o # Null
      /\ o \in M /\ f \in (Refs \cup {Null}) \cap M /\ s # o /\ o # f /\ Null \notin B /\ s # f
      /\ {s, o, f} \cap B = {}
  BY <1>s, <1>o, <1>f, <1>b, DistinctAssumption
  DEF Locs, Knows, FieldInv, AroundIfBound, Around
<1> DEFINE bind == <<Store(Null, Same, s :> o, s :> o)>>
           push == StoreIf(f, Store(f, Same, f :> s, Same))
           last == <<Store(o, o :> s, Same, Same), Store(s, s :> f, Same, Same)>>
           all  == ({s, o, f} \ {Null}) \cup B
<1>1. Script(t) = ((UnlinkIfBound(s) \o bind) \o push) \o last
  BY <1>s, <1>o, <1>f DEF Script
<1>2. Closes(UnlinkIfBound(s), B, {}, M)
  BY <1>s, <1>b, CloseUnlinkIfBound
<1>3. Closes(bind, {}, {s}, M)
  BY <1>0, CloseBind DEF Locs
<1>4. Closes(push, {f} \ {Null}, {}, M)
  BY <1>0, ClosePush
<1>5. Closes(last, {o, s}, {}, M)
  <2>1. Closes(<<Store(o, o :> s, Same, Same)>>, {o} \ {Null}, {} \cup ({s} \ {Null}), M)
    BY <1>0, CloseLink
  <2>2. Closes(<<Store(s, s :> f, Same, Same)>>, {s} \ {Null}, {}, M)
    BY <1>0, CloseLink
  <2>3. /\ ({o} \ {Null}) \cup ({s} \ {Null}) = {o, s} /\ ({o} \ {Null}) \cap ({s} \ {Null}) = {}
        /\ Null \notin {o, s}
    BY <1>0
  <2> QED BY <2>1, <2>2, <2>3, ClosesTwo
<1> HIDE DEF bind, push, last
<1>6. Closes(UnlinkIfBound(s) \o bind, B, {s}, M)
  BY <1>0, <1>2, <1>3, ClosesThen
<1>7. Closes(push, {f} \ {Null}, {s}, M)
  BY <1>0, ClosePush DEF push
<1>8. Closes((UnlinkIfBound(s) \o bind) \o push, B \cup ({f} \ {Null}), {s}, M)
  BY <1>0, <1>6, <1>7, ClosesThen
<1>9. all = (B \cup ({f} \ {Null})) \cup {o, s} /\ (B \cup ({f} \ {Null})) \cap {o, s} = {}
      /\ Null \notin all
  BY <1>0
<1>10. Closes(((UnlinkIfBound(s) \o bind) \o push) \o last, all, {}, M)
  BY <1>5, <1>8, <1>9, ClosesThen
<1> QED BY <1>s, <1>o, <1>f, <1>b, <1>1, <1>10

\* Dee_weakref_list_fini.
LEMMA ScriptDestroy ==
    ASSUME FieldInv, NEW M, Knows(M), NEW t, op[t].kind = "destroy", op[t].ob \in Objs,
           ptr[op[t].ob] # Null, ptr[op[t].ob] # ptr[ptr[op[t].ob]]
    PROVE  Closes(Script(t), {op[t].ob, ptr[op[t].ob], ptr[ptr[op[t].ob]]} \ {Null}, {}, M)
<1>o. PICK o : o = op[t].ob
  OBVIOUS
<1>f. PICK f : f = ptr[o]
  OBVIOUS
<1>g. PICK g : g = ptr[f]
  OBVIOUS
<1>0. /\ o \in Objs /\ o \in Locs /\ o \in Locs \cap M /\ o # Null /\ f \in Refs /\ f # Null /\ f # o
      /\ g \in (Refs \cup {Null}) \cap M /\ g # f /\ g # o /\ Null \in M
  BY <1>o, <1>f, <1>g, DistinctAssumption DEF Locs, Knows, FieldInv
<1> DEFINE back == StoreIf(g, Store(g, Same, g :> o, Same))
           link == <<Store(o, o :> g, Same, Same)>>
<1>1. Script(t) = (back \o link) \o Sever(f)
  BY <1>o, <1>f, <1>g DEF Script
<1>2. Closes(back, {g} \ {Null}, {}, M)
  BY <1>0, CloseBackIf
<1>3. Closes(link, {o} \ {Null}, {}, M)
  BY <1>0, CloseLink
<1>4. Closes(Sever(f), {f}, {}, M)
  BY <1>0, CloseSever
<1> HIDE DEF back, link
<1>5. Closes(back \o link, {g, o} \ {Null}, {}, M)
  BY <1>0, <1>2, <1>3, ClosesThen
<1>6. Closes((back \o link) \o Sever(f), {o, f, g} \ {Null}, {}, M)
  BY <1>0, <1>4, <1>5, ClosesThen
<1> QED BY <1>o, <1>f, <1>g, <1>1, <1>6

\* A store that gives s, which is locked, the place of x.
LEMMA CloseReplace ==
    ASSUME NEW M, NEW s \in Refs, NEW x \in Refs, s # x, NEW p \in Locs \cap M, NEW o \in Objs,
           NEW b \in (Refs \cup {Null}) \cap M, NEW f, NEW W, {s, x} \subseteq W,
           (b # Null /\ f = s :> o) \/ (b = Null /\ f = (s :> o) @@ (x :> Null))
    PROVE  Closes(<<Store(Null, Same, (s :> p) @@ (x :> b), f)>>, {}, W, M)
<1>0. ASSUME NEW c, NEW d
      PROVE  \E g : g = (s :> c) @@ (x :> d) /\ DOMAIN g = {s, x} /\ g[s] = c /\ g[x] = d
  <2> DEFINE h == (s :> c) @@ (x :> d)
  <2>1. DOMAIN h = {s, x} /\ h[s] = c /\ h[x] = d
    BY DEF :>, @@
  <2> HIDE DEF h
  <2>2. \E g : g = h /\ DOMAIN g = {s, x} /\ g[s] = c /\ g[x] = d
    BY <2>1
  <2> QED BY <2>2 DEF h
<1>1. PICK g : /\ g = (s :> p) @@ (x :> b) /\ DOMAIN g = {s, x} /\ g[s] = p /\ g[x] = b
  BY <1>0
<1>2. /\ DOMAIN f \subseteq {s, x} /\ s \in DOMAIN f /\ f[s] = o
      /\ b = Null => x \in DOMAIN f /\ f[x] = Null
      /\ b # Null => DOMAIN f = {s}
  <2>1. CASE b # Null /\ f = s :> o
    BY <2>1, Points
  <2>2. CASE b = Null /\ f = (s :> o) @@ (x :> Null)
    BY <1>0, <2>2
  <2> QED BY <2>1, <2>2
<1>3. p # Null /\ o # Null
  BY DistinctAssumption DEF Locs
<1> DEFINE d == Store(Null, Same, g, f)
<1>4. d.unlock = Null /\ d.ptr = Same /\ d.pself = g /\ d.obj = f /\ Writes(d) = {s, x}
  BY <1>1, <1>2, StoreParts
<1>5. DOMAIN Same = {}
  BY StoreParts
<1>6. StoreOK(d, M)
  BY <1>1, <1>2, <1>3, <1>4, <1>5 DEF StoreOK, Locs
<1> HIDE DEF d
<1>7. Closes(<<d>>, {Null} \ {Null}, W, M)
  BY <1>4, <1>6, ClosesOne
<1> QED BY <1>1, <1>7 DEF d

\* Dee_weakref_copyassign.
LEMMA ScriptCopyAssign ==
    ASSUME FieldInv, NEW M, Knows(M), NEW t, op[t].kind = "copyassign", op[t].self \in Refs \cap M,
           op[t].other \in Refs \cap M, op[t].self # op[t].other,
           wr_obj[op[t].other] # Null, wr_pself[op[t].other] \notin {op[t].self, op[t].other},
           wr_obj[op[t].self] # Null => ptr[op[t].self] # wr_pself[op[t].self],
           {op[t].self, op[t].other, wr_pself[op[t].other]} \cap AroundIfBound(op[t].self) = {}
    PROVE  Closes(Script(t), {op[t].other, wr_pself[op[t].other], op[t].self}
                                \cup AroundIfBound(op[t].self), {}, M)
<1>s. PICK s : s = op[t].self
  OBVIOUS
<1>x. PICK x : x = op[t].other
  OBVIOUS
<1>p. PICK p : p = wr_pself[x]
  OBVIOUS
<1>b. PICK B : B = AroundIfBound(s)
  OBVIOUS
<1>o. PICK o : o = wr_obj[x]
  OBVIOUS
<1>0. /\ s \in Refs /\ s \in Refs \cap M /\ s \in Locs /\ x \in Refs /\ x \in Refs \cap M /\ x \in Locs
      /\ s # Null /\ x # Null /\ s # x /\ o \in Objs /\ p \in Locs \cap M /\ p \in Locs /\ p # Null
      /\ p # s /\ p # x /\ Null \notin B /\ {s, x, p} \cap B = {}
  BY <1>s, <1>x, <1>p, <1>b, <1>o, DistinctAssumption
  DEF Locs, Knows, FieldInv, AroundIfBound, Around
<1> DEFINE pair == Store(Null, Same, (s :> p) @@ (x :> s), s :> o)
           prev == Store(p, p :> s, Same, Same)
           give == Store(x, Same, Same, Same)
           last == Store(s, s :> x, Same, Same)
<1>1. Script(t) = UnlinkIfBound(s) \o <<pair, prev, give, last>>
  BY <1>s, <1>x, <1>p, <1>o DEF Script
<1>2. Closes(UnlinkIfBound(s), B, {}, M)
  BY <1>s, <1>b, CloseUnlinkIfBound
<1>3. Closes(<<pair>>, {}, {x, s, p}, M)
  <2>1. PICK V : V = {x, s, p} /\ {s, x} \subseteq V
    OBVIOUS
  <2>2. PICK f : f = s :> o
    OBVIOUS
  <2>3. Closes(<<Store(Null, Same, (s :> p) @@ (x :> s), f)>>, {}, V, M)
    BY <1>0, <2>1, <2>2, CloseReplace
  <2> QED BY <2>1, <2>2, <2>3
<1>4. Closes(<<prev>>, {p} \ {Null}, {x, s}, M)
  BY <1>0, CloseLink
<1>5. Closes(<<give>>, {x} \ {Null}, {s}, M)
  BY <1>0, ClosePlain
<1>6. Closes(<<last>>, {s} \ {Null}, {}, M)
  BY <1>0, CloseLink
<1> HIDE DEF pair, prev, give, last
<1>7. {p} \ {Null} = {p} /\ {x} \ {Null} = {x} /\ {s} \ {Null} = {s} /\ {x, s} \cup {p} = {x, s, p}
  BY <1>0
<1>8. Closes(<<pair, prev>>, {p}, {x, s}, M)
  <2>1. Closes(<<pair>>, {}, {x, s} \cup {p}, M)
    BY <1>3, <1>7
  <2>2. Closes(<<pair, prev>>, {} \cup {p}, {x, s}, M)
    BY <1>0, <1>4, <1>7, <2>1, ClosesTwo
  <2> QED BY <2>2
<1>9. Closes(<<pair, prev, give>>, {p, x}, {s}, M)
  <2>1. Closes(<<pair, prev>>, {p}, {s} \cup {x}, M)
    <3>1. {s} \cup {x} = {x, s}
      OBVIOUS
    <3> QED BY <1>8, <3>1
  <2>2. Closes(<<pair, prev, give>>, {p} \cup {x}, {s}, M)
    BY <1>0, <1>5, <1>7, <2>1, ClosesThree
  <2>3. {p} \cup {x} = {p, x}
    OBVIOUS
  <2> QED BY <2>2, <2>3
<1>10. Closes(<<pair, prev, give, last>>, {p, x, s}, {}, M)
  <2>1. Closes(<<pair, prev, give>>, {p, x}, {} \cup {s}, M)
    <3>1. {} \cup {s} = {s}
      OBVIOUS
    <3> QED BY <1>9, <3>1
  <2>2. Closes(<<pair, prev, give, last>>, {p, x} \cup {s}, {}, M)
    BY <1>0, <1>6, <1>7, <2>1, ClosesFour
  <2>3. {p, x} \cup {s} = {p, x, s}
    OBVIOUS
  <2> QED BY <2>2, <2>3
<1>11. Closes(UnlinkIfBound(s) \o <<pair, prev, give, last>>, {x, p, s} \cup B, {}, M)
  BY <1>0, <1>2, <1>10, ClosesThen
<1> QED BY <1>s, <1>x, <1>p, <1>b, <1>1, <1>11

\* Dee_weakref_moveassign.
LEMMA ScriptMoveAssign ==
    ASSUME FieldInv, NEW M, Knows(M), NEW t, op[t].kind = "moveassign", op[t].self \in Refs \cap M,
           op[t].other \in Refs \cap M, op[t].self # op[t].other,
           wr_obj[op[t].other] # Null, ptr[op[t].other] # wr_pself[op[t].other],
           {op[t].self, op[t].other} \cap Around(op[t].other) = {},
           wr_obj[op[t].self] # Null => ptr[op[t].self] # wr_pself[op[t].self],
           ({op[t].self, op[t].other} \cup Around(op[t].other)) \cap AroundIfBound(op[t].self) = {}
    PROVE  Closes(Script(t), ({op[t].other, op[t].self} \cup Around(op[t].other))
                                \cup AroundIfBound(op[t].self), {}, M)
<1>s. PICK s : s = op[t].self
  OBVIOUS
<1>x. PICK x : x = op[t].other
  OBVIOUS
<1>p. PICK p : p = wr_pself[x]
  OBVIOUS
<1>n. PICK n : n = ptr[x]
  OBVIOUS
<1>b. PICK B : B = AroundIfBound(s)
  OBVIOUS
<1>o. PICK o : o = wr_obj[x]
  OBVIOUS
<1>0. /\ s \in Refs /\ s \in Refs \cap M /\ s \in Locs /\ x \in Refs /\ x \in Refs \cap M /\ x \in Locs
      /\ s # Null /\ x # Null /\ s # x /\ o \in Objs /\ p \in Locs \cap M /\ p \in Locs /\ p # Null
      /\ n \in (Refs \cup {Null}) \cap M /\ n # p /\ n # s /\ n # x /\ p # s /\ p # x
      /\ Null \notin B /\ {s, x, p} \cap B = {} /\ n \notin B
      /\ Null \in (Refs \cup {Null}) \cap M
      /\ Around(x) = {p} \cup ({n} \ {Null})
  BY <1>s, <1>x, <1>p, <1>n, <1>b, <1>o, DistinctAssumption
  DEF Locs, Knows, FieldInv, AroundIfBound, Around
<1> DEFINE pair == <<Store(Null, Same, (s :> p) @@ (x :> Null), (s :> o) @@ (x :> Null))>>
           back == StoreIf(n, Store(n, Same, n :> s, Same))
           prev == Store(p, p :> s, Same, Same)
           give == Store(x, x :> Null, Same, Same)
           last == Store(s, s :> n, Same, Same)
<1>1. Script(t) = ((UnlinkIfBound(s) \o pair) \o back) \o <<prev, give, last>>
  BY <1>s, <1>x, <1>p, <1>n, <1>o DEF Script
<1>2. Closes(UnlinkIfBound(s), B, {}, M)
  BY <1>s, <1>b, CloseUnlinkIfBound
<1>3. Closes(pair, {}, {s, x}, M)
  <2>1. PICK V : V = {s, x} /\ {s, x} \subseteq V
    OBVIOUS
  <2>2. PICK f : f = (s :> o) @@ (x :> Null)
    OBVIOUS
  <2>3. Closes(<<Store(Null, Same, (s :> p) @@ (x :> Null), f)>>, {}, V, M)
    BY <1>0, <2>1, <2>2, CloseReplace
  <2> QED BY <2>1, <2>2, <2>3
<1>4. Closes(back, {n} \ {Null}, {s, x}, M)
  BY <1>0, ClosePush
<1>5. Closes(<<prev>>, {p} \ {Null}, {s} \cup {x}, M)
  BY <1>0, CloseLink
<1>6. Closes(<<give>>, {x} \ {Null}, {s}, M)
  BY <1>0, CloseLink
<1>7. Closes(<<last>>, {s} \ {Null}, {}, M)
  BY <1>0, CloseLink
<1> HIDE DEF pair, back, prev, give, last
<1>8. {p} \ {Null} = {p} /\ {x} \ {Null} = {x} /\ {s} \ {Null} = {s} /\ {} \cup {s} = {s}
  BY <1>0
<1>9. Closes(<<prev, give>>, {p} \cup {x}, {s}, M)
  BY <1>0, <1>5, <1>6, <1>8, ClosesTwo
<1>10. Closes(<<prev, give, last>>, ({p} \cup {x}) \cup {s}, {}, M)
  <2>1. Closes(<<prev, give>>, {p} \cup {x}, {} \cup {s}, M)
    BY <1>8, <1>9
  <2> QED BY <1>0, <1>7, <1>8, <2>1, ClosesThree
<1>11. Closes(UnlinkIfBound(s) \o pair, B, {s, x}, M)
  BY <1>0, <1>2, <1>3, ClosesThen
<1>12. Closes((UnlinkIfBound(s) \o pair) \o back, B \cup ({n} \ {Null}), {s, x}, M)
  BY <1>0, <1>4, <1>11, ClosesThen
<1>13. Closes(((UnlinkIfBound(s) \o pair) \o back) \o <<prev, give, last>>,
              ({x, s} \cup ({p} \cup ({n} \ {Null}))) \cup B, {}, M)
  BY <1>0, <1>10, <1>12, ClosesThen
<1>14. ({x, s} \cup ({p} \cup ({n} \ {Null}))) \cup B = ({x, s} \cup Around(x)) \cup AroundIfBound(s)
  BY <1>0, <1>b
<1> QED BY <1>s, <1>x, <1>1, <1>13, <1>14

\* The stores of q begin with one to r alone, which nobody has seen, and then unlock S.
Opens(q, r, S, M) ==
    /\ q \in Seq(Ranked(q)) /\ q # <<>> /\ Tail(q) # <<>>
    /\ Head(q).unlock = Null /\ Writes(Head(q)) = {r} /\ r \in DOMAIN Head(q).ptr
    /\ StoreOK(Head(q), M)
    /\ Closes(Tail(q), S, {}, M)

\* A store that fills in a new reference.
LEMMA OpenStore ==
    ASSUME NEW M, NEW r \in Refs, NEW n \in (Refs \cup {Null}) \cap M, NEW b \in Locs \cap M,
           NEW o \in Objs
    PROVE  LET d == Store(Null, r :> n, r :> b, r :> o)
           IN  d.unlock = Null /\ Writes(d) = {r} /\ r \in DOMAIN d.ptr /\ StoreOK(d, M)
<1>f. PICK f : f = r :> n /\ DOMAIN f = {r} /\ f[r] = n
  BY Points
<1>g. PICK g : g = r :> b /\ DOMAIN g = {r} /\ g[r] = b
  BY Points
<1>h. PICK h : h = r :> o /\ DOMAIN h = {r} /\ h[r] = o
  BY Points
<1> DEFINE d == Store(Null, f, g, h)
<1>1. d.unlock = Null /\ d.ptr = f /\ d.pself = g /\ d.obj = h /\ Writes(d) = {r}
  BY <1>f, <1>g, <1>h, StoreParts
<1>2. b # Null /\ o # Null
  BY DistinctAssumption DEF Locs
<1>3. StoreOK(d, M)
  BY <1>f, <1>g, <1>h, <1>1, <1>2 DEF StoreOK, Locs
<1>4. d = Store(Null, r :> n, r :> b, r :> o)
  BY <1>f, <1>g, <1>h
<1> HIDE DEF d
<1> QED BY <1>f, <1>1, <1>3, <1>4

\* The first store, and the others.
LEMMA OpenThen ==
    ASSUME NEW d, NEW q, NEW r, NEW S, NEW M, q # <<>>, d.unlock = Null, Writes(d) = {r},
           r \in DOMAIN d.ptr, StoreOK(d, M), Closes(q, S, {}, M)
    PROVE  Opens(<<d>> \o q, r, S, M)
<1> DEFINE Z == {d} \cup Ranked(q)
           w == <<d>> \o q
<1>1. q \in Seq(Z) /\ <<d>> \in Seq(Z)
  <2>1. q \in Seq(Ranked(q)) /\ Ranked(q) \subseteq Z
    BY DEF Closes
  <2> QED BY <2>1, SeqMonotonic
<1>2. w \in Seq(Z) /\ Len(w) = Len(q) + 1 /\ w[1] = d /\ \A i \in 1 .. Len(q) : w[i + 1] = q[i]
  BY <1>1, ConcatProperties
<1>3. w # <<>> /\ Head(w) = d /\ Tail(w) = q
  <2>1. w # <<>> /\ Head(w) = d /\ Tail(w) \in Seq(Z) /\ Len(Tail(w)) = Len(q)
    BY <1>1, <1>2, HeadTailProperties
  <2>2. \A i \in 1 .. Len(q) : Tail(w)[i] = q[i]
    BY <1>1, <1>2, HeadTailProperties
  <2> HIDE DEF w, Z
  <2> QED BY <1>1, <2>1, <2>2, SeqEqual
<1>4. w \in Seq(Ranked(w))
  BY <1>2, RankedSeq
<1> HIDE DEF w
<1>5. Opens(w, r, S, M)
  BY <1>3, <1>4 DEF Opens
<1> QED BY <1>5 DEF w

\* Dee_weakref_init.
LEMMA ScriptInit ==
    ASSUME FieldInv, NEW M, Knows(M), NEW t, op[t].kind = "init", op[t].self \in Refs \cap M,
           op[t].ob \in Objs
    PROVE  Opens(Script(t), op[t].self, {op[t].ob, ptr[op[t].ob]} \ {Null}, M)
<1>s. PICK s : s = op[t].self
  OBVIOUS
<1>o. PICK o : o = op[t].ob
  OBVIOUS
<1>f. PICK f : f = ptr[o]
  OBVIOUS
<1>0. /\ s \in Refs /\ s \in Refs \cap M /\ s \in (Refs \cup {Null}) \cap M /\ o \in Locs /\ o \in Objs
      /\ o # Null /\ o \in Locs \cap M /\ f \in (Refs \cup {Null}) \cap M /\ o # f
  BY <1>s, <1>o, <1>f, DistinctAssumption DEF Locs, Knows, FieldInv
<1> DEFINE d == Store(Null, s :> f, s :> o, s :> o)
           push == StoreIf(f, Store(f, Same, f :> s, Same))
           last == Store(o, o :> s, Same, Same)
<1>1. Script(t) = (<<d>> \o push) \o <<last>>
  BY <1>s, <1>o, <1>f DEF Script
<1>2. d.unlock = Null /\ Writes(d) = {s} /\ s \in DOMAIN d.ptr /\ StoreOK(d, M)
  BY <1>0, OpenStore
<1>3. Closes(push, {f} \ {Null}, {}, M)
  BY <1>0, ClosePush
<1>4. Closes(<<last>>, {o} \ {Null}, {}, M)
  BY <1>0, CloseLink
<1> HIDE DEF d, push, last
<1>5. Closes(push \o <<last>>, {o, f} \ {Null}, {}, M)
  BY <1>0, <1>3, <1>4, ClosesThen
<1>6. PICK Z : push \in Seq(Z) /\ d \in Z /\ last \in Z
  <2>1. push \in Seq(Ranked(push) \cup {d, last})
    BY <1>3, SeqMonotonic DEF Closes
  <2> QED BY <2>1
<1>7. push \o <<last>> # <<>>
  BY <1>6
<1>8. (<<d>> \o push) \o <<last>> = <<d>> \o (push \o <<last>>)
  BY <1>6, ConcatAssociative
<1>9. Opens(<<d>> \o (push \o <<last>>), s, {o, f} \ {Null}, M)
  BY <1>2, <1>5, <1>7, OpenThen
<1> QED BY <1>s, <1>o, <1>f, <1>1, <1>8, <1>9

\* Dee_weakref_copy.
LEMMA ScriptCopy ==
    ASSUME FieldInv, NEW M, Knows(M), NEW t, op[t].kind = "copy", op[t].self \in Refs \cap M,
           op[t].other \in Refs \cap M, wr_obj[op[t].other] # Null,
           wr_pself[op[t].other] # op[t].other
    PROVE  Opens(Script(t), op[t].self, {op[t].other, wr_pself[op[t].other]}, M)
<1>s. PICK s : s = op[t].self
  OBVIOUS
<1>x. PICK x : x = op[t].other
  OBVIOUS
<1>p. PICK p : p = wr_pself[x]
  OBVIOUS
<1>o. PICK o : o = wr_obj[x]
  OBVIOUS
<1>0. /\ s \in Refs /\ s \in (Refs \cup {Null}) \cap M /\ s \in Locs \cap M /\ x \in Refs
      /\ x \in (Refs \cup {Null}) \cap M /\ x \in Locs \cup {Null} /\ x # Null
      /\ o \in Objs /\ p \in Locs \cap M /\ p \in Locs /\ p # Null /\ p # x
  BY <1>s, <1>x, <1>p, <1>o, DistinctAssumption DEF Locs, Knows, FieldInv
<1> DEFINE d == Store(Null, s :> x, s :> p, s :> o)
           back == Store(x, Same, x :> s, Same)
           last == Store(p, p :> s, Same, Same)
<1>1. Script(t) = <<d, back, last>>
  BY <1>s, <1>x, <1>p, <1>o DEF Script
<1>2. d.unlock = Null /\ Writes(d) = {s} /\ s \in DOMAIN d.ptr /\ StoreOK(d, M)
  BY <1>0, OpenStore
<1>3. Closes(<<back>>, {x} \ {Null}, {} \cup ({p} \ {Null}), M)
  BY <1>0, CloseBack
<1>4. Closes(<<last>>, {p} \ {Null}, {}, M)
  BY <1>0, CloseLink
<1> HIDE DEF d, back, last
<1>5. Closes(<<back, last>>, ({x} \ {Null}) \cup ({p} \ {Null}), {}, M)
  BY <1>0, <1>3, <1>4, ClosesTwo
<1>6. ({x} \ {Null}) \cup ({p} \ {Null}) = {x, p} /\ <<d>> \o <<back, last>> = <<d, back, last>>
  <2>1. <<d>> \o <<back, last>> = <<d, back, last>>
    <3> DEFINE r == <<d>> \o <<back, last>>
    <3>1. <<d>> \in Seq({d, back, last}) /\ <<back, last>> \in Seq({d, back, last})
      OBVIOUS
    <3>2. r \in Seq({d, back, last}) /\ Len(r) = 3 /\ r[1] = d /\ r[2] = back /\ r[3] = last
      BY <3>1
    <3> HIDE DEF r
    <3>3. r = <<d, back, last>>
      BY <3>2
    <3> QED BY <3>3 DEF r
  <2> QED BY <1>0, <2>1
<1>7. Opens(<<d>> \o <<back, last>>, s, {x, p}, M)
  BY <1>2, <1>5, <1>6, OpenThen
<1> QED BY <1>s, <1>x, <1>p, <1>1, <1>6, <1>7

-----------------------------------------------------------------------------
(* The inductive invariant about locks *)

Creating == {"init", "copy"}

\* The thread is about to write the reference it creates, which nobody has seen yet.
Starting(t) == /\ pc[t] = "commit" /\ op[t].kind \in Creating
               /\ op[t].self \in DOMAIN Head(script[t]).ptr

\* Nobody has seen r, and whoever creates it has not written it yet.
Hidden(r) == /\ r \in Refs /\ life[r] = "new"
             /\ \A t \in Threads : pc[t] = "commit" /\ op[t].self = r => Starting(t)

Seen == {l \in Locs \cup {Null} : ~Hidden(l)}

Known(t) == Seen \cup {op[t].self}

\* The arguments of a call.
CallOK(t) ==
    /\ op[t].kind # "destroy" => op[t].self \in Refs
    /\ op[t].kind \in Binary => op[t].other \in Refs \ {op[t].self}
    /\ op[t].kind \in Binding \cup {"destroy"} => op[t].ob \in Objs
    /\ op[t].kind \in Creating => life[op[t].self] = "new"

\* Whoever creates a reference is the only one to name it.
Creates(t) ==
    \A r \in Refs : life[r] = "new" /\ r \in {op[t].self, op[t].other} =>
        /\ r = op[t].self /\ op[t].kind \in Creating
        /\ \A u \in Threads : u # t /\ pc[u] # "idle" => r # op[u].self /\ r # op[u].other

UseOK(t) == pc[t] # "idle" => CallOK(t) /\ Creates(t)

\* The locks of the thread's plan.
Lock(t, i) == Where(t, Plan[op[t].kind][i])

Locks(t, n) == {Lock(t, i) : i \in 1 .. n} \ {Null}

Distinct(t, n) == \A i, j \in 1 .. n : i < j /\ Lock(t, i) = Lock(t, j) => Lock(t, i) = Null

\* What a function goes on with has been found bound, or not empty.
Bound(t) == /\ op[t].kind \in Binary => wr_obj[op[t].other] # Null
            /\ op[t].kind \in {"clear", "fini"} => wr_obj[op[t].self] # Null
            /\ op[t].kind = "destroy" => ptr[op[t].ob] # Null

\* A thread has the locks of its plan up to the next one, which there is.
PlanOK(t) == pc[t] = "acquire" =>
    /\ stage[t] \in 1 .. Len(Plan[op[t].kind])
    /\ Lock(t, stage[t]) # Null
    /\ Ranked(held[t]) = Locks(t, stage[t] - 1)
    /\ Distinct(t, stage[t] - 1)
    /\ stage[t] > 1 => Bound(t)

\* The stores that a thread has left unlock what it holds.
CommitOK(t) == pc[t] = "commit" =>
    /\ script[t] # <<>>
    /\ op[t].kind \in Creating => after[t] = "return"
    /\ IF Starting(t) THEN Opens(script[t], op[t].self, Ranked(held[t]), Known(t))
       ELSE Closes(script[t], Ranked(held[t]), {}, Known(t))

Injective(s) == \A i, j \in 1 .. Len(s) : s[i] = s[j] => i = j

\* The locks a thread has taken, and when it has some.
HeldOK(t) ==
    /\ Injective(held[t])
    /\ \A l \in Locs : owner[l] = t <=> l \in Ranked(held[t])
    /\ pc[t] \in {"idle", "check", "wait"} => held[t] = <<>>
    /\ pc[t] \in {"use", "release"} => held[t] # <<>>
    /\ pc[t] \in {"idle", "check"} => stage[t] = 1
    /\ pc[t] # "idle" /\ op[t].kind \in Creating => op[t].self \notin Ranked(held[t])

\* The types of what belongs to the threads.
ThreadInv == /\ stage \in [Threads -> Nat]
             /\ held \in [Threads -> Seq(Locs)]
             /\ script = [t \in Threads |-> script[t]]
             /\ after = [t \in Threads |-> after[t]]
             /\ freed \subseteq Objs

\* Nothing points to a reference that nobody has seen, and it points nowhere.
HiddenInv == \A r \in Refs : Hidden(r) =>
    /\ owner[r] = Free /\ ptr[r] = Null
    /\ \A l \in Locs : ptr[l] # r
    /\ \A q \in Refs : wr_pself[q] # r

LockInv == /\ CallInv /\ FieldInv /\ ThreadInv /\ HiddenInv
           /\ \A t \in Threads : UseOK(t) /\ PlanOK(t) /\ CommitOK(t) /\ HeldOK(t)

\* Another lock.
LEMMA HeldAppend ==
    ASSUME NEW h \in Seq(Locs), Injective(h), NEW l \in Locs, l \notin Ranked(h)
    PROVE  /\ Append(h, l) \in Seq(Locs) /\ Append(h, l) # <<>> /\ Injective(Append(h, l))
           /\ Ranked(Append(h, l)) = Ranked(h) \cup {l}
<1> DEFINE g == Append(h, l)
           n == Len(h)
<1>1. /\ g \in Seq(Locs) /\ g # <<>> /\ Len(g) = n + 1 /\ n \in Nat
      /\ (\A i \in 1 .. n : g[i] = h[i]) /\ g[n + 1] = l
  BY AppendProperties
<1> HIDE DEF g
<1>2. \A i \in 1 .. n + 1 : i \in 1 .. n \/ i = n + 1
  BY <1>1
<1>3. \A i \in 1 .. n : h[i] # l
  BY DEF Ranked
<1>4. Injective(g)
  BY <1>1, <1>2, <1>3 DEF Injective
<1>5. Ranked(g) = Ranked(h) \cup {l}
  BY <1>1, <1>2 DEF Ranked
<1> QED BY <1>1, <1>4, <1>5 DEF g

\* The last lock is released.
LEMMA HeldPop ==
    ASSUME NEW h \in Seq(Locs), Injective(h), h # <<>>
    PROVE  LET g == SubSeq(h, 1, Len(h) - 1)
               l == h[Len(h)]
           IN  /\ g \in Seq(Locs) /\ Injective(g) /\ l \in Locs /\ l \in Ranked(h)
               /\ Ranked(g) = Ranked(h) \ {l}
               /\ (IF Len(h) > 1 THEN g # <<>> ELSE g = <<>>)
<1> DEFINE g == SubSeq(h, 1, Len(h) - 1)
           n == Len(h)
           l == h[n]
<1>1. n \in Nat /\ n > 0 /\ n \in 1 .. n /\ \A i \in 1 .. n : h[i] \in Locs
  BY EmptySeq
<1>2. /\ g \in Seq(Locs) /\ Len(g) = n - 1
      /\ \A i \in 1 .. n - 1 : g[i] = h[i]
  BY <1>1, SubSeqProperties
<1> HIDE DEF g
<1>3. \A i \in 1 .. n : i \in 1 .. n - 1 \/ i = n
  BY <1>1
<1>4. \A i \in 1 .. n - 1 : i \in 1 .. n /\ i # n
  BY <1>1
<1>5. Injective(g)
  BY <1>2, <1>4 DEF Injective
<1>6. Ranked(g) = Ranked(h) \ {l}
  <2>1. \A i \in 1 .. n - 1 : h[i] # l
    BY <1>1, <1>4 DEF Injective
  <2>2. Ranked(g) = {h[i] : i \in 1 .. n - 1}
    BY <1>2 DEF Ranked
  <2>3. Ranked(h) = {h[i] : i \in 1 .. n}
    BY DEF Ranked
  <2> HIDE DEF l, n
  <2>4. Ranked(h) = {h[i] : i \in 1 .. n - 1} \cup {h[n]}
    BY <1>1, <1>3, <1>4, <2>3
  <2> QED BY <2>1, <2>2, <2>4 DEF l
<1>7. IF n > 1 THEN g # <<>> ELSE g = <<>>
  BY <1>1, <1>2, EmptySeq
<1>8. l \in Locs /\ l \in Ranked(h)
  BY <1>1 DEF Ranked
<1> QED BY <1>2, <1>5, <1>6, <1>7, <1>8 DEF g

\* Any lock is released.
LEMMA HeldWithout ==
    ASSUME NEW h \in Seq(Locs), Injective(h), NEW l
    PROVE  /\ Without(h, l) \in Seq(Locs) /\ Injective(Without(h, l))
           /\ Ranked(Without(h, l)) = Ranked(h) \ {l}
<1>1. CASE l \notin Ranked(h)
  BY <1>1 DEF Without
<1>2. CASE l \in Ranked(h)
  <2> DEFINE n == Len(h)
             k == CHOOSE i \in 1 .. n : h[i] = l
             g == [j \in 1 .. n - 1 |-> IF j < k THEN h[j] ELSE h[j + 1]]
  <2>1. n \in Nat /\ \A i \in 1 .. n : h[i] \in Locs
    OBVIOUS
  <2>2. k \in 1 .. n /\ h[k] = l
    BY <1>2 DEF Ranked
  <2>3. Without(h, l) = g
    BY <1>2 DEF Without
  <2> HIDE DEF k
  <2>4. n - 1 \in Nat /\ g \in [1 .. n - 1 -> Locs]
    BY <2>1, <2>2
  <2>5. g \in Seq(Locs) /\ Len(g) = n - 1
    BY <2>4, SeqDef
  <2>6. \A j \in 1 .. n - 1 : g[j] = IF j < k THEN h[j] ELSE h[j + 1]
    OBVIOUS
  <2> HIDE DEF g, n
  <2>7. Injective(g)
    <3> SUFFICES ASSUME NEW i \in 1 .. n - 1, NEW j \in 1 .. n - 1, g[i] = g[j] PROVE i = j
      BY <2>5 DEF Injective
    <3>1. i \in 1 .. n /\ i + 1 \in 1 .. n /\ j \in 1 .. n /\ j + 1 \in 1 .. n
      BY <2>1
    <3>2. \A a, b \in 1 .. n : h[a] = h[b] => a = b
      BY DEF Injective, n
    <3>3. CASE i < k /\ j < k
      BY <2>6, <3>1, <3>2, <3>3
    <3>4. CASE i < k /\ ~(j < k)
      <4>1. h[i] = h[j + 1]
        BY <2>6, <3>4
      <4>2. i = j + 1
        BY <3>1, <3>2, <4>1
      <4> QED BY <2>1, <2>2, <3>4, <4>2
    <3>5. CASE ~(i < k) /\ j < k
      <4>1. h[j] = h[i + 1]
        BY <2>6, <3>5
      <4>2. j = i + 1
        BY <3>1, <3>2, <4>1
      <4> QED BY <2>1, <2>2, <3>5, <4>2
    <3>6. CASE ~(i < k) /\ ~(j < k)
      <4>1. h[i + 1] = h[j + 1]
        BY <2>6, <3>6
      <4>2. i + 1 = j + 1
        BY <3>1, <3>2, <4>1
      <4> QED BY <4>2
    <3> QED BY <3>3, <3>4, <3>5, <3>6
  <2>8. Ranked(g) \subseteq Ranked(h) \ {l}
    <3> SUFFICES ASSUME NEW j \in 1 .. n - 1 PROVE g[j] \in Ranked(h) \ {l}
      BY <2>5 DEF Ranked
    <3>1. j \in 1 .. n /\ j + 1 \in 1 .. n
      BY <2>1
    <3>2. \A a \in 1 .. n : h[a] \in Ranked(h) /\ (a # k => h[a] # l)
      BY <2>2 DEF Ranked, Injective, n
    <3>3. CASE j < k
      BY <2>2, <2>6, <3>1, <3>2, <3>3
    <3>4. CASE ~(j < k)
      <4>1. j + 1 # k
        BY <2>1, <2>2, <3>4
      <4> QED BY <2>6, <3>1, <3>2, <3>4, <4>1
    <3> QED BY <3>3, <3>4
  <2>9. Ranked(h) \ {l} \subseteq Ranked(g)
    <3> SUFFICES ASSUME NEW a \in 1 .. n, h[a] # l PROVE h[a] \in Ranked(g)
      BY DEF Ranked, n
    <3>1. a # k
      BY <2>2
    <3>2. CASE a < k
      <4>1. a \in 1 .. n - 1 /\ g[a] = h[a]
        BY <2>1, <2>2, <2>6, <3>2
      <4> QED BY <2>5, <4>1 DEF Ranked
    <3>3. CASE a > k
      <4>1. a - 1 \in 1 .. n - 1 /\ ~(a - 1 < k) /\ (a - 1) + 1 = a
        BY <2>1, <2>2, <3>3
      <4>2. g[a - 1] = h[a]
        BY <2>6, <4>1
      <4> QED BY <2>5, <4>1, <4>2 DEF Ranked
    <3> QED BY <2>1, <2>2, <3>1, <3>2, <3>3
  <2> QED BY <2>3, <2>5, <2>7, <2>8, <2>9
<1> QED BY <1>1, <1>2

\* Nothing is held.
LEMMA HeldNone == ASSUME NEW h \in Seq(Locs) PROVE Ranked(h) = {} <=> h = <<>>
<1>1. h # <<>> => 1 \in 1 .. Len(h)
  BY EmptySeq
<1>2. h = <<>> => Len(h) = 0
  BY EmptySeq
<1> QED BY <1>1, <1>2 DEF Ranked

\* What the steps of a plan are about.
LEMMA WhereIs ==
    ASSUME NEW t
    PROVE  /\ Where(t, "list") = op[t].ob /\ Where(t, "self") = op[t].self
           /\ Where(t, "other") = op[t].other
           /\ Where(t, "first") = ptr[op[t].ob] /\ Where(t, "second") = ptr[ptr[op[t].ob]]
           /\ Where(t, "sprev") = (IF wr_obj[op[t].self] = Null THEN Null ELSE wr_pself[op[t].self])
           /\ Where(t, "snext") = (IF wr_obj[op[t].self] = Null THEN Null ELSE ptr[op[t].self])
           /\ Where(t, "oprev") = wr_pself[op[t].other] /\ Where(t, "onext") = ptr[op[t].other]
BY DEF Where

\* The plans.
LEMMA PlanIs ==
    /\ Plan["init"] = <<"list", "first">> /\ Plan["copy"] = <<"other", "oprev">>
    /\ Plan["set"] = <<"self", "list", "first", "sprev", "snext">>
    /\ Plan["clear"] = <<"self", "sprev", "snext">> /\ Plan["fini"] = <<"self", "sprev", "snext">>
    /\ Plan["copyassign"] = <<"other", "oprev", "self", "sprev", "snext">>
    /\ Plan["moveassign"] = <<"other", "oprev", "onext", "self", "sprev", "snext">>
    /\ Plan["lock"] = <<"self">> /\ Plan["destroy"] = <<"list", "first", "second">>
BY DEF Plan

\* Their lengths.
LEMMA PlanLen ==
    ASSUME NEW k \in Kinds \cup {"destroy"}
    PROVE  /\ Len(Plan[k]) \in Nat \ {0}
           /\ k \in {"init", "copy"} => Len(Plan[k]) = 2
           /\ k \in {"clear", "fini", "destroy"} => Len(Plan[k]) = 3
           /\ k \in {"set", "copyassign"} => Len(Plan[k]) = 5
           /\ k = "moveassign" => Len(Plan[k]) = 6
           /\ k = "lock" => Len(Plan[k]) = 1
<1>1. CASE k = "init"
  BY <1>1, PlanIs
<1>2. CASE k = "copy"
  BY <1>2, PlanIs
<1>3. CASE k = "set"
  BY <1>3, PlanIs
<1>4. CASE k = "clear"
  BY <1>4, PlanIs
<1>5. CASE k = "fini"
  BY <1>5, PlanIs
<1>6. CASE k = "copyassign"
  BY <1>6, PlanIs
<1>7. CASE k = "moveassign"
  BY <1>7, PlanIs
<1>8. CASE k = "lock"
  BY <1>8, PlanIs
<1>9. CASE k = "destroy"
  BY <1>9, PlanIs
<1> QED BY <1>1, <1>2, <1>3, <1>4, <1>5, <1>6, <1>7, <1>8, <1>9 DEF Kinds

\* What is locked next is reached through what the function names or has locked.
LEMMA Guarded ==
    ASSUME NEW k \in Kinds \cup {"destroy"}, NEW j \in 1 .. Len(Plan[k])
    PROVE  /\ Plan[k][j] \in {"list", "first", "second", "self", "sprev", "snext",
                              "other", "oprev", "onext"}
           /\ Plan[k][j] = "list" => k \in Binding \cup {"destroy"}
           /\ Plan[k][j] \in {"self", "sprev", "snext"} => k # "destroy" /\ k \notin Creating
           /\ Plan[k][j] \in {"other", "oprev", "onext"} => k \in Binary
           /\ Plan[k][j] \in {"first", "second"} =>
                k \in Binding \cup {"destroy"} /\ \E i \in 1 .. j - 1 : Plan[k][i] = "list"
           /\ Plan[k][j] = "second" => k = "destroy" /\ \E i \in 1 .. j - 1 : Plan[k][i] = "first"
           /\ Plan[k][j] \in {"sprev", "snext"} => \E i \in 1 .. j - 1 : Plan[k][i] = "self"
           /\ Plan[k][j] \in {"oprev", "onext"} => \E i \in 1 .. j - 1 : Plan[k][i] = "other"
           /\ j = 1 => Plan[k][j] \in {"list", "self", "other"}
<1>0. k \in {"init", "copy", "set", "clear", "copyassign", "moveassign", "lock", "fini", "destroy"}
  BY DEF Kinds
<1> USE PlanIs DEF Binary, Binding, Creating
<1>1. CASE k = "init"
  BY <1>1
<1>2. CASE k = "copy"
  BY <1>2
<1>3. CASE k = "set"
  BY <1>3
<1>4. CASE k = "clear" \/ k = "fini"
  BY <1>4
<1>5. CASE k = "copyassign"
  BY <1>5
<1>6. CASE k = "moveassign"
  BY <1>6
<1>7. CASE k = "lock"
  BY <1>7
<1>8. CASE k = "destroy"
  BY <1>8
<1> QED BY <1>0, <1>1, <1>2, <1>3, <1>4, <1>5, <1>6, <1>7, <1>8

\* The same after a step.
LEMMA WhereIsNext ==
    ASSUME NEW t
    PROVE  /\ Where(t, "list")' = op'[t].ob /\ Where(t, "self")' = op'[t].self
           /\ Where(t, "other")' = op'[t].other
           /\ Where(t, "first")' = ptr'[op'[t].ob] /\ Where(t, "second")' = ptr'[ptr'[op'[t].ob]]
           /\ Where(t, "sprev")' = (IF wr_obj'[op'[t].self] = Null THEN Null ELSE wr_pself'[op'[t].self])
           /\ Where(t, "snext")' = (IF wr_obj'[op'[t].self] = Null THEN Null ELSE ptr'[op'[t].self])
           /\ Where(t, "oprev")' = wr_pself'[op'[t].other] /\ Where(t, "onext")' = ptr'[op'[t].other]
BY DEF Where

\* The fields at l are not written.
Kept(l) == ptr'[l] = ptr[l] /\ (l \in Refs => wr_pself'[l] = wr_pself[l] /\ wr_obj'[l] = wr_obj[l])

\* What has been locked stays what the plan says while nobody writes it.
LEMMA GuardsKept ==
    ASSUME NEW t, op[t].kind \in Kinds \cup {"destroy"}, CallOK(t), PlanOK(t), pc[t] = "acquire",
           stage[t] \in Nat, op'[t] = op[t], \A l \in Ranked(held[t]) : Kept(l)
    PROVE  /\ \A j \in 1 .. stage[t] : Lock(t, j)' = Lock(t, j)
           /\ stage[t] > 1 => Bound(t)'
<1> DEFINE k == op[t].kind
           n == stage[t]
           plan == Plan[k]
<1>1. /\ n \in 1 .. Len(plan) /\ Ranked(held[t]) = Locks(t, n - 1)
      /\ n > 1 => Bound(t)
  BY DEF PlanOK
<1>n. n \in Nat
  OBVIOUS
<1>2. ASSUME NEW j \in 1 .. n, NEW i \in 1 .. j - 1
      PROVE  Where(t, plan[i]) # Null => Kept(Where(t, plan[i]))
  <2>1. i \in 1 .. n - 1
    BY <1>n
  <2>2. Where(t, plan[i]) # Null => Where(t, plan[i]) \in Locks(t, n - 1)
    BY <2>1 DEF Locks, Lock
  <2> QED BY <1>1, <2>2
<1>k. k \in Kinds \cup {"destroy"}
  OBVIOUS
<1>3. ASSUME NEW j \in 1 .. n PROVE Lock(t, j)' = Lock(t, j)
  <2> DEFINE what == plan[j]
  <2>0. n \in Int /\ j \in 1 .. Len(plan)
    BY <1>1, <1>n
  <2>1. Lock(t, j) = Where(t, what) /\ Lock(t, j)' = Where(t, what)'
    BY DEF Lock
  <2>g. /\ what \in {"list", "first", "second", "self", "sprev", "snext", "other", "oprev", "onext"}
        /\ what = "list" => k \in Binding \cup {"destroy"}
        /\ what \in {"self", "sprev", "snext"} => k # "destroy"
        /\ what \in {"other", "oprev", "onext"} => k \in Binary
        /\ what \in {"first", "second"} =>
             k \in Binding \cup {"destroy"} /\ \E i \in 1 .. j - 1 : plan[i] = "list"
        /\ what = "second" => k = "destroy" /\ \E i \in 1 .. j - 1 : plan[i] = "first"
        /\ what \in {"sprev", "snext"} => \E i \in 1 .. j - 1 : plan[i] = "self"
        /\ what \in {"oprev", "onext"} => \E i \in 1 .. j - 1 : plan[i] = "other"
    BY <1>k, <2>0, Guarded
  <2>2. CASE what \in {"list", "self", "other"}
    BY <2>1, <2>2, WhereIs, WhereIsNext
  <2> DEFINE s == op[t].self
             x == op[t].other
             o == op[t].ob
  <2>3. CASE what \in {"first", "second"}
    <3>1. o \in Objs /\ o # Null
      BY <2>3, <2>g, DistinctAssumption DEF CallOK
    <3>2. PICK i \in 1 .. j - 1 : plan[i] = "list"
      BY <2>3, <2>g
    <3>3. Where(t, "list") = o
      BY WhereIs
    <3>4. Where(t, plan[i]) = o
      BY <3>2, <3>3
    <3>5. ptr'[o] = ptr[o]
      BY <1>2, <3>1, <3>4 DEF Kept
    <3>6. CASE what = "first"
      BY <2>1, <3>5, <3>6, WhereIs, WhereIsNext
    <3>7. CASE what = "second"
      <4>1. PICK m \in 1 .. j - 1 : plan[m] = "first"
        BY <2>g, <3>7
      <4>2. Where(t, "first") = ptr[o]
        BY WhereIs
      <4>3. n > 1
        BY <1>n, <4>1
      <4>4. ptr[o] # Null
        BY <1>1, <2>g, <3>7, <4>3 DEF Bound
      <4>5. ptr'[ptr[o]] = ptr[ptr[o]]
        BY <1>2, <4>1, <4>2, <4>4 DEF Kept
      <4> QED BY <2>1, <3>5, <3>7, <4>5, WhereIs, WhereIsNext
    <3> QED BY <2>3, <3>6, <3>7
  <2>4. CASE what \in {"sprev", "snext"}
    <3>1. s \in Refs /\ s # Null
      BY <2>4, <2>g, DistinctAssumption DEF CallOK
    <3>2. PICK i \in 1 .. j - 1 : plan[i] = "self"
      BY <2>4, <2>g
    <3>3. Where(t, "self") = s
      BY WhereIs
    <3>4. Where(t, plan[i]) = s
      BY <3>2, <3>3
    <3>5. ptr'[s] = ptr[s] /\ wr_pself'[s] = wr_pself[s] /\ wr_obj'[s] = wr_obj[s]
      BY <1>2, <3>1, <3>4 DEF Kept
    <3> QED BY <2>1, <2>4, <3>5, WhereIs, WhereIsNext
  <2>5. CASE what \in {"oprev", "onext"}
    <3>1. x \in Refs /\ x # Null
      BY <2>5, <2>g, DistinctAssumption DEF CallOK
    <3>2. PICK i \in 1 .. j - 1 : plan[i] = "other"
      BY <2>5, <2>g
    <3>3. Where(t, "other") = x
      BY WhereIs
    <3>4. Where(t, plan[i]) = x
      BY <3>2, <3>3
    <3>5. ptr'[x] = ptr[x] /\ wr_pself'[x] = wr_pself[x]
      BY <1>2, <3>1, <3>4 DEF Kept
    <3> QED BY <2>1, <2>5, <3>5, WhereIs, WhereIsNext
  <2> QED BY <2>2, <2>3, <2>4, <2>5, <2>g
<1>4. ASSUME n > 1 PROVE Bound(t)'
  <2>1. 2 \in 1 .. n /\ 1 \in 1 .. 2 - 1 /\ Bound(t)
    BY <1>1, <1>n, <1>4
  <2>2. Where(t, plan[1]) # Null => Kept(Where(t, plan[1]))
    BY <1>2, <2>1
  <2>3. ASSUME k \in Binary PROVE wr_obj'[op'[t].other] # Null
    <3>1. plan[1] = "other" /\ op[t].other \in Refs
      BY <2>3, PlanIs DEF Binary, CallOK
    <3>2. Where(t, plan[1]) = op[t].other /\ op[t].other # Null
      BY <3>1, WhereIs, DistinctAssumption
    <3> QED BY <2>1, <2>2, <2>3, <3>1, <3>2 DEF Bound, Kept
  <2>4. ASSUME k \in {"clear", "fini"} PROVE wr_obj'[op'[t].self] # Null
    <3>1. plan[1] = "self" /\ op[t].self \in Refs
      BY <2>4, PlanIs DEF CallOK
    <3>2. Where(t, plan[1]) = op[t].self /\ op[t].self # Null
      BY <3>1, WhereIs, DistinctAssumption
    <3> QED BY <2>1, <2>2, <2>4, <3>1, <3>2 DEF Bound, Kept
  <2>5. ASSUME k = "destroy" PROVE ptr'[op'[t].ob] # Null
    <3>1. plan[1] = "list" /\ op[t].ob \in Objs
      BY <2>5, PlanIs DEF CallOK
    <3>2. Where(t, plan[1]) = op[t].ob /\ op[t].ob # Null
      BY <3>1, WhereIs, DistinctAssumption
    <3> QED BY <2>1, <2>2, <2>5, <3>2 DEF Bound, Kept
  <2> QED BY <2>3, <2>4, <2>5 DEF Bound
<1> QED BY <1>3, <1>4

\* The plan of a thread that stands still.
LEMMA PlanKept ==
    ASSUME NEW t, op[t].kind \in Kinds \cup {"destroy"}, UseOK(t), PlanOK(t),
           stage[t] \in Nat, op'[t] = op[t], pc'[t] = pc[t], stage'[t] = stage[t], held'[t] = held[t],
           \A l \in Ranked(held[t]) : Kept(l)
    PROVE  PlanOK(t)'
<1> SUFFICES ASSUME pc[t] = "acquire" PROVE PlanOK(t)'
  BY DEF PlanOK
<1>1. CallOK(t)
  BY DEF UseOK
<1>2. /\ \A j \in 1 .. stage[t] : Lock(t, j)' = Lock(t, j)
      /\ stage[t] > 1 => Bound(t)'
  BY <1>1, GuardsKept
<1> DEFINE n == stage[t]
<1>3. /\ n \in 1 .. Len(Plan[op[t].kind]) /\ Lock(t, n) # Null
      /\ Ranked(held[t]) = Locks(t, n - 1) /\ Distinct(t, n - 1)
  BY DEF PlanOK
<1>4. n \in 1 .. n /\ \A j \in 1 .. n - 1 : j \in 1 .. n
  BY <1>3
<1>5. Lock(t, n)' = Lock(t, n)
  BY <1>2, <1>4
<1>6. Locks(t, stage[t] - 1)' = Locks(t, n - 1)
  BY <1>2, <1>4 DEF Locks
<1>7. Distinct(t, stage[t] - 1)'
  BY <1>2, <1>3, <1>4 DEF Distinct
<1>8. Lock(t, stage[t])' # Null
  BY <1>3, <1>5
<1>9. Ranked(held[t])' = Ranked(held[t])
  BY DEF Ranked
<1> QED BY <1>2, <1>3, <1>6, <1>7, <1>8, <1>9 DEF PlanOK

-----------------------------------------------------------------------------
(* What nobody has seen *)

\* The fields point to what has been seen.
LEMMA FieldsSeen ==
    ASSUME FieldInv, HiddenInv, NEW t
    PROVE  /\ Knows(Known(t)) /\ op[t].self \in Known(t) /\ Seen \subseteq Known(t)
           /\ \A l \in Locs : ptr[l] \in Seen
           /\ \A r \in Refs : wr_pself[r] \in Seen
           /\ Objs \subseteq Seen
<1>1. \A l \in Locs : ptr[l] \in Locs \cup {Null} /\ ~Hidden(ptr[l])
  BY DEF FieldInv, HiddenInv, Hidden, Locs
<1>2. \A r \in Refs : wr_pself[r] \in Locs \cup {Null} /\ ~Hidden(wr_pself[r])
  BY DEF FieldInv, HiddenInv, Hidden, Locs
<1>3. Objs \subseteq Seen /\ Null \in Seen
  BY DistinctAssumption DEF Seen, Hidden, Locs
<1> QED BY <1>1, <1>2, <1>3 DEF Knows, Known, Seen

\* What a call names has been seen, but for what it creates.
LEMMA NamesSeen ==
    ASSUME NEW t, UseOK(t), pc[t] # "idle"
    PROVE  /\ op[t].kind \notin Creating /\ op[t].kind # "destroy" => op[t].self \in Seen
           /\ op[t].kind \in Binary => op[t].other \in Seen
<1>1. CallOK(t) /\ Creates(t)
  BY DEF UseOK
<1> QED BY <1>1 DEF CallOK, Creates, Seen, Hidden, Locs

\* A reference that is being created is hidden until its creator writes it.
LEMMA CreatingHidden ==
    ASSUME NEW t \in Threads, UseOK(t), pc[t] \notin {"idle", "commit"}, op[t].kind \in Creating
    PROVE  Hidden(op[t].self)
<1>1. CallOK(t) /\ Creates(t)
  BY DEF UseOK
<1>2. op[t].self \in Refs /\ life[op[t].self] = "new"
  BY <1>1 DEF CallOK, Creating
<1>3. \A u \in Threads : u # t /\ pc[u] # "idle" => op[t].self # op[u].self
  BY <1>1, <1>2 DEF Creates
<1> QED BY <1>2, <1>3 DEF Hidden

\* What is locked is a location that has been seen.
LEMMA LockSeen ==
    ASSUME FieldInv, HiddenInv, NEW t, UseOK(t), pc[t] # "idle",
           op[t].kind \in Kinds \cup {"destroy"}, NEW j \in 1 .. Len(Plan[op[t].kind]),
           j > 1 => Bound(t)
    PROVE  /\ Lock(t, j) \in Seen /\ Lock(t, j) \in Locs \cup {Null}
           /\ j = 1 => Lock(t, j) # Null
<1> DEFINE k == op[t].kind
           what == Plan[k][j]
<1>1. CallOK(t)
  BY DEF UseOK
<1>2. Lock(t, j) = Where(t, what)
  BY DEF Lock
<1>3. k \in Kinds \cup {"destroy"} /\ j \in 1 .. Len(Plan[k])
  OBVIOUS
<1>g. /\ what \in {"list", "first", "second", "self", "sprev", "snext", "other", "oprev", "onext"}
      /\ what = "list" => k \in Binding \cup {"destroy"}
      /\ what \in {"self", "sprev", "snext"} => k # "destroy" /\ k \notin Creating
      /\ what \in {"other", "oprev", "onext"} => k \in Binary
      /\ what \in {"first", "second"} =>
           k \in Binding \cup {"destroy"} /\ \E i \in 1 .. j - 1 : Plan[k][i] = "list"
      /\ what = "second" => k = "destroy"
      /\ j = 1 => what \in {"list", "self", "other"}
  BY <1>3, Guarded
<1>4. /\ \A l \in Locs : ptr[l] \in Seen
      /\ \A r \in Refs : wr_pself[r] \in Seen
      /\ Objs \subseteq Seen /\ Null \in Seen /\ Seen \subseteq Locs \cup {Null}
  BY FieldsSeen, DistinctAssumption DEF Seen, Hidden, Locs
<1>5. /\ k \notin Creating /\ k # "destroy" => op[t].self \in Seen
      /\ k \in Binary => op[t].other \in Seen
  BY NamesSeen
<1>6. CASE what \in {"list", "self", "other"}
  <2>1. Where(t, what) \in Seen
    BY <1>1, <1>4, <1>5, <1>6, <1>g, WhereIs DEF CallOK
  <2>2. Where(t, what) # Null
    BY <1>1, <1>6, <1>g, WhereIs, DistinctAssumption DEF CallOK
  <2> QED BY <1>2, <1>4, <2>1, <2>2
<1>7. CASE what \in {"first", "second"}
  <2>1. op[t].ob \in Objs /\ op[t].ob \in Locs /\ j # 1
    BY <1>1, <1>7, <1>g DEF CallOK, Locs
  <2>2. what = "second" => ptr[op[t].ob] \in Locs
    BY <1>g, <2>1, <1>3 DEF Bound, FieldInv, Locs
  <2> QED BY <1>2, <1>4, <1>7, <2>1, <2>2, WhereIs
<1>8. CASE what \in {"sprev", "snext"}
  <2>1. op[t].self \in Refs /\ op[t].self \in Locs /\ j # 1
    BY <1>1, <1>8, <1>g DEF CallOK, Locs
  <2> QED BY <1>2, <1>4, <1>8, <2>1, WhereIs
<1>9. CASE what \in {"oprev", "onext"}
  <2>1. op[t].other \in Refs /\ op[t].other \in Locs /\ j # 1
    BY <1>1, <1>9, <1>g DEF CallOK, Locs
  <2> QED BY <1>2, <1>4, <1>9, <2>1, WhereIs
<1> QED BY <1>g, <1>6, <1>7, <1>8, <1>9

-----------------------------------------------------------------------------
(* What a step of one thread leaves alone *)

\* The other threads stand still.
Others(t) == \A u \in Threads : u # t =>
    /\ pc'[u] = pc[u] /\ op'[u] = op[u] /\ stage'[u] = stage[u] /\ held'[u] = held[u]
    /\ script'[u] = script[u] /\ after'[u] = after[u]

\* No reference becomes new, and one ceases to be new when the call that creates it ends.
LifeStep(t) ==
    /\ life' \in [Refs -> {"new", "live", "dying", "gone"}]
    /\ \A r \in Refs : life'[r] = "new" => life[r] = "new"
    /\ \A r \in Refs : life[r] = "new" /\ life'[r] # "new" => r = op[t].self /\ pc'[t] = "idle"

\* The call goes on, as it is or as a Dee_weakref_clear, or ends.
CallStep(t) == pc'[t] # "idle" =>
    \/ op'[t] = op[t]
    \/ op'[t] = Cleared(op[t]) /\ op[t].kind \in Binary \ Creating

\* References stay with whoever names them.
LEMMA UseStep ==
    ASSUME NEW t \in Threads, \A u \in Threads : UseOK(u), op[t] \in CallTypes,
           Others(t), LifeStep(t), CallStep(t), pc[t] # "idle"
    PROVE  \A u \in Threads : UseOK(u)'
<1>1. \A u \in Threads : pc'[u] # "idle" => pc[u] # "idle" /\ CallOK(u) /\ Creates(u)
  BY DEF UseOK, Others
<1>2. Cleared(op[t]).self = op[t].self /\ Cleared(op[t]).other = Null /\ Cleared(op[t]).kind = "clear"
  BY DEF Cleared, CallTypes
<1>3. \A u \in Threads : pc'[u] # "idle" =>
          op'[u].self = op[u].self /\ op'[u].other \in {op[u].other, Null}
  BY <1>2 DEF Others, CallStep
<1>4. ASSUME NEW u \in Threads, pc'[u] # "idle", op'[u] = op[u] PROVE CallOK(u)' /\ Creates(u)'
  <2>1. CallOK(u)'
    <3>1. ASSUME op[u].kind \in Creating PROVE life'[op[u].self] = "new"
      <4>1. op[u].self \in Refs /\ life[op[u].self] = "new"
        BY <1>1, <1>4, <3>1 DEF CallOK, Creating
      <4>2. CASE u = t
        BY <1>4, <4>1, <4>2 DEF LifeStep
      <4>3. CASE u # t
        <5>1. op[u].self # op[t].self
          BY <1>1, <1>4, <4>1, <4>3 DEF Creates
        <5> QED BY <4>1, <5>1 DEF LifeStep
      <4> QED BY <4>2, <4>3
    <3> QED BY <1>1, <1>4, <3>1 DEF CallOK
  <2>2. Creates(u)'
    <3> SUFFICES ASSUME NEW r \in Refs, life'[r] = "new", r \in {op'[u].self, op'[u].other}
                 PROVE  /\ r = op'[u].self /\ op'[u].kind \in Creating
                        /\ \A v \in Threads : v # u /\ pc'[v] # "idle" => r # op'[v].self /\ r # op'[v].other
      BY DEF Creates
    <3>1. life[r] = "new" /\ r # Null
      BY DistinctAssumption DEF LifeStep
    <3>2. /\ r = op[u].self /\ op[u].kind \in Creating
          /\ \A v \in Threads : v # u /\ pc[v] # "idle" => r # op[v].self /\ r # op[v].other
      BY <1>1, <1>4, <3>1 DEF Creates
    <3> QED BY <1>1, <1>3, <1>4, <3>1, <3>2
  <2> QED BY <2>1, <2>2
<1>5. ASSUME pc'[t] # "idle", op'[t] = Cleared(op[t]), op[t].kind \in Binary \ Creating
      PROVE  CallOK(t)' /\ Creates(t)'
  <2>1. op[t].self \in Refs /\ op'[t].self = op[t].self /\ op'[t].other = Null /\ op'[t].kind = "clear"
    BY <1>1, <1>2, <1>5 DEF CallOK, Binary
  <2>2. life[op[t].self] # "new"
    BY <1>1, <1>5, <2>1 DEF Creates
  <2>3. CallOK(t)'
    BY <2>1 DEF CallOK, Binary, Binding, Creating
  <2>4. Creates(t)'
    BY <2>1, <2>2, DistinctAssumption DEF Creates, LifeStep
  <2> QED BY <2>3, <2>4
<1>6. \A u \in Threads : u # t => op'[u] = op[u]
  BY DEF Others
<1> QED BY <1>4, <1>5, <1>6 DEF UseOK, CallStep

\* What nobody has seen was hidden before.
LEMMA HiddenQuiet ==
    ASSUME NEW t \in Threads, pc[t] # "commit", Others(t),
           \A r \in Refs : life'[r] = "new" => life[r] = "new"
    PROVE  \A r : Hidden(r)' => Hidden(r)
BY DEF Hidden, Starting, Others

\* The stores that a thread has left, when it stands still.
LEMMA CommitKept ==
    ASSUME NEW u, CommitOK(u), pc'[u] = pc[u], op'[u] = op[u], held'[u] = held[u],
           script'[u] = script[u], after'[u] = after[u], \A r : Hidden(r)' => Hidden(r)
    PROVE  CommitOK(u)'
<1> SUFFICES ASSUME pc[u] = "commit" PROVE CommitOK(u)'
  BY DEF CommitOK
<1>1. Starting(u)' <=> Starting(u)
  BY DEF Starting
<1>2. Known(u) \subseteq Known(u)'
  BY DEF Known, Seen
<1>3. Ranked(held[u])' = Ranked(held[u])
  BY DEF Ranked
<1>4. Closes(script[u], Ranked(held[u]), {}, Known(u)) =>
        Closes(script[u], Ranked(held[u]), {}, Known(u)')
  BY <1>2, ClosesMore
<1>5. Opens(script[u], op[u].self, Ranked(held[u]), Known(u)) =>
        Opens(script[u], op[u].self, Ranked(held[u]), Known(u)')
  BY <1>2, ClosesMore DEF Opens, StoreOK
<1>6. Closes(script[u], Ranked(held[u]), {}, Known(u))'
        <=> Closes(script[u], Ranked(held[u]), {}, Known(u)')
  BY <1>3 DEF Closes, StoreOK, Writes, Ranked
<1>7. Opens(script[u], op[u].self, Ranked(held[u]), Known(u))'
        <=> Opens(script[u], op[u].self, Ranked(held[u]), Known(u)')
  BY <1>3 DEF Opens, Closes, StoreOK, Writes, Ranked
<1> QED BY <1>1, <1>4, <1>5, <1>6, <1>7 DEF CommitOK

\* The locks of a thread that stands still.
LEMMA HeldKept ==
    ASSUME NEW u, HeldOK(u), pc'[u] = pc[u], op'[u] = op[u], held'[u] = held[u], stage'[u] = stage[u],
           \A l \in Locs : owner'[l] = u <=> owner[l] = u
    PROVE  HeldOK(u)'
<1>1. Ranked(held[u])' = Ranked(held[u]) /\ (Injective(held[u])' <=> Injective(held[u]))
  BY DEF Ranked, Injective
<1> QED BY <1>1 DEF HeldOK

\* Only locks of t are taken or released.
OwnerStep(t) ==
    /\ owner' \in [Locs -> Threads \cup {Free}]
    /\ \A l \in Locs : owner'[l] = owner[l] \/ (owner[l] \in {t, Free} /\ owner'[l] \in {t, Free})

ThreadOK(t) == PlanOK(t) /\ CommitOK(t) /\ HeldOK(t)

\* The other threads are as well off as before a step that leaves what they have locked
\* alone and hides nothing.
LEMMA OthersKept ==
    ASSUME LockInv, NEW t \in Threads, Others(t), OwnerStep(t),
           \A r : Hidden(r)' => Hidden(r),
           \A l \in Locs : owner[l] \notin {t, Free} => Kept(l)
    PROVE  \A u \in Threads : u # t => ThreadOK(u)'
<1> SUFFICES ASSUME NEW u \in Threads, u # t PROVE ThreadOK(u)'
  OBVIOUS
<1>0. CallInv /\ ThreadInv /\ UseOK(u) /\ PlanOK(u) /\ CommitOK(u) /\ HeldOK(u)
  BY DEF LockInv
<1>1. /\ pc'[u] = pc[u] /\ op'[u] = op[u] /\ stage'[u] = stage[u] /\ held'[u] = held[u]
      /\ script'[u] = script[u] /\ after'[u] = after[u]
  BY DEF Others
<1>2. \A l \in Locs : owner'[l] = u <=> owner[l] = u
  BY DistinctAssumption DEF OwnerStep
<1>3. op[u].kind \in Kinds \cup {"destroy"} /\ stage[u] \in Nat /\ held[u] \in Seq(Locs)
  BY <1>0 DEF CallInv, CallTypes, ThreadInv
<1>4. Ranked(held[u]) \subseteq Locs
  BY <1>3, RankedSeq
<1>5. \A l \in Ranked(held[u]) : Kept(l)
  <2> SUFFICES ASSUME NEW l \in Ranked(held[u]) PROVE Kept(l)
    OBVIOUS
  <2>1. l \in Locs /\ owner[l] = u
    BY <1>0, <1>4 DEF HeldOK
  <2> QED BY <2>1, DistinctAssumption
<1>6. PlanOK(u)'
  BY <1>0, <1>1, <1>3, <1>5, PlanKept
<1>7. CommitOK(u)'
  BY <1>0, <1>1, CommitKept
<1>8. HeldOK(u)'
  BY <1>0, <1>1, <1>2, HeldKept
<1> QED BY <1>6, <1>7, <1>8 DEF ThreadOK

\* A step that writes no field preserves the invariant if the thread itself does.
LEMMA QuietStep ==
    ASSUME LockInv, CallInv', ThreadInv', NEW t \in Threads, pc[t] # "commit", Others(t),
           UNCHANGED fields, OwnerStep(t), LifeStep(t), \A u \in Threads : UseOK(u)',
           ThreadOK(t)', \A l \in Locs : owner[l] = Free /\ owner'[l] # Free => l \in Seen
    PROVE  LockInv'
<1>0. FieldInv /\ HiddenInv
  BY DEF LockInv
<1>1. \A r : Hidden(r)' => Hidden(r)
  BY HiddenQuiet DEF LifeStep
<1>2. \A l : Kept(l)
  BY DEF fields, Kept
<1>3. \A u \in Threads : u # t => ThreadOK(u)'
  BY <1>1, <1>2, OthersKept
<1>4. FieldInv'
  BY <1>0 DEF fields, FieldInv, OwnerStep, LifeStep
<1>5. HiddenInv'
  <2> SUFFICES ASSUME NEW r \in Refs, Hidden(r)'
               PROVE  /\ owner'[r] = Free /\ ptr'[r] = Null
                      /\ \A l \in Locs : ptr'[l] # r
                      /\ \A q \in Refs : wr_pself'[q] # r
    BY DEF HiddenInv
  <2>1. Hidden(r)
    BY <1>1
  <2>2. /\ owner[r] = Free /\ ptr[r] = Null
        /\ \A l \in Locs : ptr[l] # r
        /\ \A q \in Refs : wr_pself[q] # r
    BY <1>0, <2>1 DEF HiddenInv
  <2>3. r \in Locs /\ r \notin Seen
    BY <2>1 DEF Seen, Locs
  <2> QED BY <2>2, <2>3 DEF fields
<1> QED BY <1>3, <1>4, <1>5 DEF LockInv, ThreadOK

-----------------------------------------------------------------------------
(* Where a thread goes *)

\* A thread that holds nothing and is at rest.
LEMMA Rests ==
    ASSUME NEW t, pc'[t] \in {"idle", "check", "wait"}, held'[t] = <<>>,
           pc'[t] \in {"idle", "check"} => stage'[t] = 1, \A l \in Locs : owner'[l] # t
    PROVE  ThreadOK(t)'
<1>1. Injective(held[t])' /\ Ranked(held[t])' = {}
  BY DEF Injective, Ranked
<1> QED BY <1>1 DEF ThreadOK, PlanOK, CommitOK, HeldOK

\* A thread that begins with its plan.
LEMMA Begins ==
    ASSUME NEW t, pc'[t] = "acquire", held'[t] = <<>>, stage'[t] = 1, \A l \in Locs : owner'[l] # t,
           op'[t].kind \in Kinds \cup {"destroy"}, CallOK(t)'
    PROVE  ThreadOK(t)'
<1>k. PICK k : k = op'[t].kind
  OBVIOUS
<1>1. Injective(held[t])' /\ Ranked(held[t])' = {}
  BY DEF Injective, Ranked
<1>2. Len(Plan[k]) \in Nat \ {0}
  BY <1>k, PlanLen
<1>3. 1 \in 1 .. Len(Plan[k])
  BY <1>2
<1>4. /\ Plan[k][1] \in {"list", "self", "other"}
      /\ Plan[k][1] = "list" => k \in Binding \cup {"destroy"}
      /\ Plan[k][1] = "self" => k # "destroy"
      /\ Plan[k][1] = "other" => k \in Binary
  BY <1>k, <1>3, Guarded
<1>5. Lock(t, stage[t])' = Where(t, Plan[k][1])'
  BY <1>k DEF Lock
<1>6. Where(t, Plan[k][1])' # Null
  BY <1>k, <1>4, WhereIsNext, DistinctAssumption DEF CallOK
<1>7. Locks(t, stage[t] - 1)' = {} /\ Distinct(t, stage[t] - 1)'
  BY DEF Locks, Distinct
<1>8. PlanOK(t)'
  <2>1. stage'[t] \in 1 .. Len(Plan[op'[t].kind])
    BY <1>k, <1>3
  <2>2. Lock(t, stage[t])' # Null
    BY <1>5, <1>6
  <2>3. ~(stage'[t] > 1)
    OBVIOUS
  <2> QED BY <1>1, <1>7, <2>1, <2>2, <2>3 DEF PlanOK
<1>9. CommitOK(t)' /\ HeldOK(t)'
  BY <1>1 DEF CommitOK, HeldOK
<1> QED BY <1>8, <1>9 DEF ThreadOK

\* Locks that a thread gives up, so that it has none.
LEMMA OwnsNone ==
    ASSUME NEW t, HeldOK(t), held[t] = <<>>, owner' = owner
    PROVE  \A l \in Locs : owner'[l] # t
BY DEF HeldOK, Ranked

\* The end of a call.
LEMMA ReturnEffect ==
    ASSUME LockInv, NEW t \in Threads, Return(t), pc[t] # "idle", held'[t] = <<>>,
           \A l \in Locs : owner'[l] # t, held' \in [Threads -> Seq(Locs)],
           script' = [u \in Threads |-> script'[u]],
           \A u \in Threads : u # t => held'[u] = held[u] /\ script'[u] = script[u]
    PROVE  /\ Others(t) /\ ThreadOK(t)' /\ ThreadInv' /\ LifeStep(t) /\ pc'[t] = "idle"
           /\ \A u \in Threads : UseOK(u)'
<1>0. CallInv /\ ThreadInv /\ FieldInv /\ UseOK(t) /\ \A u \in Threads : UseOK(u)
  BY DEF LockInv
<1>1. /\ pc' = [pc EXCEPT ![t] = "idle"] /\ op' = [op EXCEPT ![t] = NoOp]
      /\ stage' = [stage EXCEPT ![t] = 1] /\ after' = [after EXCEPT ![t] = "return"]
  BY DEF Return, Goto
<1>2. pc'[t] = "idle" /\ stage'[t] = 1
  BY <1>0, <1>1 DEF CallInv, ThreadInv
<1>3. Others(t)
  BY <1>0, <1>1 DEF Others, CallInv, ThreadInv
<1>4. CallOK(t)
  BY <1>0 DEF UseOK
<1>5. freed' \subseteq Objs
  BY <1>0, <1>4 DEF Return, ThreadInv, CallOK
<1>6. ThreadInv'
  BY <1>0, <1>1, <1>5 DEF ThreadInv
<1>7. ThreadOK(t)'
  BY <1>2, Rests
<1>8. life' \in [Refs -> {"new", "live", "dying", "gone"}]
      /\ \A r \in Refs : life'[r] = life[r] \/ (r = op[t].self /\ life'[r] # "new")
  <2>1. \/ life' = [life EXCEPT ![op[t].self] = "live"]
        \/ life' = [life EXCEPT ![op[t].self] = "gone"]
        \/ life' = life
    BY DEF Return
  <2> QED BY <1>0, <2>1 DEF FieldInv
<1>9. LifeStep(t)
  BY <1>2, <1>8 DEF LifeStep
<1>10. op[t] \in CallTypes /\ CallStep(t)
  BY <1>0, <1>2 DEF CallInv, CallStep
<1>11. \A u \in Threads : UseOK(u)'
  BY <1>0, <1>3, <1>9, <1>10, UseStep
<1> QED BY <1>2, <1>3, <1>6, <1>7, <1>9, <1>11

\* A call starts over.
LEMMA AgainEffect ==
    ASSUME LockInv, NEW t \in Threads, Again(t), pc[t] # "idle", held'[t] = <<>>,
           \A l \in Locs : owner'[l] # t, held' \in [Threads -> Seq(Locs)],
           script' = [u \in Threads |-> script'[u]],
           \A u \in Threads : u # t => held'[u] = held[u] /\ script'[u] = script[u]
    PROVE  /\ Others(t) /\ ThreadOK(t)' /\ ThreadInv' /\ LifeStep(t)
           /\ pc'[t] \in {"check", "acquire"} /\ op' = op /\ life' = life
           /\ \A u \in Threads : UseOK(u)'
<1>0. CallInv /\ ThreadInv /\ FieldInv /\ UseOK(t) /\ \A u \in Threads : UseOK(u)
  BY DEF LockInv
<1>1. PICK label \in {"check", "acquire"} : pc' = [pc EXCEPT ![t] = label]
  BY DEF Again, Goto, Entry
<1>2. /\ op' = op /\ life' = life /\ freed' = freed
      /\ stage' = [stage EXCEPT ![t] = 1] /\ after' = [after EXCEPT ![t] = "return"]
  BY DEF Again
<1>3. pc'[t] \in {"check", "acquire"} /\ stage'[t] = 1
  BY <1>0, <1>1, <1>2 DEF CallInv, ThreadInv
<1>4. Others(t)
  BY <1>0, <1>1, <1>2 DEF Others, CallInv, ThreadInv
<1>5. ThreadInv'
  BY <1>0, <1>2 DEF ThreadInv
<1>6. LifeStep(t)
  BY <1>0, <1>2 DEF LifeStep, FieldInv
<1>7. op[t] \in CallTypes /\ CallStep(t)
  BY <1>0, <1>2 DEF CallInv, CallStep
<1>8. \A u \in Threads : UseOK(u)'
  BY <1>0, <1>4, <1>6, <1>7, UseStep
<1>9. CallOK(t)' /\ op'[t].kind \in Kinds \cup {"destroy"}
  BY <1>2, <1>3, <1>7, <1>8 DEF UseOK, CallTypes
<1>10. ThreadOK(t)'
  BY <1>3, <1>9, Rests, Begins
<1> QED BY <1>2, <1>3, <1>4, <1>5, <1>6, <1>8, <1>10

\* A call goes on.
LEMMA GoesOn ==
    ASSUME LockInv, NEW t \in Threads, Others(t), pc[t] # "idle", life' = life, freed' = freed,
           op'[t] = op[t] \/ (op'[t] = Cleared(op[t]) /\ op[t].kind \in Binary \ Creating),
           stage' \in [Threads -> Nat], held' \in [Threads -> Seq(Locs)],
           script' = [u \in Threads |-> script'[u]], after' = [u \in Threads |-> after'[u]]
    PROVE  ThreadInv' /\ LifeStep(t) /\ \A u \in Threads : UseOK(u)'
<1>0. CallInv /\ ThreadInv /\ FieldInv /\ \A u \in Threads : UseOK(u)
  BY DEF LockInv
<1>1. ThreadInv'
  BY <1>0 DEF ThreadInv
<1>2. LifeStep(t)
  BY <1>0 DEF LifeStep, FieldInv
<1>3. op[t] \in CallTypes /\ CallStep(t)
  BY <1>0 DEF CallInv, CallStep
<1>4. \A u \in Threads : UseOK(u)'
  BY <1>0, <1>2, <1>3, UseStep
<1> QED BY <1>1, <1>2, <1>4

\* Nothing is locked or unlocked.
LEMMA OwnerSame == ASSUME FieldInv, NEW t, owner' = owner PROVE OwnerStep(t)
BY DEF OwnerStep, FieldInv

\* The look without a lock.
LEMMA CheckLocks == ASSUME LockInv, CallInv', NEW t \in Threads, Check(t) PROVE LockInv'
<1>0. CallInv /\ ThreadInv /\ FieldInv /\ HeldOK(t) /\ UseOK(t)
  BY DEF LockInv
<1>1. pc[t] = "check" /\ UNCHANGED fields /\ owner' = owner /\ held' = held /\ script' = script
  BY DEF Check
<1>2. held[t] = <<>> /\ stage[t] = 1 /\ held'[t] = <<>>
  BY <1>0, <1>1 DEF HeldOK
<1>3. \A l \in Locs : owner'[l] # t
  BY <1>0, <1>1, <1>2, OwnsNone
<1>4. OwnerStep(t) /\ \A l \in Locs : owner[l] = Free /\ owner'[l] # Free => l \in Seen
  BY <1>0, <1>1, OwnerSame
<1>5. /\ held' \in [Threads -> Seq(Locs)] /\ script' = [u \in Threads |-> script'[u]]
      /\ \A u \in Threads : u # t => held'[u] = held[u] /\ script'[u] = script[u]
  BY <1>0, <1>1 DEF ThreadInv
<1>6. CASE Return(t)
  <2>1. /\ Others(t) /\ ThreadOK(t)' /\ ThreadInv' /\ LifeStep(t)
        /\ \A u \in Threads : UseOK(u)'
    BY <1>1, <1>2, <1>3, <1>5, <1>6, ReturnEffect
  <2> QED BY <1>1, <1>4, <2>1, QuietStep
<1>7. CASE Goto(t, "acquire") /\ UNCHANGED <<op, life, freed, stage, after>>
  <2>1. Others(t) /\ pc'[t] = "acquire"
    BY <1>0, <1>1, <1>7 DEF Goto, Others, CallInv
  <2>2. ThreadInv' /\ LifeStep(t) /\ \A u \in Threads : UseOK(u)'
    BY <1>0, <1>1, <1>5, <1>7, <2>1, GoesOn DEF ThreadInv
  <2>3. CallOK(t)' /\ op'[t].kind \in Kinds \cup {"destroy"}
    BY <1>0, <1>7, <2>1, <2>2 DEF UseOK, CallInv, CallTypes
  <2>4. ThreadOK(t)'
    BY <1>2, <1>3, <1>7, <2>1, <2>3, Begins
  <2> QED BY <1>1, <1>4, <2>1, <2>2, <2>4, QuietStep
<1>8. CASE /\ op[t].kind \in {"copyassign", "moveassign"}
           /\ op' = [op EXCEPT ![t].kind = "clear", ![t].other = Null]
           /\ UNCHANGED <<pc, life, freed, stage, after>>
  <2>1. op' = [op EXCEPT ![t] = Cleared(@)]
    BY <1>0, <1>8 DEF CallInv, CallTypes, Cleared
  <2>2. op'[t] = Cleared(op[t]) /\ op[t].kind \in Binary \ Creating
    BY <1>0, <1>8, <2>1 DEF CallInv, Binary, Creating
  <2>3. Others(t)
    BY <1>0, <1>1, <1>8, <2>1 DEF Others, CallInv
  <2>4. ThreadInv' /\ LifeStep(t) /\ \A u \in Threads : UseOK(u)'
    BY <1>0, <1>1, <1>5, <1>8, <2>2, <2>3, GoesOn DEF ThreadInv
  <2>5. ThreadOK(t)'
    BY <1>1, <1>2, <1>3, <1>8, Rests
  <2> QED BY <1>1, <1>4, <2>3, <2>4, <2>5, QuietStep
<1> QED BY <1>6, <1>7, <1>8 DEF Check

\* The lock that the thread could not get is free.
LEMMA WaitforLocks == ASSUME LockInv, CallInv', NEW t \in Threads, Waitfor(t) PROVE LockInv'
<1>0. CallInv /\ ThreadInv /\ FieldInv /\ HeldOK(t)
  BY DEF LockInv
<1>1. pc[t] = "wait" /\ Again(t) /\ UNCHANGED fields /\ owner' = owner /\ held' = held /\ script' = script
  BY DEF Waitfor
<1>2. held[t] = <<>> /\ held'[t] = <<>>
  BY <1>0, <1>1 DEF HeldOK
<1>3. \A l \in Locs : owner'[l] # t
  BY <1>0, <1>1, <1>2, OwnsNone
<1>4. OwnerStep(t) /\ \A l \in Locs : owner[l] = Free /\ owner'[l] # Free => l \in Seen
  BY <1>0, <1>1, OwnerSame
<1>5. /\ held' \in [Threads -> Seq(Locs)] /\ script' = [u \in Threads |-> script'[u]]
      /\ \A u \in Threads : u # t => held'[u] = held[u] /\ script'[u] = script[u]
  BY <1>0, <1>1 DEF ThreadInv
<1>6. /\ Others(t) /\ ThreadOK(t)' /\ ThreadInv' /\ LifeStep(t)
      /\ \A u \in Threads : UseOK(u)'
  BY <1>1, <1>2, <1>3, <1>5, AgainEffect
<1> QED BY <1>1, <1>4, <1>6, QuietStep

\* A thread that goes on to release, or use, what it holds.
LEMMA Holds ==
    ASSUME NEW t, HeldOK(t), pc'[t] \in {"use", "release"}, held'[t] # <<>>, Injective(held'[t]),
           \A l \in Locs : owner'[l] = t <=> l \in Ranked(held'[t]),
           op'[t].kind \in Creating => op'[t].self \notin Ranked(held'[t])
    PROVE  ThreadOK(t)'
<1>1. (Injective(held[t])' <=> Injective(held'[t])) /\ Ranked(held[t])' = Ranked(held'[t])
  BY DEF Injective, Ranked
<1>2. PlanOK(t)' /\ CommitOK(t)'
  BY DEF PlanOK, CommitOK
<1>3. HeldOK(t)'
  BY <1>1 DEF HeldOK
<1> QED BY <1>2, <1>3 DEF ThreadOK

\* A lock is released on the way out.
LEMMA ReleaseLocks == ASSUME LockInv, CallInv', NEW t \in Threads, Release(t) PROVE LockInv'
<1>0. CallInv /\ ThreadInv /\ FieldInv /\ HeldOK(t) /\ UseOK(t) /\ held[t] \in Seq(Locs)
  BY DEF LockInv, ThreadInv
<1> DEFINE h == held[t]
           g == SubSeq(h, 1, Len(h) - 1)
           l == h[Len(h)]
<1>1. /\ pc[t] = "release" /\ UNCHANGED fields /\ script' = script
      /\ owner' = [owner EXCEPT ![l] = Free] /\ held' = [held EXCEPT ![t] = g]
  BY DEF Release
<1>2. h # <<>> /\ Injective(h) /\ h \in Seq(Locs)
  BY <1>0, <1>1 DEF HeldOK
<1>3. /\ g \in Seq(Locs) /\ Injective(g) /\ l \in Locs /\ l \in Ranked(h)
      /\ Ranked(g) = Ranked(h) \ {l}
      /\ IF Len(h) > 1 THEN g # <<>> ELSE g = <<>>
  BY <1>2, HeldPop
<1> HIDE DEF g, l
<1>4. held'[t] = g /\ held' \in [Threads -> Seq(Locs)] /\ \A u \in Threads : u # t => held'[u] = held[u]
  BY <1>0, <1>1, <1>3 DEF ThreadInv
<1>5. owner[l] = t
  BY <1>0, <1>3 DEF HeldOK
<1>6. OwnerStep(t) /\ \A m \in Locs : owner[m] = Free /\ owner'[m] # Free => m \in Seen
  BY <1>0, <1>1, <1>3, <1>5 DEF OwnerStep, FieldInv
<1>7. \A m \in Locs : owner'[m] = t <=> m \in Ranked(g)
  BY <1>0, <1>1, <1>3, DistinctAssumption DEF HeldOK, FieldInv
<1>8. script' = [u \in Threads |-> script'[u]] /\ \A u \in Threads : u # t => script'[u] = script[u]
  BY <1>0, <1>1 DEF ThreadInv
<1>9. CASE Len(h) > 1
  <2>1. UNCHANGED <<pc, op, life, freed, stage, after>>
    BY <1>9 DEF Release
  <2>2. Others(t)
    BY <1>4, <1>8, <2>1 DEF Others
  <2>3. ThreadInv' /\ LifeStep(t) /\ \A u \in Threads : UseOK(u)'
    BY <1>0, <1>1, <1>4, <1>8, <2>1, <2>2, GoesOn DEF ThreadInv
  <2>4. op[t].kind \in Creating => op[t].self \notin Ranked(g)
    BY <1>0, <1>1, <1>3 DEF HeldOK
  <2>5. ThreadOK(t)'
    BY <1>0, <1>1, <1>3, <1>4, <1>7, <1>9, <2>1, <2>4, Holds
  <2> QED BY <1>1, <1>6, <2>2, <2>3, <2>5, QuietStep
<1>10. CASE ~(Len(h) > 1)
  <2>1. held'[t] = <<>>
    BY <1>3, <1>4, <1>10
  <2>2. \A m \in Locs : owner'[m] # t
    BY <1>4, <1>7, <2>1, HeldNone
  <2>3. \/ Return(t)
        \/ Goto(t, "wait") /\ UNCHANGED <<op, life, freed, stage, after>>
        \/ Again(t)
    BY <1>10 DEF Release
  <2>4. CASE Return(t)
    <3>1. /\ Others(t) /\ ThreadOK(t)' /\ ThreadInv' /\ LifeStep(t)
          /\ \A u \in Threads : UseOK(u)'
      BY <1>1, <1>4, <1>8, <2>1, <2>2, <2>4, ReturnEffect
    <3> QED BY <1>1, <1>6, <3>1, QuietStep
  <2>5. CASE Again(t)
    <3>1. /\ Others(t) /\ ThreadOK(t)' /\ ThreadInv' /\ LifeStep(t)
          /\ \A u \in Threads : UseOK(u)'
      BY <1>1, <1>4, <1>8, <2>1, <2>2, <2>5, AgainEffect
    <3> QED BY <1>1, <1>6, <3>1, QuietStep
  <2>6. CASE Goto(t, "wait") /\ UNCHANGED <<op, life, freed, stage, after>>
    <3>1. Others(t) /\ pc'[t] = "wait"
      BY <1>0, <1>4, <1>8, <2>6 DEF Goto, Others, CallInv
    <3>2. ThreadInv' /\ LifeStep(t) /\ \A u \in Threads : UseOK(u)'
      BY <1>0, <1>1, <1>4, <1>8, <2>6, <3>1, GoesOn DEF ThreadInv
    <3>3. ThreadOK(t)'
      BY <2>1, <2>2, <3>1, Rests
    <3> QED BY <1>1, <1>6, <3>1, <3>2, <3>3, QuietStep
  <2> QED BY <2>3, <2>4, <2>5, <2>6
<1> QED BY <1>9, <1>10

\* A strong reference is taken.
LEMMA UseLocks == ASSUME LockInv, CallInv', NEW t \in Threads, Use(t) PROVE LockInv'
<1>0. CallInv /\ ThreadInv /\ FieldInv /\ HeldOK(t) /\ UseOK(t)
  BY DEF LockInv
<1>1. /\ pc[t] = "use" /\ UNCHANGED fields /\ owner' = owner /\ life' = life /\ freed' = freed
      /\ held' = held /\ BackOff(t, "return")
  BY DEF Use, Incref
<1>2. /\ pc' = [pc EXCEPT ![t] = "release"] /\ after' = [after EXCEPT ![t] = "return"]
      /\ stage' = stage /\ script' = script /\ op' = op
  BY <1>1 DEF BackOff, Goto
<1>3. Others(t) /\ pc'[t] = "release"
  BY <1>0, <1>1, <1>2 DEF Others, CallInv, ThreadInv
<1>4. ThreadInv' /\ LifeStep(t) /\ \A u \in Threads : UseOK(u)'
  <2>1. after' = [u \in Threads |-> after'[u]]
    BY <1>0, <1>2 DEF ThreadInv
  <2> QED BY <1>0, <1>1, <1>2, <1>3, <2>1, GoesOn DEF ThreadInv
<1>5. OwnerStep(t) /\ \A l \in Locs : owner[l] = Free /\ owner'[l] # Free => l \in Seen
  BY <1>0, <1>1, OwnerSame
<1>6. ThreadOK(t)'
  <2>1. /\ held[t] # <<>> /\ Injective(held[t])
        /\ \A l \in Locs : owner[l] = t <=> l \in Ranked(held[t])
        /\ op[t].kind \in Creating => op[t].self \notin Ranked(held[t])
    BY <1>0, <1>1 DEF HeldOK
  <2> QED BY <1>0, <1>1, <1>2, <1>3, <2>1, Holds
<1> QED BY <1>1, <1>3, <1>4, <1>5, <1>6, QuietStep

\* A call of a thread that was in none.
LEMMA NewCall ==
    ASSUME LockInv, CallInv', NEW t \in Threads, pc[t] = "idle", NEW c,
           op' = [op EXCEPT ![t] = c], NEW label \in {"check", "acquire"},
           pc' = [pc EXCEPT ![t] = label],
           UNCHANGED <<fields, owner, freed, stage, held, script, after>>,
           life' \in [Refs -> {"new", "live", "dying", "gone"}],
           \A r \in Refs : life'[r] = "new" <=> life[r] = "new",
           CallOK(t)', Creates(t)',
           \A u \in Threads, r \in Refs :
               u # t /\ pc[u] # "idle" /\ life[r] = "new" /\ r \in {op[u].self, op[u].other}
                   => r # c.self /\ r # c.other
    PROVE  LockInv'
<1>0. CallInv /\ ThreadInv /\ FieldInv /\ HeldOK(t) /\ \A u \in Threads : UseOK(u)
  BY DEF LockInv
<1>1. held[t] = <<>> /\ stage[t] = 1 /\ held'[t] = <<>> /\ stage'[t] = 1 /\ owner' = owner
  BY <1>0 DEF HeldOK
<1>2. \A l \in Locs : owner'[l] # t
  BY <1>0, <1>1, OwnsNone
<1>3. op'[t] = c /\ pc'[t] = label /\ op'[t].kind \in Kinds \cup {"destroy"}
  BY <1>0 DEF CallInv, CallTypes
<1>4. Others(t)
  BY <1>0 DEF Others, CallInv
<1>5. OwnerStep(t) /\ \A l \in Locs : owner[l] = Free /\ owner'[l] # Free => l \in Seen
  BY <1>0, <1>1, OwnerSame
<1>6. ThreadInv' /\ LifeStep(t)
  BY <1>0 DEF ThreadInv, LifeStep
<1>7. ThreadOK(t)'
  BY <1>1, <1>2, <1>3, Rests, Begins
<1>8. ASSUME NEW u \in Threads, u # t, pc'[u] # "idle" PROVE CallOK(u)' /\ Creates(u)'
  <2>1. pc[u] # "idle" /\ op'[u] = op[u] /\ CallOK(u) /\ Creates(u)
    BY <1>0, <1>4, <1>8 DEF Others, UseOK
  <2>2. op[u].kind \in Creating => op[u].self \in Refs
    BY <2>1 DEF CallOK, Creating
  <2>3. CallOK(u)'
    BY <2>1, <2>2 DEF CallOK
  <2>4. Creates(u)'
    <3> SUFFICES ASSUME NEW r \in Refs, life'[r] = "new", r \in {op[u].self, op[u].other}
                 PROVE  /\ r = op[u].self /\ op[u].kind \in Creating
                        /\ \A v \in Threads : v # u /\ pc'[v] # "idle" => r # op'[v].self /\ r # op'[v].other
      BY <2>1 DEF Creates
    <3>1. life[r] = "new"
      OBVIOUS
    <3>2. /\ r = op[u].self /\ op[u].kind \in Creating
          /\ \A v \in Threads : v # u /\ pc[v] # "idle" => r # op[v].self /\ r # op[v].other
      BY <2>1, <3>1 DEF Creates
    <3>3. r # c.self /\ r # c.other
      BY <1>8, <2>1, <3>1
    <3>4. ASSUME NEW v \in Threads, v # u, pc'[v] # "idle" PROVE r # op'[v].self /\ r # op'[v].other
      <4>1. CASE v = t
        BY <1>3, <3>3, <4>1
      <4>2. CASE v # t
        BY <1>4, <3>2, <3>4, <4>2 DEF Others
      <4> QED BY <4>1, <4>2
    <3> QED BY <3>2, <3>4
  <2> QED BY <2>3, <2>4
<1>9. \A u \in Threads : UseOK(u)'
  BY <1>8 DEF UseOK
<1>10. UNCHANGED fields /\ pc[t] # "commit"
  OBVIOUS
<1> QED BY <1>4, <1>5, <1>6, <1>7, <1>9, <1>10, QuietStep

\* A function is called.
LEMMA CallLocks ==
    ASSUME LockInv, CallInv', NEW t \in Threads, NEW k \in Ops, NEW s \in Refs,
           NEW x \in IF k \in Binary THEN Refs \ {s} ELSE {Null},
           NEW o \in IF k \in Binding THEN Objs ELSE {Null}, Call(t, k, s, x, o)
    PROVE  LockInv'
<1> DEFINE c == [kind |-> k, self |-> s, other |-> x, ob |-> o]
<1>0. CallInv /\ FieldInv /\ \A u \in Threads : UseOK(u)
  BY DEF LockInv
<1>1. /\ pc[t] = "idle" /\ op' = [op EXCEPT ![t] = c]
      /\ UNCHANGED <<fields, owner, freed, stage, held, script, after>>
  BY DEF Call, Begin, object
<1>2. PICK label \in {"check", "acquire"} : pc' = [pc EXCEPT ![t] = label]
  BY DEF Call, Begin, Entry, Goto
<1>3. c.kind = k /\ c.self = s /\ c.other = x /\ c.ob = o
  OBVIOUS
<1>4. k \in Kinds /\ k # "destroy"
  BY OpsAssumption DEF Kinds
<1> HIDE DEF c
<1>5. op'[t] = c /\ pc'[t] # "idle"
  BY <1>0, <1>1, <1>2 DEF CallInv
<1>6. /\ k \in Creating => life[s] = "new" /\ life' = life
      /\ k \notin Creating => life[s] = "live"
      /\ life' = life \/ (life' = [life EXCEPT ![s] = "dying"] /\ life[s] = "live")
      /\ k \in Creating => \A u \in Threads : s \notin InUse(u)
      /\ k \in Binary => life[x] = "live" /\ x \in Refs \ {s}
      /\ k \notin Binary => x = Null
      /\ k \in Binding => o \in Objs
  BY DEF Call, Creating
<1>7. /\ life' \in [Refs -> {"new", "live", "dying", "gone"}]
      /\ \A r \in Refs : life'[r] = "new" <=> life[r] = "new"
  BY <1>0, <1>6 DEF FieldInv
<1>8. \A u \in Threads : s \notin InUse(u) /\ pc[u] # "idle" => s # op[u].self /\ s # op[u].other
  BY DEF InUse
<1>9. CallOK(t)'
  BY <1>3, <1>4, <1>5, <1>6 DEF CallOK
<1>10. Creates(t)'
  <2> SUFFICES ASSUME NEW r \in Refs, life[r] = "new", r \in {s, x}
               PROVE  /\ r = s /\ k \in Creating
                      /\ \A u \in Threads : u # t /\ pc'[u] # "idle" => r # op'[u].self /\ r # op'[u].other
    BY <1>3, <1>5, <1>7 DEF Creates
  <2>1. r = s /\ k \in Creating
    BY <1>6, DistinctAssumption
  <2>2. \A u \in Threads : u # t => pc'[u] = pc[u] /\ op'[u] = op[u]
    BY <1>0, <1>1, <1>2 DEF CallInv
  <2> QED BY <1>6, <1>8, <2>1, <2>2
<1>11. \A u \in Threads, r \in Refs :
           u # t /\ pc[u] # "idle" /\ life[r] = "new" /\ r \in {op[u].self, op[u].other}
               => r # c.self /\ r # c.other
  BY <1>3, <1>6, <1>8, DistinctAssumption
<1> QED BY <1>1, <1>2, <1>7, <1>9, <1>10, <1>11, NewCall

\* A strong reference is dropped.
LEMMA DecrefLocks ==
    ASSUME LockInv, CallInv', NEW t \in Threads, NEW h, NEW o \in Objs, Decref(t, h, o)
    PROVE  LockInv'
<1>0. CallInv /\ FieldInv /\ ThreadInv /\ HeldOK(t) /\ \A u \in Threads : UseOK(u)
  BY DEF LockInv
<1>1. pc[t] = "idle" /\ UNCHANGED <<fields, owner, life, freed, stage, held, script, after>>
  BY DEF Decref
<1>2. CASE refs[o] = {h}
  <2> DEFINE c == [kind |-> "destroy", self |-> Null, other |-> Null, ob |-> o]
  <2>1. op' = [op EXCEPT ![t] = c] /\ pc' = [pc EXCEPT ![t] = "check"]
    BY <1>2 DEF Decref, Begin, Entry, Goto, Binding
  <2>2. c.kind = "destroy" /\ c.self = Null /\ c.other = Null /\ c.ob = o
    OBVIOUS
  <2> HIDE DEF c
  <2>3. op'[t] = c
    BY <1>0, <2>1 DEF CallInv
  <2>4. CallOK(t)' /\ Creates(t)'
    BY <2>2, <2>3, DistinctAssumption DEF CallOK, Creates, Binary, Creating
  <2>5. life' \in [Refs -> {"new", "live", "dying", "gone"}] /\ life' = life
    BY <1>0, <1>1 DEF FieldInv
  <2>6. \A r \in Refs : r # c.self /\ r # c.other
    BY <2>2, DistinctAssumption
  <2> QED BY <1>1, <2>1, <2>4, <2>5, <2>6, NewCall
<1>3. CASE refs[o] # {h}
  <2>1. op' = op /\ pc' = pc
    BY <1>3 DEF Decref
  <2>2. Others(t) /\ UNCHANGED fields /\ pc[t] # "commit"
    BY <1>1, <2>1 DEF Others
  <2>3. OwnerStep(t) /\ \A l \in Locs : owner[l] = Free /\ owner'[l] # Free => l \in Seen
    BY <1>0, <1>1, OwnerSame
  <2>4. ThreadInv' /\ LifeStep(t)
    BY <1>0, <1>1 DEF ThreadInv, LifeStep, FieldInv
  <2>5. \A u \in Threads : UseOK(u)'
    BY <1>0, <1>1, <2>1 DEF UseOK, CallOK, Creates
  <2>6. held[t] = <<>> /\ stage[t] = 1
    BY <1>0, <1>1 DEF HeldOK
  <2>7. \A l \in Locs : owner'[l] # t
    BY <1>0, <1>1, <2>6, OwnsNone
  <2>8. ThreadOK(t)'
    BY <1>1, <2>1, <2>6, <2>7, Rests
  <2> QED BY <2>2, <2>3, <2>4, <2>5, <2>8, QuietStep
<1> QED BY <1>2, <1>3

-----------------------------------------------------------------------------
(* A store *)

\* What the next store may write, and what it leaves to be unlocked.
LEMMA NextStore ==
    ASSUME LockInv, NEW t \in Threads, pc[t] = "commit"
    PROVE  LET s == Head(script[t])
               h == Ranked(held[t])
           IN  /\ StoreOK(s, Known(t)) /\ s.unlock \in h \cup {Null} /\ h \subseteq Locs
               /\ \A l \in Writes(s) : owner[l] \in {t, Free}
               /\ \A l \in Writes(s) : owner[l] = t \/ l = op[t].self
               /\ Closes(Tail(script[t]), h \ {s.unlock}, {}, Known(t))
               /\ Tail(script[t]) = <<>> => ~Starting(t)
<1> DEFINE s == Head(script[t])
           h == Ranked(held[t])
<1>0. CommitOK(t) /\ HeldOK(t) /\ HiddenInv /\ UseOK(t) /\ held[t] \in Seq(Locs)
  BY DEF LockInv, ThreadInv
<1>1. h \subseteq Locs /\ Null \notin h
  BY <1>0, RankedSeq, DistinctAssumption DEF Locs
<1>2. CASE Starting(t)
  <2>1. Opens(script[t], op[t].self, h, Known(t))
    BY <1>0, <1>2 DEF CommitOK
  <2>2. /\ s.unlock = Null /\ Writes(s) = {op[t].self} /\ StoreOK(s, Known(t))
        /\ Closes(Tail(script[t]), h, {}, Known(t)) /\ Tail(script[t]) # <<>>
    BY <2>1 DEF Opens
  <2>3. h \ {s.unlock} = h
    BY <1>1, <2>2
  <2>4. Hidden(op[t].self)
    <3>1. CallOK(t) /\ Creates(t) /\ op[t].kind \in Creating
      BY <1>0, <1>2 DEF UseOK, Starting
    <3>2. op[t].self \in Refs /\ life[op[t].self] = "new"
      BY <3>1 DEF CallOK, Creating
    <3>3. \A u \in Threads : u # t /\ pc[u] # "idle" => op[t].self # op[u].self
      BY <3>1, <3>2 DEF Creates
    <3> QED BY <1>2, <3>2, <3>3 DEF Hidden
  <2>5. owner[op[t].self] = Free
    BY <1>0, <2>4 DEF HiddenInv, Hidden
  <2> QED BY <1>1, <1>2, <2>2, <2>3, <2>5
<1>3. CASE ~Starting(t)
  <2>1. Closes(script[t], h, {}, Known(t)) /\ script[t] # <<>>
    BY <1>0, <1>3 DEF CommitOK
  <2>2. /\ StoreOK(s, Known(t)) /\ s.unlock \in h \cup {Null} /\ Writes(s) \subseteq h
        /\ Closes(Tail(script[t]), h \ {s.unlock}, {}, Known(t))
    BY <1>1, <2>1, ClosesTail
  <2>3. \A l \in h : owner[l] = t
    BY <1>0, <1>1 DEF HeldOK
  <2> QED BY <1>1, <1>3, <2>2, <2>3
<1> QED BY <1>2, <1>3

\* What nobody has seen after a store was hidden before, if it is not what the thread creates.
LEMMA HiddenStore ==
    ASSUME NEW t \in Threads, Others(t), \A r \in Refs : life'[r] = "new" => life[r] = "new",
           \A r : Hidden(r)' => r # op[t].self
    PROVE  \A r : Hidden(r)' => Hidden(r) /\ r # op[t].self
BY DEF Hidden, Starting, Others

\* g is a function from D to V, and f gives other values to some of D.
Changes(f, g, D, V) == g \in [D -> V] /\ DOMAIN f \subseteq D /\ \A a \in DOMAIN f : f[a] \in V

\* A function with some values of another one in front of its own.
LEMMA Merged ==
    ASSUME NEW D, NEW V, NEW f, NEW g, Changes(f, g, D, V)
    PROVE  \E h : h = f @@ g /\ h \in [D -> V] /\ \A a \in D : h[a] = IF a \in DOMAIN f THEN f[a] ELSE g[a]
<1>1. f @@ g = [a \in DOMAIN f \cup DOMAIN g |-> IF a \in DOMAIN f THEN f[a] ELSE g[a]]
  BY DEF @@
<1>2. DOMAIN f \cup DOMAIN g = D
  BY DEF Changes
<1>3. PICK h : h = f @@ g
  OBVIOUS
<1>4. h = [a \in D |-> IF a \in DOMAIN f THEN f[a] ELSE g[a]]
  BY <1>1, <1>2, <1>3
<1>5. h \in [D -> V] /\ \A a \in D : h[a] = IF a \in DOMAIN f THEN f[a] ELSE g[a]
  BY <1>4 DEF Changes
<1> QED BY <1>3, <1>5

\* What a store does to the fields.
LEMMA FieldsStored ==
    ASSUME FieldInv, NEW s, NEW M, StoreOK(s, M), ptr' = s.ptr @@ ptr,
           wr_pself' = s.pself @@ wr_pself, wr_obj' = s.obj @@ wr_obj
    PROVE  /\ ptr' \in [Locs -> Refs \cup {Null}]
           /\ \A l \in Locs : ptr'[l] = IF l \in DOMAIN s.ptr THEN s.ptr[l] ELSE ptr[l]
           /\ wr_pself' \in [Refs -> Locs \cup {Null}]
           /\ \A r \in Refs : wr_pself'[r] = IF r \in DOMAIN s.pself THEN s.pself[r] ELSE wr_pself[r]
           /\ wr_obj' \in [Refs -> Objs \cup {Null}]
           /\ \A r \in Refs : wr_obj'[r] = IF r \in DOMAIN s.obj THEN s.obj[r] ELSE wr_obj[r]
<1>1. PICK f, g : f = s.ptr /\ g = ptr
  OBVIOUS
<1>2. PICK h : h = f @@ g /\ h \in [Locs -> Refs \cup {Null}]
               /\ \A a \in Locs : h[a] = IF a \in DOMAIN f THEN f[a] ELSE g[a]
  <2>1. Changes(f, g, Locs, Refs \cup {Null})
    BY <1>1 DEF StoreOK, FieldInv, Changes
  <2> QED BY <2>1, Merged
<1>3. PICK b, c : b = s.pself /\ c = wr_pself
  OBVIOUS
<1>4. PICK d : d = b @@ c /\ d \in [Refs -> Locs \cup {Null}]
               /\ \A a \in Refs : d[a] = IF a \in DOMAIN b THEN b[a] ELSE c[a]
  <2>1. Changes(b, c, Refs, Locs \cup {Null})
    BY <1>3 DEF StoreOK, FieldInv, Changes
  <2> QED BY <2>1, Merged
<1>5. PICK u, v : u = s.obj /\ v = wr_obj
  OBVIOUS
<1>6. PICK w : w = u @@ v /\ w \in [Refs -> Objs \cup {Null}]
               /\ \A a \in Refs : w[a] = IF a \in DOMAIN u THEN u[a] ELSE v[a]
  <2>1. Changes(u, v, Refs, Objs \cup {Null})
    BY <1>5 DEF StoreOK, FieldInv, Changes
  <2> QED BY <2>1, Merged
<1>7. ptr' = h /\ wr_pself' = d /\ wr_obj' = w
  BY <1>1, <1>2, <1>3, <1>4, <1>5, <1>6
<1> QED BY <1>1, <1>2, <1>3, <1>4, <1>5, <1>6, <1>7

\* A store preserves the invariant if the thread itself does.
LEMMA StoreStep ==
    ASSUME LockInv, CallInv', ThreadInv', NEW t \in Threads, Commit(t), Others(t), OwnerStep(t),
           LifeStep(t), \A u \in Threads : UseOK(u)',
           \A r : Hidden(r)' => Hidden(r) /\ r # op[t].self, ThreadOK(t)'
    PROVE  LockInv'
<1> DEFINE s == Head(script[t])
<1>0. FieldInv /\ HiddenInv
  BY DEF LockInv
<1>1. /\ pc[t] = "commit" /\ ptr' = s.ptr @@ ptr /\ wr_pself' = s.pself @@ wr_pself
      /\ wr_obj' = s.obj @@ wr_obj
      /\ owner' = IF s.unlock = Null THEN owner ELSE [owner EXCEPT ![s.unlock] = Free]
  BY DEF Commit
<1>2. /\ StoreOK(s, Known(t)) /\ \A l \in Writes(s) : owner[l] \in {t, Free}
      /\ \A l \in Writes(s) : owner[l] = t \/ l = op[t].self
  BY <1>1, NextStore
<1> HIDE DEF s
<1>3. /\ ptr' \in [Locs -> Refs \cup {Null}]
      /\ \A l \in Locs : ptr'[l] = IF l \in DOMAIN s.ptr THEN s.ptr[l] ELSE ptr[l]
  BY <1>0, <1>1, <1>2, FieldsStored
<1>4. /\ wr_pself' \in [Refs -> Locs \cup {Null}]
      /\ \A r \in Refs : wr_pself'[r] = IF r \in DOMAIN s.pself THEN s.pself[r] ELSE wr_pself[r]
  BY <1>0, <1>1, <1>2, FieldsStored
<1>5. /\ wr_obj' \in [Refs -> Objs \cup {Null}]
      /\ \A r \in Refs : wr_obj'[r] = IF r \in DOMAIN s.obj THEN s.obj[r] ELSE wr_obj[r]
  BY <1>0, <1>1, <1>2, FieldsStored
<1>6. \A l \in Locs : l \notin Writes(s) => Kept(l)
  BY <1>3, <1>4, <1>5 DEF Writes, Kept
<1>7. \A l \in Locs : owner[l] \notin {t, Free} => Kept(l)
  BY <1>2, <1>6
<1>8. \A u \in Threads : u # t => ThreadOK(u)'
  BY <1>7, OthersKept
<1>9. \A r \in Refs : wr_obj'[r] # Null => wr_pself'[r] # Null
  BY <1>0, <1>2, <1>4, <1>5 DEF StoreOK, FieldInv
<1>10. FieldInv'
  BY <1>3, <1>4, <1>5, <1>9 DEF FieldInv, OwnerStep, LifeStep
<1>11. HiddenInv'
  <2> SUFFICES ASSUME NEW r \in Refs, Hidden(r)'
               PROVE  /\ owner'[r] = Free /\ ptr'[r] = Null
                      /\ \A l \in Locs : ptr'[l] # r
                      /\ \A q \in Refs : wr_pself'[q] # r
    BY DEF HiddenInv
  <2>1. Hidden(r) /\ r # op[t].self
    OBVIOUS
  <2>2. /\ owner[r] = Free /\ ptr[r] = Null
        /\ \A l \in Locs : ptr[l] # r
        /\ \A q \in Refs : wr_pself[q] # r
    BY <1>0, <2>1 DEF HiddenInv
  <2>3. r \notin Known(t) /\ r \in Locs
    BY <2>1 DEF Known, Seen, Locs
  <2>4. owner'[r] = Free
    BY <1>0, <1>1, <2>2, <2>3 DEF FieldInv
  <2>5. \A l \in Locs : ptr'[l] # r
    BY <1>2, <1>3, <2>2, <2>3 DEF StoreOK
  <2>6. \A q \in Refs : wr_pself'[q] # r
    BY <1>2, <1>4, <2>2, <2>3 DEF StoreOK
  <2>7. ptr'[r] = Null
    <3>1. r \notin Writes(s)
      BY <1>2, <2>1, <2>2, DistinctAssumption
    <3> QED BY <1>3, <2>2, <2>3, <3>1 DEF Writes
  <2> QED BY <2>4, <2>5, <2>6, <2>7
<1> QED BY <1>8, <1>10, <1>11 DEF LockInv, ThreadOK

\* The next store is made.
LEMMA CommitLocks == ASSUME LockInv, CallInv', NEW t \in Threads, Commit(t) PROVE LockInv'
<1> DEFINE s == Head(script[t])
           q == Tail(script[t])
           h == held[t]
           g == Without(h, s.unlock)
<1>0. /\ CallInv /\ FieldInv /\ ThreadInv /\ HeldOK(t) /\ CommitOK(t) /\ UseOK(t)
      /\ held[t] \in Seq(Locs)
  BY DEF LockInv, ThreadInv
<1>1. /\ pc[t] = "commit" /\ script' = [script EXCEPT ![t] = q] /\ refs' = refs
      /\ owner' = IF s.unlock = Null THEN owner ELSE [owner EXCEPT ![s.unlock] = Free]
      /\ held' = [held EXCEPT ![t] = g]
      /\ IF q # <<>> THEN UNCHANGED <<pc, op, life, freed, stage, after>>
         ELSE IF after[t] = "return" THEN Return(t) ELSE Again(t)
  BY DEF Commit
<1>2. /\ s.unlock \in Ranked(h) \cup {Null} /\ Ranked(h) \subseteq Locs
      /\ Closes(q, Ranked(h) \ {s.unlock}, {}, Known(t))
      /\ q = <<>> => ~Starting(t)
  BY <1>1, NextStore
<1>3. h \in Seq(Locs) /\ Injective(h) /\ \A l \in Locs : owner[l] = t <=> l \in Ranked(h)
  BY <1>0 DEF HeldOK
<1>4. g \in Seq(Locs) /\ Injective(g) /\ Ranked(g) = Ranked(h) \ {s.unlock}
  BY <1>3, HeldWithout
<1>5. PICK e : e = s.unlock
  OBVIOUS
<1> HIDE DEF g, s
<1>6. held'[t] = g /\ held' \in [Threads -> Seq(Locs)] /\ \A u \in Threads : u # t => held'[u] = held[u]
  BY <1>0, <1>1, <1>4 DEF ThreadInv
<1>7. OwnerStep(t) /\ \A l \in Locs : owner'[l] = t <=> l \in Ranked(g)
  <2>1. CASE e = Null
    <3>1. owner' = owner /\ Ranked(g) = Ranked(h)
      BY <1>1, <1>2, <1>4, <1>5, <2>1, DistinctAssumption DEF Locs
    <3> QED BY <1>0, <1>3, <3>1, OwnerSame
  <2>2. CASE e # Null
    <3>1. owner' = [owner EXCEPT ![e] = Free] /\ e \in Ranked(h) /\ e \in Locs /\ owner[e] = t
      BY <1>1, <1>2, <1>3, <1>5, <2>2
    <3> QED BY <1>0, <1>3, <1>4, <1>5, <3>1, DistinctAssumption DEF OwnerStep, FieldInv
  <2> QED BY <2>1, <2>2
<1>8. /\ script'[t] = q /\ script' = [u \in Threads |-> script'[u]]
      /\ \A u \in Threads : u # t => script'[u] = script[u]
  BY <1>0, <1>1 DEF ThreadInv
<1>9. Ranked(held[t])' = Ranked(g)
  BY <1>6 DEF Ranked
<1>10. CASE q # <<>>
  <2>1. UNCHANGED <<pc, op, life, freed, stage, after>>
    BY <1>1, <1>10
  <2>2. Others(t)
    BY <1>6, <1>8, <2>1 DEF Others
  <2>3. ThreadInv' /\ LifeStep(t) /\ \A u \in Threads : UseOK(u)'
    BY <1>0, <1>1, <1>6, <1>8, <2>1, <2>2, GoesOn DEF ThreadInv
  <2>4. ~Starting(t)'
    <3> SUFFICES ASSUME op[t].kind \in Creating, op[t].self \in DOMAIN Head(q).ptr PROVE FALSE
      BY <1>8, <2>1 DEF Starting
    <3>1. Null \notin Ranked(h) \ {s.unlock}
      BY <1>2, DistinctAssumption DEF Locs
    <3>2. Writes(Head(q)) \subseteq Ranked(h) \ {s.unlock}
      BY <1>2, <1>10, <3>1, ClosesTail
    <3>3. op[t].self \in Ranked(h)
      BY <3>2 DEF Writes
    <3> QED BY <1>0, <1>1, <3>3 DEF HeldOK
  <2>5. \A r : Hidden(r)' => r # op[t].self
    BY <1>1, <2>1, <2>4 DEF Hidden
  <2>6. \A r : Hidden(r)' => Hidden(r) /\ r # op[t].self
    BY <2>2, <2>3, <2>5, HiddenStore DEF LifeStep
  <2>7. Known(t) \subseteq Known(t)'
    BY <2>1, <2>6 DEF Known, Seen
  <2>8. Closes(q, Ranked(g), {}, Known(t)')
    BY <1>2, <1>4, <2>7, ClosesMore
  <2>9. Closes(script[t], Ranked(held[t]), {}, Known(t))'
    BY <1>8, <1>9, <2>8
  <2>10. CommitOK(t)'
    BY <1>0, <1>1, <1>8, <1>10, <2>1, <2>4, <2>9 DEF CommitOK
  <2>11. HeldOK(t)'
    <3>1. Injective(held[t])'
      BY <1>4, <1>6 DEF Injective
    <3>2. op[t].kind \in Creating => op[t].self \notin Ranked(g)
      BY <1>0, <1>1, <1>4 DEF HeldOK
    <3> QED BY <1>1, <1>7, <1>9, <2>1, <3>1, <3>2 DEF HeldOK
  <2>12. ThreadOK(t)'
    BY <1>1, <2>1, <2>10, <2>11 DEF ThreadOK, PlanOK
  <2> QED BY <1>7, <2>2, <2>3, <2>6, <2>12, StoreStep
<1>11. CASE q = <<>>
  <2>1. Ranked(g) = {}
    BY <1>2, <1>4, <1>11, ClosesDone
  <2>2. held'[t] = <<>> /\ \A l \in Locs : owner'[l] # t
    BY <1>4, <1>6, <1>7, <2>1, HeldNone
  <2>3. CallOK(t) /\ Creates(t)
    BY <1>0, <1>1 DEF UseOK
  <2>4. CASE Return(t)
    <3>1. /\ Others(t) /\ ThreadOK(t)' /\ ThreadInv' /\ LifeStep(t)
          /\ \A u \in Threads : UseOK(u)'
      BY <1>1, <1>6, <1>8, <2>2, <2>4, ReturnEffect
    <3>2. \A r : Hidden(r)' => r # op[t].self
      <4> SUFFICES ASSUME op[t].self \in Refs, life'[op[t].self] = "new" PROVE FALSE
        BY DEF Hidden
      <4>1. life[op[t].self] = "new"
        BY <3>1 DEF LifeStep
      <4>2. op[t].kind \in Creating
        BY <2>3, <4>1 DEF Creates
      <4>3. life' = [life EXCEPT ![op[t].self] = "live"]
        BY <2>4, <4>2 DEF Return, Creating
      <4> QED BY <1>0, <4>3 DEF FieldInv
    <3>3. \A r : Hidden(r)' => Hidden(r) /\ r # op[t].self
      BY <3>1, <3>2, HiddenStore DEF LifeStep
    <3> QED BY <1>7, <3>1, <3>3, StoreStep
  <2>5. CASE Again(t) /\ after[t] # "return"
    <3>1. /\ Others(t) /\ ThreadOK(t)' /\ ThreadInv' /\ LifeStep(t) /\ life' = life
          /\ \A u \in Threads : UseOK(u)'
      BY <1>1, <1>6, <1>8, <2>2, <2>5, AgainEffect
    <3>2. \A r : Hidden(r)' => r # op[t].self
      <4> SUFFICES ASSUME op[t].self \in Refs, life'[op[t].self] = "new" PROVE FALSE
        BY DEF Hidden
      <4>1. life[op[t].self] = "new"
        BY <3>1
      <4>2. op[t].kind \in Creating
        BY <2>3, <4>1 DEF Creates
      <4> QED BY <1>0, <1>1, <2>5, <4>2 DEF CommitOK
    <3>3. \A r : Hidden(r)' => Hidden(r) /\ r # op[t].self
      BY <3>1, <3>2, HiddenStore DEF LifeStep
    <3> QED BY <1>7, <3>1, <3>3, StoreStep
  <2> QED BY <1>1, <1>11, <2>4, <2>5
<1> QED BY <1>10, <1>11

-----------------------------------------------------------------------------
(* A lock is taken or refused *)

\* Where the steps of the plans are.
LEMMA PlanSteps ==
    ASSUME NEW k \in Kinds \cup {"destroy"}, NEW n \in 1 .. Len(Plan[k])
    PROVE  /\ Plan[k][n] = "other" => n = 1
           /\ k \in {"clear", "fini", "set", "lock"} /\ Plan[k][n] = "self" => n = 1
           /\ k = "destroy" /\ Plan[k][n] = "list" => n = 1
           /\ k = "moveassign" /\ Plan[k][n] = "self" => n = 4
           /\ n = 1 /\ k \in Binary => Plan[k][n] = "other"
           /\ n = 1 /\ k \in {"clear", "fini", "lock"} => Plan[k][n] = "self"
           /\ n = 1 /\ k = "destroy" => Plan[k][n] = "list"
           /\ k = "lock" => n = 1
<1> USE PlanIs DEF Binary
<1>1. CASE k = "init"
  BY <1>1
<1>2. CASE k = "copy"
  BY <1>2
<1>3. CASE k = "set"
  BY <1>3
<1>4. CASE k = "clear" \/ k = "fini"
  BY <1>4
<1>5. CASE k = "copyassign"
  BY <1>5
<1>6. CASE k = "moveassign"
  BY <1>6
<1>7. CASE k = "lock"
  <2>1. Len(Plan[k]) = 1
    BY <1>7, PlanLen
  <2>2. n = 1
    BY <2>1
  <2>3. Plan[k][n] = "self"
    BY <1>7, <2>2, Guarded DEF Binding
  <2> QED BY <1>7, <2>2, <2>3
<1>8. CASE k = "destroy"
  BY <1>8
<1> QED BY <1>1, <1>2, <1>3, <1>4, <1>5, <1>6, <1>7, <1>8 DEF Kinds

\* The locks of a plan, one by one.
LEMMA LocksIs ==
    ASSUME NEW t
    PROVE  /\ Locks(t, 1) = {Lock(t, 1)} \ {Null}
           /\ Locks(t, 2) = {Lock(t, 1), Lock(t, 2)} \ {Null}
           /\ Locks(t, 3) = {Lock(t, 1), Lock(t, 2), Lock(t, 3)} \ {Null}
           /\ Locks(t, 4) = {Lock(t, 1), Lock(t, 2), Lock(t, 3), Lock(t, 4)} \ {Null}
           /\ Locks(t, 5) = {Lock(t, 1), Lock(t, 2), Lock(t, 3), Lock(t, 4), Lock(t, 5)} \ {Null}
           /\ Locks(t, 6) = {Lock(t, 1), Lock(t, 2), Lock(t, 3), Lock(t, 4), Lock(t, 5), Lock(t, 6)} \ {Null}
<1>1. /\ 1 .. 1 = {1} /\ 1 .. 2 = {1, 2} /\ 1 .. 3 = {1, 2, 3} /\ 1 .. 4 = {1, 2, 3, 4}
      /\ 1 .. 5 = {1, 2, 3, 4, 5} /\ 1 .. 6 = {1, 2, 3, 4, 5, 6}
  <2>1. 1 .. 1 = {1} /\ 1 .. 2 = {1, 2} /\ 1 .. 3 = {1, 2, 3}
    OBVIOUS
  <2>2. 1 .. 4 = {1, 2, 3, 4}
    OBVIOUS
  <2>3. 1 .. 5 = {1, 2, 3, 4, 5}
    OBVIOUS
  <2>4. 1 .. 6 = {1, 2, 3, 4, 5, 6}
    OBVIOUS
  <2> QED BY <2>1, <2>2, <2>3, <2>4
<1>2. Locks(t, 1) = {Lock(t, 1)} \ {Null} /\ Locks(t, 2) = {Lock(t, 1), Lock(t, 2)} \ {Null}
  BY <1>1 DEF Locks
<1>3. Locks(t, 3) = {Lock(t, 1), Lock(t, 2), Lock(t, 3)} \ {Null}
  BY <1>1 DEF Locks
<1>4. Locks(t, 4) = {Lock(t, 1), Lock(t, 2), Lock(t, 3), Lock(t, 4)} \ {Null}
  BY <1>1 DEF Locks
<1>5. Locks(t, 5) = {Lock(t, 1), Lock(t, 2), Lock(t, 3), Lock(t, 4), Lock(t, 5)} \ {Null}
  BY <1>1 DEF Locks
<1>6. Locks(t, 6) = {Lock(t, 1), Lock(t, 2), Lock(t, 3), Lock(t, 4), Lock(t, 5), Lock(t, 6)} \ {Null}
  BY <1>1 DEF Locks
<1> QED BY <1>2, <1>3, <1>4, <1>5, <1>6

\* When the plan of a function is complete, its stores unlock all of it.
LEMMA ScriptUnlocks ==
    ASSUME FieldInv, HiddenInv, NEW t, UseOK(t), pc[t] # "idle", Bound(t),
           op[t].kind \in (Kinds \ {"lock"}) \cup {"destroy"}, Distinct(t, Len(Plan[op[t].kind]))
    PROVE  IF op[t].kind \in Creating
           THEN Opens(Script(t), op[t].self, Locks(t, Len(Plan[op[t].kind])), Known(t))
           ELSE Closes(Script(t), Locks(t, Len(Plan[op[t].kind])), {}, Known(t))
<1> DEFINE k == op[t].kind
           s == op[t].self
           x == op[t].other
           o == op[t].ob
           M == Known(t)
<1>0. CallOK(t)
  BY DEF UseOK
<1>1. Knows(M) /\ s \in M /\ (k \in Binary => x \in M)
  BY FieldsSeen, NamesSeen
<1>2. /\ k # "destroy" => s \in Refs /\ s # Null
      /\ k \in Binary => x \in Refs /\ x # s /\ x # Null
      /\ k \in Binding \cup {"destroy"} => o \in Objs /\ o # Null
  BY <1>0, DistinctAssumption DEF CallOK
<1>3. \A r \in Refs : wr_obj[r] # Null => wr_pself[r] # Null
  BY DEF FieldInv
<1>4. /\ Lock(t, 1) = Where(t, Plan[k][1]) /\ Lock(t, 2) = Where(t, Plan[k][2])
      /\ Lock(t, 3) = Where(t, Plan[k][3]) /\ Lock(t, 4) = Where(t, Plan[k][4])
      /\ Lock(t, 5) = Where(t, Plan[k][5]) /\ Lock(t, 6) = Where(t, Plan[k][6])
  BY DEF Lock
<1>5. CASE k = "init"
  <2>1. Len(Plan[k]) = 2 /\ Plan[k][1] = "list" /\ Plan[k][2] = "first"
    BY <1>5, PlanIs
  <2>2. Lock(t, 1) = o /\ Lock(t, 2) = ptr[o]
    BY <1>4, <2>1, WhereIs
  <2>3. Locks(t, Len(Plan[k])) = {o, ptr[o]} \ {Null}
    BY <2>1, <2>2, LocksIs
  <2>4. Opens(Script(t), s, {o, ptr[o]} \ {Null}, M)
    BY <1>1, <1>2, <1>5, ScriptInit DEF Binding
  <2> QED BY <1>5, <2>3, <2>4 DEF Creating
<1>6. CASE k = "copy"
  <2>1. Len(Plan[k]) = 2 /\ Plan[k][1] = "other" /\ Plan[k][2] = "oprev"
    BY <1>6, PlanIs
  <2>2. Lock(t, 1) = x /\ Lock(t, 2) = wr_pself[x]
    BY <1>4, <2>1, WhereIs
  <2>3. x \in Refs /\ x # Null /\ wr_obj[x] # Null /\ wr_pself[x] # Null /\ s \in Refs /\ x \in M
    BY <1>1, <1>2, <1>3, <1>6 DEF Binary, Bound
  <2>4. Locks(t, Len(Plan[k])) = {x, wr_pself[x]}
    BY <2>1, <2>2, <2>3, LocksIs
  <2>5. wr_pself[x] # x
    <3>1. 1 \in 1 .. 2 /\ 2 \in 1 .. 2 /\ 1 < 2
      OBVIOUS
    <3> QED BY <2>1, <2>2, <2>3, <3>1 DEF Distinct
  <2>6. Opens(Script(t), s, {x, wr_pself[x]}, M)
    BY <1>1, <1>6, <2>3, <2>5, ScriptCopy
  <2> QED BY <1>6, <2>4, <2>6 DEF Creating
<1>7. CASE k \in {"clear", "fini"}
  <2>1. Len(Plan[k]) = 3 /\ Plan[k][1] = "self" /\ Plan[k][2] = "sprev" /\ Plan[k][3] = "snext"
    <3>1. CASE k = "clear"
      BY <3>1, PlanIs
    <3>2. CASE k = "fini"
      BY <3>2, PlanIs
    <3> QED BY <1>7, <3>1, <3>2
  <2>2. s \in Refs /\ s # Null /\ wr_obj[s] # Null /\ wr_pself[s] # Null
    BY <1>2, <1>3, <1>7 DEF Bound
  <2>3. Lock(t, 1) = s /\ Lock(t, 2) = wr_pself[s] /\ Lock(t, 3) = ptr[s]
    BY <1>4, <2>1, <2>2, WhereIs
  <2>4. Locks(t, Len(Plan[k])) = {s} \cup Around(s)
    BY <2>1, <2>2, <2>3, LocksIs DEF Around
  <2>5. s # wr_pself[s] /\ s # ptr[s] /\ wr_pself[s] # ptr[s]
    <3>1. 1 \in 1 .. 3 /\ 2 \in 1 .. 3 /\ 3 \in 1 .. 3 /\ 1 < 2 /\ 1 < 3 /\ 2 < 3
      OBVIOUS
    <3> QED BY <2>1, <2>2, <2>3, <3>1 DEF Distinct
  <2>6. s \notin Around(s)
    BY <2>5 DEF Around
  <2>7. Closes(Script(t), {s} \cup Around(s), {}, M)
    <3>1. CASE k = "clear"
      BY <1>1, <2>2, <2>5, <2>6, <3>1, ScriptClear
    <3>2. CASE k = "fini"
      BY <1>1, <2>2, <2>5, <2>6, <3>2, ScriptFini
    <3> QED BY <1>7, <3>1, <3>2
  <2> QED BY <1>7, <2>4, <2>7 DEF Creating
<1>8. CASE k = "destroy"
  <2>1. Len(Plan[k]) = 3 /\ Plan[k][1] = "list" /\ Plan[k][2] = "first" /\ Plan[k][3] = "second"
    BY <1>8, PlanIs
  <2>2. o \in Objs /\ ptr[o] # Null
    BY <1>2, <1>8 DEF Bound
  <2>3. Lock(t, 1) = o /\ Lock(t, 2) = ptr[o] /\ Lock(t, 3) = ptr[ptr[o]]
    BY <1>4, <2>1, WhereIs
  <2>4. Locks(t, Len(Plan[k])) = {o, ptr[o], ptr[ptr[o]]} \ {Null}
    BY <2>1, <2>3, LocksIs
  <2>5. ptr[o] # ptr[ptr[o]]
    <3>1. 2 \in 1 .. 3 /\ 3 \in 1 .. 3 /\ 2 < 3
      OBVIOUS
    <3> QED BY <2>1, <2>2, <2>3, <3>1 DEF Distinct
  <2>6. Closes(Script(t), {o, ptr[o], ptr[ptr[o]]} \ {Null}, {}, M)
    BY <1>1, <1>8, <2>2, <2>5, ScriptDestroy
  <2> QED BY <1>8, <2>4, <2>6 DEF Creating
<1>9. CASE k = "set"
  <2>1. /\ Len(Plan[k]) = 5 /\ Plan[k][1] = "self" /\ Plan[k][2] = "list" /\ Plan[k][3] = "first"
        /\ Plan[k][4] = "sprev" /\ Plan[k][5] = "snext"
    BY <1>9, PlanIs
  <2>2. s \in Refs /\ s # Null /\ o \in Objs /\ o # Null
    BY <1>2, <1>9 DEF Binding
  <2>3. /\ Lock(t, 1) = s /\ Lock(t, 2) = o /\ Lock(t, 3) = ptr[o]
        /\ Lock(t, 4) = (IF wr_obj[s] = Null THEN Null ELSE wr_pself[s])
        /\ Lock(t, 5) = (IF wr_obj[s] = Null THEN Null ELSE ptr[s])
    BY <1>4, <2>1, WhereIs
  <2>4. Locks(t, Len(Plan[k])) = ({s, o, ptr[o]} \ {Null}) \cup AroundIfBound(s)
    BY <2>1, <2>3, LocksIs DEF AroundIfBound, Around
  <2>5. \A i, j \in 1 .. 5 : i < j /\ Lock(t, i) = Lock(t, j) => Lock(t, i) = Null
    BY <2>1 DEF Distinct
  <2>6. /\ 1 \in 1 .. 5 /\ 2 \in 1 .. 5 /\ 3 \in 1 .. 5 /\ 4 \in 1 .. 5 /\ 5 \in 1 .. 5
        /\ 1 < 3 /\ 1 < 4 /\ 1 < 5 /\ 2 < 4 /\ 2 < 5 /\ 3 < 4 /\ 3 < 5 /\ 4 < 5
    OBVIOUS
  <2>7. s # ptr[o] /\ (wr_obj[s] # Null => ptr[s] # wr_pself[s])
    BY <1>3, <2>2, <2>3, <2>5, <2>6
  <2>8. s \notin AroundIfBound(s)
    BY <2>2, <2>3, <2>5, <2>6 DEF AroundIfBound, Around
  <2>9. o \notin AroundIfBound(s)
    BY <2>2, <2>3, <2>5, <2>6 DEF AroundIfBound, Around
  <2>10. ptr[o] \notin AroundIfBound(s)
    BY <2>2, <2>3, <2>5, <2>6 DEF AroundIfBound, Around
  <2>11. Closes(Script(t), ({s, o, ptr[o]} \ {Null}) \cup AroundIfBound(s), {}, M)
    <3>1. {s, o, ptr[o]} \cap AroundIfBound(s) = {}
      BY <2>8, <2>9, <2>10
    <3> QED BY <1>1, <1>9, <2>2, <2>7, <3>1, ScriptSet
  <2> QED BY <1>9, <2>4, <2>11 DEF Creating
<1>10. CASE k = "copyassign"
  <2>1. /\ Len(Plan[k]) = 5 /\ Plan[k][1] = "other" /\ Plan[k][2] = "oprev" /\ Plan[k][3] = "self"
        /\ Plan[k][4] = "sprev" /\ Plan[k][5] = "snext"
    BY <1>10, PlanIs
  <2>2. /\ s \in Refs /\ s # Null /\ x \in Refs /\ x # Null /\ x # s /\ x \in M /\ wr_obj[x] # Null
        /\ wr_pself[x] # Null
    BY <1>1, <1>2, <1>3, <1>10 DEF Binary, Bound
  <2>3. /\ Lock(t, 1) = x /\ Lock(t, 2) = wr_pself[x] /\ Lock(t, 3) = s
        /\ Lock(t, 4) = (IF wr_obj[s] = Null THEN Null ELSE wr_pself[s])
        /\ Lock(t, 5) = (IF wr_obj[s] = Null THEN Null ELSE ptr[s])
    BY <1>4, <2>1, WhereIs
  <2>4. Locks(t, Len(Plan[k])) = {x, wr_pself[x], s} \cup AroundIfBound(s)
    BY <2>1, <2>2, <2>3, LocksIs DEF AroundIfBound, Around
  <2>5. \A i, j \in 1 .. 5 : i < j /\ Lock(t, i) = Lock(t, j) => Lock(t, i) = Null
    BY <2>1 DEF Distinct
  <2>6. /\ 1 \in 1 .. 5 /\ 2 \in 1 .. 5 /\ 3 \in 1 .. 5 /\ 4 \in 1 .. 5 /\ 5 \in 1 .. 5
        /\ 1 < 2 /\ 2 < 3 /\ 1 < 4 /\ 1 < 5 /\ 2 < 4 /\ 2 < 5 /\ 3 < 4 /\ 3 < 5 /\ 4 < 5
    OBVIOUS
  <2>7. wr_pself[x] # s /\ wr_pself[x] # x /\ (wr_obj[s] # Null => ptr[s] # wr_pself[s])
    BY <1>3, <2>2, <2>3, <2>5, <2>6
  <2>8. s \notin AroundIfBound(s)
    BY <2>2, <2>3, <2>5, <2>6 DEF AroundIfBound, Around
  <2>9. x \notin AroundIfBound(s)
    BY <2>2, <2>3, <2>5, <2>6 DEF AroundIfBound, Around
  <2>10. wr_pself[x] \notin AroundIfBound(s)
    BY <2>2, <2>3, <2>5, <2>6 DEF AroundIfBound, Around
  <2>11. Closes(Script(t), {x, wr_pself[x], s} \cup AroundIfBound(s), {}, M)
    <3>1. {s, x, wr_pself[x]} \cap AroundIfBound(s) = {} /\ wr_pself[x] \notin {s, x}
      BY <2>7, <2>8, <2>9, <2>10
    <3> QED BY <1>1, <1>10, <2>2, <2>7, <3>1, ScriptCopyAssign
  <2> QED BY <1>10, <2>4, <2>11 DEF Creating
<1>11. CASE k = "moveassign"
  <2>1. /\ Len(Plan[k]) = 6 /\ Plan[k][1] = "other" /\ Plan[k][2] = "oprev" /\ Plan[k][3] = "onext"
        /\ Plan[k][4] = "self" /\ Plan[k][5] = "sprev" /\ Plan[k][6] = "snext"
    BY <1>11, PlanIs
  <2>2. /\ s \in Refs /\ s # Null /\ x \in Refs /\ x # Null /\ x # s /\ x \in M /\ wr_obj[x] # Null
        /\ wr_pself[x] # Null
    BY <1>1, <1>2, <1>3, <1>11 DEF Binary, Bound
  <2>3. /\ Lock(t, 1) = x /\ Lock(t, 2) = wr_pself[x] /\ Lock(t, 3) = ptr[x] /\ Lock(t, 4) = s
        /\ Lock(t, 5) = (IF wr_obj[s] = Null THEN Null ELSE wr_pself[s])
        /\ Lock(t, 6) = (IF wr_obj[s] = Null THEN Null ELSE ptr[s])
    BY <1>4, <2>1, WhereIs
  <2>4. Locks(t, Len(Plan[k])) = ({x, s} \cup Around(x)) \cup AroundIfBound(s)
    BY <2>1, <2>2, <2>3, LocksIs DEF AroundIfBound, Around
  <2>5. \A i, j \in 1 .. 6 : i < j /\ Lock(t, i) = Lock(t, j) => Lock(t, i) = Null
    BY <2>1 DEF Distinct
  <2>6. /\ 1 \in 1 .. 6 /\ 2 \in 1 .. 6 /\ 3 \in 1 .. 6 /\ 4 \in 1 .. 6 /\ 5 \in 1 .. 6 /\ 6 \in 1 .. 6
        /\ 1 < 2 /\ 1 < 3 /\ 2 < 3 /\ 2 < 4 /\ 3 < 4 /\ 1 < 5 /\ 1 < 6 /\ 2 < 5 /\ 2 < 6 /\ 3 < 5
        /\ 3 < 6 /\ 4 < 5 /\ 4 < 6 /\ 5 < 6
    OBVIOUS
  <2>7. /\ ptr[x] # wr_pself[x] /\ wr_pself[x] # s /\ wr_pself[x] # x /\ ptr[x] # s /\ ptr[x] # x
        /\ wr_obj[s] # Null => ptr[s] # wr_pself[s]
    BY <1>3, <2>2, <2>3, <2>5, <2>6
  <2>8. s \notin AroundIfBound(s)
    BY <2>2, <2>3, <2>5, <2>6 DEF AroundIfBound, Around
  <2>9. x \notin AroundIfBound(s)
    BY <2>2, <2>3, <2>5, <2>6 DEF AroundIfBound, Around
  <2>10. wr_pself[x] \notin AroundIfBound(s)
    BY <2>2, <2>3, <2>5, <2>6 DEF AroundIfBound, Around
  <2>11. ptr[x] \notin AroundIfBound(s)
    BY <2>2, <2>3, <2>5, <2>6 DEF AroundIfBound, Around
  <2>12. Closes(Script(t), ({x, s} \cup Around(x)) \cup AroundIfBound(s), {}, M)
    <3>1. ({s, x} \cup Around(x)) \cap AroundIfBound(s) = {} /\ {s, x} \cap Around(x) = {}
      BY <2>7, <2>8, <2>9, <2>10, <2>11 DEF Around
    <3> QED BY <1>1, <1>11, <2>2, <2>7, <3>1, ScriptMoveAssign
  <2> QED BY <1>11, <2>4, <2>12 DEF Creating
<1> QED BY <1>5, <1>6, <1>7, <1>8, <1>9, <1>10, <1>11 DEF Kinds

\* A thread that goes on to its stores.
LEMMA Stores ==
    ASSUME NEW t, pc'[t] = "commit", Injective(held'[t]),
           \A l \in Locs : owner'[l] = t <=> l \in Ranked(held'[t]),
           op'[t].kind \in Creating => op'[t].self \notin Ranked(held'[t]) /\ after'[t] = "return",
           script'[t] # <<>>, NEW K, K \subseteq Known(t)',
           \/ op'[t].kind \in Creating /\ Opens(script'[t], op'[t].self, Ranked(held'[t]), K)
           \/ /\ Closes(script'[t], Ranked(held'[t]), {}, K)
              /\ op'[t].kind \in Creating => op'[t].self \notin DOMAIN Head(script'[t]).ptr
    PROVE  ThreadOK(t)'
<1>1. (Injective(held[t])' <=> Injective(held'[t])) /\ Ranked(held[t])' = Ranked(held'[t])
  BY DEF Injective, Ranked
<1>2. HeldOK(t)' /\ PlanOK(t)'
  BY <1>1 DEF HeldOK, PlanOK
<1>3. CASE op'[t].kind \in Creating /\ Opens(script'[t], op'[t].self, Ranked(held'[t]), K)
  <2>1. Starting(t)'
    BY <1>3 DEF Starting, Opens
  <2>2. Opens(script'[t], op'[t].self, Ranked(held'[t]), Known(t)')
    BY <1>3, ClosesMore DEF Opens, StoreOK
  <2>3. Opens(script[t], op[t].self, Ranked(held[t]), Known(t))'
    BY <1>1, <2>2
  <2> QED BY <1>2, <1>3, <2>1, <2>3 DEF CommitOK, ThreadOK
<1>4. CASE /\ Closes(script'[t], Ranked(held'[t]), {}, K)
           /\ op'[t].kind \in Creating => op'[t].self \notin DOMAIN Head(script'[t]).ptr
  <2>1. ~Starting(t)'
    BY <1>4 DEF Starting
  <2>2. Closes(script'[t], Ranked(held'[t]), {}, Known(t)')
    BY <1>4, ClosesMore
  <2>3. Closes(script[t], Ranked(held[t]), {}, Known(t))'
    BY <1>1, <2>2
  <2> QED BY <1>2, <2>1, <2>3 DEF CommitOK, ThreadOK
<1> QED BY <1>3, <1>4

\* A thread that goes on with its plan.
LEMMA Advances ==
    ASSUME NEW t, pc'[t] = "acquire", op'[t] = op[t], UNCHANGED fields, NEW n \in Nat,
           NEW m \in n + 1 .. Len(Plan[op[t].kind]), stage'[t] = m, Len(Plan[op[t].kind]) \in Nat,
           Lock(t, m) # Null, \A j \in n + 1 .. m - 1 : Lock(t, j) = Null,
           Injective(held'[t]), \A l \in Locs : owner'[l] = t <=> l \in Ranked(held'[t]),
           op[t].kind \in Creating => op[t].self \notin Ranked(held'[t]),
           Ranked(held'[t]) = Locks(t, n), Distinct(t, n), Bound(t)
    PROVE  ThreadOK(t)'
<1>1. (Injective(held[t])' <=> Injective(held'[t])) /\ Ranked(held[t])' = Ranked(held'[t])
  BY DEF Injective, Ranked
<1>2. \A what : Where(t, what)' = Where(t, what)
  BY DEF Where, fields
<1>3. \A j : Lock(t, j)' = Lock(t, j)
  BY <1>2 DEF Lock
<1>4. \A j \in 1 .. m - 1 : j \in 1 .. n \/ Lock(t, j) = Null
  <2> SUFFICES ASSUME NEW j \in 1 .. m - 1, j \notin 1 .. n PROVE Lock(t, j) = Null
    OBVIOUS
  <2>1. j \in n + 1 .. m - 1
    OBVIOUS
  <2> QED BY <2>1
<1>5. \A j \in 1 .. n : j \in 1 .. m - 1
  OBVIOUS
<1>6. Locks(t, m - 1) = Locks(t, n)
  BY <1>4, <1>5 DEF Locks
<1>7. Distinct(t, m - 1)
  BY <1>4 DEF Distinct
<1>8. Locks(t, stage[t] - 1)' = Locks(t, m - 1)
  BY <1>3 DEF Locks
<1>9. Distinct(t, stage[t] - 1)'
  BY <1>3, <1>7 DEF Distinct
<1>10. Bound(t)'
  BY DEF Bound, fields
<1>11. Lock(t, stage[t])' # Null
  <2>1. Lock(t, stage[t])' = Where(t, Plan[op[t].kind][m])'
    BY DEF Lock
  <2> QED BY <1>2, <2>1 DEF Lock
<1>12. m \in 1 .. Len(Plan[op[t].kind])
  OBVIOUS
<1>13. PlanOK(t)'
  BY <1>1, <1>6, <1>8, <1>9, <1>10, <1>11, <1>12 DEF PlanOK
<1>14. HeldOK(t)' /\ CommitOK(t)'
  BY <1>1 DEF HeldOK, CommitOK
<1> QED BY <1>13, <1>14 DEF ThreadOK

\* A thread that has got the next lock of its plan.
LEMMA LockGot ==
    ASSUME LockInv, NEW t \in Threads, pc[t] = "acquire", owner[Lock(t, stage[t])] = Free
    PROVE  LET l == Lock(t, stage[t])
               g == Append(held[t], l)
           IN  /\ l \in Locs /\ l \in Seen /\ g \in Seq(Locs) /\ g # <<>> /\ Injective(g)
               /\ Ranked(g) = Locks(t, stage[t]) /\ Distinct(t, stage[t])
               /\ op[t].kind \in Creating => op[t].self \notin Ranked(g)
               /\ \A m \in Locs : (m = l \/ owner[m] = t) <=> m \in Ranked(g)
<1> DEFINE n == stage[t]
           l == Lock(t, n)
           h == held[t]
           g == Append(h, l)
<1>0. /\ CallInv /\ ThreadInv /\ FieldInv /\ HiddenInv /\ UseOK(t) /\ PlanOK(t) /\ HeldOK(t)
      /\ n \in Nat /\ h \in Seq(Locs) /\ op[t].kind \in Kinds \cup {"destroy"}
  BY DEF LockInv, ThreadInv, CallInv, CallTypes
<1>1. /\ n \in 1 .. Len(Plan[op[t].kind]) /\ l # Null /\ Ranked(h) = Locks(t, n - 1)
      /\ Distinct(t, n - 1)
      /\ n > 1 => Bound(t)
  BY <1>0 DEF PlanOK
<1>2. l \in Locs /\ l \in Seen
  BY <1>0, <1>1, LockSeen
<1>3. Injective(h) /\ \A m \in Locs : owner[m] = t <=> m \in Ranked(h)
  BY <1>0 DEF HeldOK
<1>4. l \notin Ranked(h)
  BY <1>2, <1>3, DistinctAssumption
<1>5. g \in Seq(Locs) /\ g # <<>> /\ Injective(g) /\ Ranked(g) = Ranked(h) \cup {l}
  BY <1>0, <1>2, <1>3, <1>4, HeldAppend
<1>6. \A j \in 1 .. n : j \in 1 .. n - 1 \/ j = n
  BY <1>0
<1>7. n \in 1 .. n /\ \A j \in 1 .. n - 1 : j \in 1 .. n
  BY <1>0, <1>1
<1>8. Locks(t, n) = Locks(t, n - 1) \cup {l}
  BY <1>1, <1>6, <1>7 DEF Locks
<1>9. Distinct(t, n)
  <2> SUFFICES ASSUME NEW i \in 1 .. n, NEW j \in 1 .. n, i < j, Lock(t, i) = Lock(t, j)
               PROVE  Lock(t, i) = Null
    BY DEF Distinct
  <2>1. i \in 1 .. n - 1
    BY <1>0
  <2>2. CASE j = n
    <3>1. Lock(t, i) = l
      BY <2>2
    <3>2. Lock(t, i) \in Locks(t, n - 1)
      BY <1>1, <2>1, <3>1 DEF Locks
    <3> QED BY <1>1, <1>4, <3>1, <3>2
  <2>3. CASE j \in 1 .. n - 1
    BY <1>1, <2>1, <2>3 DEF Distinct
  <2> QED BY <1>6, <2>2, <2>3
<1>10. op[t].kind \in Creating => op[t].self \notin Ranked(g)
  <2> SUFFICES ASSUME op[t].kind \in Creating PROVE op[t].self \notin Ranked(g)
    OBVIOUS
  <2>1. Hidden(op[t].self)
    BY <1>0, CreatingHidden
  <2>2. op[t].self # l
    BY <1>2, <2>1 DEF Seen
  <2>3. op[t].self \notin Ranked(h)
    BY <1>0 DEF HeldOK
  <2> QED BY <1>5, <2>2, <2>3
<1>11. \A m \in Locs : (m = l \/ owner[m] = t) <=> m \in Ranked(g)
  BY <1>3, <1>5
<1> QED BY <1>1, <1>2, <1>5, <1>8, <1>9, <1>10, <1>11

\* A step of a thread that takes its locks.
LEMMA AcquireStep ==
    ASSUME LockInv, CallInv', NEW t \in Threads, pc[t] = "acquire", Others(t),
           UNCHANGED <<fields, life, object>>, OwnerStep(t),
           op'[t] = op[t] \/ (op'[t] = Cleared(op[t]) /\ op[t].kind \in Binary \ Creating),
           stage' \in [Threads -> Nat], held' \in [Threads -> Seq(Locs)],
           script' = [u \in Threads |-> script'[u]], after' = [u \in Threads |-> after'[u]],
           ThreadOK(t)', \A l \in Locs : owner[l] = Free /\ owner'[l] # Free => l \in Seen
    PROVE  LockInv'
<1>1. UNCHANGED fields /\ life' = life /\ freed' = freed
  BY DEF object
<1>2. ThreadInv' /\ LifeStep(t) /\ \A u \in Threads : UseOK(u)'
  BY <1>1, GoesOn
<1> QED BY <1>1, <1>2, QuietStep

\* What has been seen stays seen.
LEMMA KnownKept ==
    ASSUME FieldInv, NEW t \in Threads, pc[t] # "commit", Others(t), life' = life,
           op'[t].self = op[t].self
    PROVE  Known(t) \subseteq Known(t)'
<1>1. \A r : Hidden(r)' => Hidden(r)
  BY HiddenQuiet
<1> QED BY <1>1 DEF Known, Seen

\* A set of places in a plan has a least one.
LEMMA LeastPlace ==
    ASSUME NEW S \in SUBSET (1 .. 6), S # {} PROVE \E i \in S : \A j \in S : i <= j
<1>1. CASE 1 \in S
  BY <1>1
<1>2. CASE 1 \notin S /\ 2 \in S
  BY <1>2
<1>3. CASE 1 \notin S /\ 2 \notin S /\ 3 \in S
  BY <1>3
<1>4. CASE 1 \notin S /\ 2 \notin S /\ 3 \notin S /\ 4 \in S
  BY <1>4
<1>5. CASE 1 \notin S /\ 2 \notin S /\ 3 \notin S /\ 4 \notin S /\ 5 \in S
  BY <1>5
<1>6. CASE 1 \notin S /\ 2 \notin S /\ 3 \notin S /\ 4 \notin S /\ 5 \notin S
  <2>1. \A i \in S : i = 6
    BY <1>6
  <2>2. PICK i \in S : TRUE
    OBVIOUS
  <2> QED BY <2>1, <2>2
<1> QED BY <1>1, <1>2, <1>3, <1>4, <1>5, <1>6

\* A lock has been got.
LEMMA GotLocks ==
    ASSUME LockInv, CallInv', NEW t \in Threads, pc[t] = "acquire", UNCHANGED <<fields, life, object>>,
           owner[Lock(t, stage[t])] = Free, owner' = [owner EXCEPT ![Lock(t, stage[t])] = t],
           held' = [held EXCEPT ![t] = Append(@, Lock(t, stage[t]))],
           Got(t, Plan[op[t].kind][stage[t]])
    PROVE  LockInv'
<1> DEFINE k == op[t].kind
           s == op[t].self
           x == op[t].other
           o == op[t].ob
           n == stage[t]
           what == Plan[k][n]
           l == Lock(t, n)
           g == Append(held[t], l)
<1>0. /\ CallInv /\ ThreadInv /\ FieldInv /\ HiddenInv /\ UseOK(t) /\ PlanOK(t) /\ HeldOK(t)
      /\ n \in Nat /\ k \in Kinds \cup {"destroy"} /\ op[t] \in CallTypes
  BY DEF LockInv, ThreadInv, CallInv, CallTypes
<1>1. /\ l \in Locs /\ l \in Seen /\ g \in Seq(Locs) /\ g # <<>> /\ Injective(g)
      /\ Ranked(g) = Locks(t, n) /\ Distinct(t, n)
      /\ k \in Creating => s \notin Ranked(g)
      /\ \A m \in Locs : (m = l \/ owner[m] = t) <=> m \in Ranked(g)
  BY LockGot
<1>2. held'[t] = g /\ held' \in [Threads -> Seq(Locs)] /\ \A u \in Threads : u # t => held'[u] = held[u]
  BY <1>0, <1>1 DEF ThreadInv
<1>3. /\ OwnerStep(t) /\ \A m \in Locs : owner'[m] = t <=> m \in Ranked(g)
      /\ \A m \in Locs : owner[m] = Free /\ owner'[m] # Free => m \in Seen
  <2> HIDE DEF l, g
  <2>1. owner' = [owner EXCEPT ![l] = t] /\ owner \in [Locs -> Threads \cup {Free}] /\ owner[l] = Free
    BY <1>0 DEF FieldInv, l
  <2> QED BY <1>1, <2>1 DEF OwnerStep
<1>4. /\ n \in 1 .. Len(Plan[k]) /\ l # Null
      /\ n > 1 => Bound(t)
  BY <1>0 DEF PlanOK
<1>5. CallOK(t)
  BY <1>0 DEF UseOK
<1>6. /\ what = "other" => n = 1 /\ k \in Binary
      /\ k \in {"clear", "fini", "set", "lock"} /\ what = "self" => n = 1
      /\ k = "destroy" /\ what = "list" => n = 1
      /\ k = "moveassign" /\ what = "self" => n = 4
      /\ n = 1 /\ k \in Binary => what = "other"
      /\ n = 1 /\ k \in {"clear", "fini", "lock"} => what = "self"
      /\ n = 1 /\ k = "destroy" => what = "list"
      /\ k = "lock" => n = 1
  BY <1>0, <1>4, PlanSteps, Guarded
<1>7. l = Where(t, what)
  BY DEF Lock
<1>8. ASSUME n = 1 PROVE Ranked(g) = {l}
  BY <1>1, <1>4, <1>8, LocksIs
<1>9. /\ k # "destroy" => s \in Refs /\ s # Null
      /\ k \in Binary => x \in Refs /\ x # s /\ x # Null
      /\ k \in Binding \cup {"destroy"} => o \in Objs /\ o # Null
  BY <1>5, DistinctAssumption DEF CallOK
<1>10. Knows(Known(t)) /\ Null \in Known(t)
  BY <1>0, FieldsSeen DEF Knows
<1> HIDE DEF g, l
<1>11. stage \in [Threads -> Nat] /\ after = [u \in Threads |-> after[u]] /\ script = [u \in Threads |-> script[u]]
  BY <1>0 DEF ThreadInv
\* It goes on to its stores.
<1>12. ASSUME NEW q, NEW label, Goto(t, "commit"), script' = [script EXCEPT ![t] = q],
              after' = [after EXCEPT ![t] = label], UNCHANGED stage,
              \/ UNCHANGED op
              \/ op' = [op EXCEPT ![t] = Cleared(@)] /\ k \in Binary \ Creating,
              k \in Creating => label = "return",
              \/ k \in Creating /\ Opens(q, s, Ranked(g), Known(t))
              \/ /\ Closes(q, Ranked(g), {}, Known(t))
                 /\ k \in Creating => s \notin DOMAIN Head(q).ptr
       PROVE  LockInv'
  <2>1. pc'[t] = "commit" /\ script'[t] = q /\ after'[t] = label
    BY <1>0, <1>11, <1>12 DEF Goto, CallInv
  <2>2. Others(t)
    BY <1>0, <1>2, <1>11, <1>12 DEF Others, Goto, CallInv
  <2>3. op'[t] = op[t] \/ (op'[t] = Cleared(op[t]) /\ k \in Binary \ Creating)
    BY <1>0, <1>12 DEF CallInv
  <2>4. op'[t].self = s /\ (op'[t].kind \in Creating <=> k \in Creating)
    BY <1>0, <2>3 DEF Cleared, CallTypes, Creating
  <2>5. /\ stage' \in [Threads -> Nat] /\ script' = [u \in Threads |-> script'[u]]
        /\ after' = [u \in Threads |-> after'[u]]
    BY <1>11, <1>12
  <2>6. q # <<>>
    <3>1. l \in Ranked(g)
      BY <1>1
    <3> QED BY <1>12, <3>1, ClosesDone DEF Opens
  <2>7. life' = life
    OBVIOUS
  <2>8. Known(t) \subseteq Known(t)'
    BY <1>0, <2>2, <2>4, <2>7, KnownKept
  <2>9. ThreadOK(t)'
    BY <1>1, <1>2, <1>3, <1>12, <2>1, <2>4, <2>6, <2>8, Stores
  <2> QED BY <1>2, <1>3, <2>2, <2>3, <2>5, <2>9, AcquireStep
\* It backs off, or uses what it has locked.
<1>13. ASSUME NEW place \in {"release", "use"}, Goto(t, place), UNCHANGED <<stage, script, op>>,
              UNCHANGED after \/ \E label : after' = [after EXCEPT ![t] = label]
       PROVE  LockInv'
  <2>1. pc'[t] = place /\ op'[t] = op[t] /\ stage' \in [Threads -> Nat]
    BY <1>0, <1>11, <1>13 DEF Goto, CallInv
  <2>2. Others(t)
    BY <1>0, <1>2, <1>11, <1>13 DEF Others, Goto, CallInv
  <2>3. script' = [u \in Threads |-> script'[u]] /\ after' = [u \in Threads |-> after'[u]]
    BY <1>11, <1>13
  <2>4. ThreadOK(t)'
    BY <1>0, <1>1, <1>2, <1>3, <2>1, Holds
  <2> QED BY <1>2, <1>3, <2>1, <2>2, <2>3, <2>4, AcquireStep
\* The plan goes on.
<1>14. ASSUME Bound(t), k # "lock", Proceed(t) PROVE LockInv'
  <2> DEFINE plan == Plan[k]
             left == {i \in n + 1 .. Len(plan) : Where(t, plan[i]) # Null}
  <2>1. CASE left # {}
    <3> DEFINE m == CHOOSE i \in left : \A j \in left : i <= j
    <3>1. stage' = [stage EXCEPT ![t] = m] /\ UNCHANGED <<pc, script, after, op>>
      BY <1>14, <2>1 DEF Proceed, ProceedLooping
    <3>2. Len(plan) \in Nat
      BY <1>0, PlanLen
    <3>3. left \subseteq Nat /\ \E i \in left : \A j \in left : i <= j
      <4>1. Len(plan) \in 1 .. 6
        <5>1. k \in {"init", "copy", "set", "clear", "copyassign", "moveassign", "lock", "fini", "destroy"}
          BY <1>0 DEF Kinds
        <5> QED BY <1>0, <5>1, PlanLen
      <4>2. left \in SUBSET (1 .. 6)
        BY <1>0, <4>1
      <4>3. left \subseteq Nat
        BY <4>2
      <4> HIDE DEF left
      <4> QED BY <2>1, <4>2, <4>3, LeastPlace
    <3>4. m \in left /\ \A j \in left : m <= j
      BY <3>3
    <3> HIDE DEF m
    <3>5. m \in n + 1 .. Len(plan) /\ Lock(t, m) # Null /\ m \in Nat
      BY <3>3, <3>4 DEF Lock
    <3>6. \A j \in n + 1 .. m - 1 : Lock(t, j) = Null
      <4> SUFFICES ASSUME NEW j \in n + 1 .. m - 1, Lock(t, j) # Null PROVE FALSE
        OBVIOUS
      <4>1. j \in left /\ ~(m <= j)
        BY <1>0, <3>2, <3>5 DEF Lock
      <4> QED BY <3>4, <4>1
    <3>7. stage'[t] = m /\ stage' \in [Threads -> Nat] /\ pc'[t] = "acquire" /\ op'[t] = op[t]
      BY <1>11, <3>1, <3>5
    <3>8. Others(t)
      BY <1>2, <1>11, <3>1 DEF Others
    <3>9. UNCHANGED fields
      OBVIOUS
    <3>10. ThreadOK(t)'
      BY <1>0, <1>1, <1>2, <1>3, <1>14, <3>2, <3>5, <3>6, <3>7, <3>9, Advances
    <3> QED BY <1>2, <1>3, <1>11, <3>1, <3>7, <3>8, <3>10, AcquireStep
  <2>2. CASE left = {}
    <3>1. PICK label : Write(t, Script(t), label) /\ (k \in Creating => label = "return")
      BY <1>14, <2>2 DEF Proceed, ProceedLooping, Creating
    <3>2. \A i \in n + 1 .. Len(plan) : Lock(t, i) = Null
      BY <2>2 DEF Lock
    <3>3. Len(plan) \in Nat
      BY <1>0, PlanLen
    <3>4. \A i \in 1 .. Len(plan) : i \in 1 .. n \/ Lock(t, i) = Null
      <4> SUFFICES ASSUME NEW i \in 1 .. Len(plan), i \notin 1 .. n PROVE Lock(t, i) = Null
        OBVIOUS
      <4>1. i \in n + 1 .. Len(plan)
        BY <1>0, <3>3
      <4> QED BY <3>2, <4>1
    <3>5. \A i \in 1 .. n : i \in 1 .. Len(plan)
      BY <1>0, <1>4, <3>3
    <3>6. Locks(t, Len(plan)) = Locks(t, n)
      BY <3>4, <3>5 DEF Locks
    <3>7. Distinct(t, Len(plan))
      BY <1>1, <3>4 DEF Distinct
    <3>8. k \in (Kinds \ {"lock"}) \cup {"destroy"}
      BY <1>0, <1>14
    <3>9. IF k \in Creating THEN Opens(Script(t), s, Locks(t, Len(plan)), Known(t))
          ELSE Closes(Script(t), Locks(t, Len(plan)), {}, Known(t))
      BY <1>0, <1>14, <3>7, <3>8, ScriptUnlocks
    <3>10. \/ k \in Creating /\ Opens(Script(t), s, Ranked(g), Known(t))
           \/ /\ Closes(Script(t), Ranked(g), {}, Known(t))
              /\ k \in Creating => s \notin DOMAIN Head(Script(t)).ptr
      BY <1>1, <3>6, <3>9
    <3> QED BY <1>12, <3>1, <3>10 DEF Write
  <2> QED BY <2>1, <2>2
<1>15. CASE what = "list" /\ k = "destroy" /\ ptr[o] = Null
  <2> DEFINE q == <<Store(o, Same, Same, Same)>>
  <2>1. Write(t, q, "return")
    BY <1>15 DEF Got
  <2>2. l = o /\ Ranked(g) = {o} /\ {o} \ {Null} = {o} /\ o \in Locs \cup {Null}
    BY <1>6, <1>7, <1>8, <1>9, <1>15, WhereIs DEF Locs
  <2>3. Closes(q, Ranked(g), {}, Known(t))
    BY <2>2, ClosePlain
  <2> HIDE DEF q
  <2> QED BY <1>12, <1>15, <2>1, <2>3 DEF Write, Creating
<1>16. CASE what = "other" /\ wr_obj[x] = Null
  <2> DEFINE q == <<Store(x, x :> Null, Same, Same)>>
  <2>1. /\ Goto(t, "commit") /\ script' = [script EXCEPT ![t] = q] /\ UNCHANGED stage
        /\ IF k = "copy" THEN UNCHANGED op /\ after' = [after EXCEPT ![t] = "return"]
           ELSE /\ op' = [op EXCEPT ![t].kind = "clear", ![t].other = Null]
                /\ after' = [after EXCEPT ![t] = "check"]
    BY <1>16 DEF Got
  <2>2. k \in Binary /\ x \in Refs /\ x # s /\ x # Null /\ x \in Locs
    BY <1>6, <1>9, <1>16 DEF Locs
  <2>3. l = x /\ Ranked(g) = {x} /\ {x} \ {Null} = {x}
    BY <1>6, <1>7, <1>8, <1>16, <2>2, WhereIs
  <2>4. Closes(q, Ranked(g), {}, Known(t))
    BY <1>10, <2>2, <2>3, CloseLink
  <2>5. s \notin DOMAIN Head(q).ptr
    <3>1. Head(q) = Store(x, x :> Null, Same, Same)
      OBVIOUS
    <3>2. DOMAIN Store(x, x :> Null, Same, Same).ptr = {x}
      BY DEF Store, :>
    <3> QED BY <2>2, <3>1, <3>2
  <2>6. op' = [op EXCEPT ![t].kind = "clear", ![t].other = Null] => op' = [op EXCEPT ![t] = Cleared(@)]
    BY <1>0 DEF CallInv, CallTypes, Cleared
  <2> HIDE DEF q
  <2>7. CASE k = "copy"
    BY <1>12, <2>1, <2>4, <2>5, <2>7
  <2>8. CASE k # "copy"
    <3>1. k \in Binary \ Creating
      BY <2>2, <2>8 DEF Binary, Creating
    <3> QED BY <1>12, <2>1, <2>4, <2>6, <2>8, <3>1
  <2> QED BY <2>7, <2>8
<1>17. CASE what = "self" /\ k = "lock"
  <2>1. Goto(t, "use") /\ UNCHANGED <<stage, script, after, op>>
    BY <1>17 DEF Got
  <2> QED BY <1>13, <2>1
<1>18. CASE what = "self" /\ k \in {"clear", "fini"} /\ wr_obj[s] = Null
  <2> DEFINE q == <<Store(s, s :> Null, Same, Same)>>
  <2>1. Write(t, q, "return")
    BY <1>18 DEF Got
  <2>2. s \in Refs /\ s # Null /\ s \in Locs
    BY <1>9, <1>18 DEF Locs
  <2>3. l = s /\ Ranked(g) = {s} /\ {s} \ {Null} = {s}
    BY <1>6, <1>7, <1>8, <1>18, <2>2, WhereIs
  <2>4. Closes(q, Ranked(g), {}, Known(t))
    BY <1>10, <2>2, <2>3, CloseLink
  <2> HIDE DEF q
  <2> QED BY <1>12, <1>18, <2>1, <2>4 DEF Write, Creating
<1>19. CASE what = "self" /\ k \in {"set", "copyassign"} /\ BackOff(t, "return")
  BY <1>13, <1>19 DEF BackOff
<1>20. CASE what = "self" /\ k = "moveassign" /\ wr_obj[s] = wr_obj[x]
  <2> DEFINE q == MoveOut(t) \o <<Store(s, Same, Same, Same)>>
  <2>1. Write(t, q, "return")
    BY <1>20 DEF Got
  <2>2. /\ n = 4 /\ Plan[k][1] = "other" /\ Plan[k][2] = "oprev" /\ Plan[k][3] = "onext"
        /\ Plan[k][4] = "self"
    BY <1>6, <1>20, PlanIs
  <2>3. /\ s \in Refs /\ s # Null /\ x \in Refs /\ x # Null /\ x # s /\ wr_obj[x] # Null
        /\ wr_pself[x] # Null
    BY <1>0, <1>4, <1>9, <1>20, <2>2 DEF Binary, Bound, FieldInv
  <2>4. Lock(t, 1) = x /\ Lock(t, 2) = wr_pself[x] /\ Lock(t, 3) = ptr[x] /\ Lock(t, 4) = s
    BY <2>2, WhereIs DEF Lock
  <2>5. Ranked(g) = {s, x} \cup Around(x)
    BY <1>1, <2>2, <2>3, <2>4, LocksIs DEF Around
  <2>6. \A i, j \in 1 .. 4 : i < j /\ Lock(t, i) = Lock(t, j) => Lock(t, i) = Null
    BY <1>1, <2>2 DEF Distinct
  <2>7. 1 \in 1 .. 4 /\ 2 \in 1 .. 4 /\ 3 \in 1 .. 4 /\ 4 \in 1 .. 4
        /\ 1 < 2 /\ 1 < 3 /\ 2 < 3 /\ 2 < 4 /\ 3 < 4
    OBVIOUS
  <2>8. /\ ptr[x] # wr_pself[x] /\ wr_pself[x] # s /\ wr_pself[x] # x /\ ptr[x] # s /\ ptr[x] # x
    BY <2>3, <2>4, <2>6, <2>7
  <2>9. x \notin Around(x) /\ s \notin {x} \cup Around(x)
    BY <2>3, <2>8 DEF Around
  <2>10. Closes(q, Ranked(g), {}, Known(t))
    BY <1>0, <1>10, <2>3, <2>5, <2>8, <2>9, ScriptMoveOutSelf
  <2> HIDE DEF q
  <2> QED BY <1>12, <1>20, <2>1, <2>10 DEF Write, Creating
<1>21. CASE /\ Proceed(t)
            /\ ~(what = "list" /\ k = "destroy" /\ ptr[o] = Null)
            /\ ~(what = "other" /\ wr_obj[x] = Null)
            /\ ~(what = "self" /\ k = "lock")
            /\ ~(what = "self" /\ k \in {"clear", "fini"} /\ wr_obj[s] = Null)
  <2>1. k # "lock"
    BY <1>6, <1>21
  <2>2. Bound(t)
    <3>1. CASE n > 1
      BY <1>4, <3>1
    <3>2. CASE n = 1
      BY <1>6, <1>21, <3>2 DEF Bound
    <3> QED BY <1>4, <3>1, <3>2
  <2> QED BY <1>14, <1>21, <2>1, <2>2
<1>22. \/ what = "list" /\ k = "destroy" /\ ptr[o] = Null
       \/ what = "other" /\ wr_obj[x] = Null
       \/ what = "self" /\ k = "lock"
       \/ what = "self" /\ k \in {"clear", "fini"} /\ wr_obj[s] = Null
       \/ what = "self" /\ k \in {"set", "copyassign"} /\ BackOff(t, "return")
       \/ what = "self" /\ k = "moveassign" /\ wr_obj[s] = wr_obj[x]
       \/ /\ Proceed(t)
          /\ ~(what = "list" /\ k = "destroy" /\ ptr[o] = Null)
          /\ ~(what = "other" /\ wr_obj[x] = Null)
          /\ ~(what = "self" /\ k = "lock")
          /\ ~(what = "self" /\ k \in {"clear", "fini"} /\ wr_obj[s] = Null)
  BY DEF Got
<1> HIDE DEF what, k, s, x, o, n
<1> QED BY <1>15, <1>16, <1>17, <1>18, <1>19, <1>20, <1>21, <1>22

\* A lock is taken: the thread backs off, or Dee_weakref_moveassign leaves self as it is.
LEMMA RefusedLocks ==
    ASSUME LockInv, CallInv', NEW t \in Threads, pc[t] = "acquire", UNCHANGED <<fields, life, object>>,
           stage[t] > 1, Refused(t, Plan[op[t].kind][stage[t]]), UNCHANGED <<owner, held>>
    PROVE  LockInv'
<1> DEFINE k == op[t].kind
           s == op[t].self
           x == op[t].other
           n == stage[t]
           what == Plan[k][n]
           h == held[t]
<1>0. /\ CallInv /\ ThreadInv /\ FieldInv /\ HiddenInv /\ UseOK(t) /\ PlanOK(t) /\ HeldOK(t)
      /\ n \in Nat /\ k \in Kinds \cup {"destroy"} /\ op[t] \in CallTypes /\ h \in Seq(Locs)
      /\ held' \in [Threads -> Seq(Locs)]
  BY DEF LockInv, ThreadInv, CallInv, CallTypes
<1>1. /\ n \in 1 .. Len(Plan[k]) /\ Ranked(h) = Locks(t, n - 1) /\ Distinct(t, n - 1) /\ Bound(t)
  BY <1>0 DEF PlanOK
<1>2. /\ Injective(h) /\ \A l \in Locs : owner[l] = t <=> l \in Ranked(h)
      /\ k \in Creating => s \notin Ranked(h)
  BY <1>0 DEF HeldOK
<1>3. h # <<>>
  <2>1. 1 \in 1 .. Len(Plan[k]) /\ 1 \in 1 .. n - 1
    BY <1>0, <1>1, PlanLen
  <2>2. Lock(t, 1) # Null
    BY <1>0, <1>1, <2>1, LockSeen
  <2>3. Lock(t, 1) \in Locks(t, n - 1)
    BY <2>1, <2>2 DEF Locks
  <2> QED BY <1>0, <1>1, <2>3, HeldNone
<1>4. OwnerStep(t) /\ \A l \in Locs : owner[l] = Free /\ owner'[l] # Free => l \in Seen
  BY <1>0, OwnerSame
<1>5. Knows(Known(t))
  BY <1>0, FieldsSeen
<1>6. /\ stage \in [Threads -> Nat] /\ after = [u \in Threads |-> after[u]]
      /\ script = [u \in Threads |-> script[u]]
  BY <1>0 DEF ThreadInv
<1>7. held'[t] = h /\ owner' = owner
  OBVIOUS
<1>8. ASSUME NEW label, BackOff(t, label) PROVE LockInv'
  <2>1. pc'[t] = "release" /\ op'[t] = op[t] /\ stage' \in [Threads -> Nat]
    BY <1>0, <1>6, <1>8 DEF BackOff, Goto, CallInv
  <2>2. Others(t)
    BY <1>0, <1>6, <1>8 DEF Others, BackOff, Goto, CallInv
  <2>3. script' = [u \in Threads |-> script'[u]] /\ after' = [u \in Threads |-> after'[u]]
    BY <1>6, <1>8 DEF BackOff
  <2>4. ThreadOK(t)'
    BY <1>0, <1>2, <1>3, <1>7, <2>1, Holds
  <2> QED BY <1>0, <1>4, <2>1, <2>2, <2>3, <2>4, AcquireStep
<1>9. CASE what = "self" /\ k = "moveassign" /\ Write(t, MoveOut(t), "return")
  <2> DEFINE q == MoveOut(t)
  <2>1. /\ n = 4 /\ Plan[k][1] = "other" /\ Plan[k][2] = "oprev" /\ Plan[k][3] = "onext"
    BY <1>0, <1>1, <1>9, PlanIs, PlanSteps
  <2>2. /\ x \in Refs /\ x # Null /\ wr_obj[x] # Null /\ wr_pself[x] # Null
    BY <1>0, <1>1, <1>9, DistinctAssumption DEF UseOK, CallOK, Binary, Bound, FieldInv
  <2>3. Lock(t, 1) = x /\ Lock(t, 2) = wr_pself[x] /\ Lock(t, 3) = ptr[x]
    BY <2>1, WhereIs DEF Lock
  <2>4. Ranked(h) = {x} \cup Around(x)
    <3>1. n - 1 = 3
      BY <2>1
    <3> QED BY <1>1, <2>2, <2>3, <3>1, LocksIs DEF Around
  <2>5. \A i, j \in 1 .. 3 : i < j /\ Lock(t, i) = Lock(t, j) => Lock(t, i) = Null
    BY <1>1, <2>1 DEF Distinct
  <2>6. 1 \in 1 .. 3 /\ 2 \in 1 .. 3 /\ 3 \in 1 .. 3 /\ 1 < 2 /\ 1 < 3 /\ 2 < 3
    OBVIOUS
  <2>7. ptr[x] # wr_pself[x] /\ wr_pself[x] # x /\ ptr[x] # x
    BY <2>2, <2>3, <2>5, <2>6
  <2>8. x \notin Around(x)
    BY <2>7 DEF Around
  <2>9. Closes(q, Ranked(h), {}, Known(t))
    BY <1>0, <1>5, <2>2, <2>4, <2>7, <2>8, ScriptMoveOut
  <2> HIDE DEF q
  <2>10. Goto(t, "commit") /\ script' = [script EXCEPT ![t] = q] /\ UNCHANGED <<stage, op>>
         /\ after' = [after EXCEPT ![t] = "return"]
    BY <1>9 DEF Write, q
  <2>11. /\ pc'[t] = "commit" /\ script'[t] = q /\ after'[t] = "return" /\ op'[t] = op[t]
         /\ stage' \in [Threads -> Nat] /\ k \notin Creating
    BY <1>0, <1>6, <1>9, <2>10 DEF Goto, CallInv, Creating
  <2>12. Others(t)
    BY <1>0, <1>6, <2>10 DEF Others, Goto, CallInv
  <2>13. script' = [u \in Threads |-> script'[u]] /\ after' = [u \in Threads |-> after'[u]]
    BY <1>6, <2>10
  <2>14. q # <<>>
    BY <2>4, <2>9, ClosesDone
  <2>15. Known(t) \subseteq Known(t)'
    BY <1>0, <2>11, <2>12, KnownKept
  <2>16. ThreadOK(t)'
    BY <1>2, <1>7, <2>9, <2>11, <2>14, <2>15, Stores
  <2> QED BY <1>0, <1>4, <2>11, <2>12, <2>13, <2>16, AcquireStep
<1>10. \/ \E label : BackOff(t, label)
       \/ what = "self" /\ k = "moveassign" /\ Write(t, MoveOut(t), "return")
  BY DEF Refused
<1> QED BY <1>8, <1>9, <1>10

\* The next lock of the plan.
LEMMA AcquireLocks == ASSUME LockInv, CallInv', NEW t \in Threads, Acquire(t) PROVE LockInv'
<1>1. Lock(t, stage[t]) = Where(t, Plan[op[t].kind][stage[t]])
  BY DEF Lock
<1>2. /\ pc[t] = "acquire" /\ UNCHANGED <<fields, life, object>>
      /\ \/ /\ owner[Lock(t, stage[t])] = Free
            /\ owner' = [owner EXCEPT ![Lock(t, stage[t])] = t]
            /\ held' = [held EXCEPT ![t] = Append(@, Lock(t, stage[t]))]
            /\ Got(t, Plan[op[t].kind][stage[t]])
         \/ /\ stage[t] > 1 /\ Refused(t, Plan[op[t].kind][stage[t]])
            /\ UNCHANGED <<owner, held>>
  BY <1>1 DEF Acquire
<1> QED BY <1>2, GotLocks, RefusedLocks

-----------------------------------------------------------------------------
(* The theorems about locks *)

\* At first nobody has seen any reference, and nobody is in a call.
LEMMA InitLocks == Init => LockInv
<1> SUFFICES ASSUME Init PROVE LockInv
  OBVIOUS
<1>1. CallInv
  BY InitIInv DEF IInv
<1>2. FieldInv
  BY DEF Init, FieldInv
<1>3. ThreadInv
  <2>1. <<>> \in Seq(Locs)
    OBVIOUS
  <2> QED BY <2>1 DEF Init, ThreadInv
<1>4. HiddenInv
  BY DistinctAssumption DEF Init, HiddenInv, Locs
<1>5. ASSUME NEW t \in Threads PROVE UseOK(t) /\ PlanOK(t) /\ CommitOK(t) /\ HeldOK(t)
  <2>1. pc[t] = "idle" /\ held[t] = <<>> /\ stage[t] = 1 /\ \A l \in Locs : owner[l] # t
    BY DistinctAssumption DEF Init
  <2>2. Injective(held[t]) /\ Ranked(held[t]) = {}
    BY <2>1 DEF Injective, Ranked
  <2> QED BY <2>1, <2>2 DEF UseOK, PlanOK, CommitOK, HeldOK
<1> QED BY <1>1, <1>2, <1>3, <1>4, <1>5 DEF LockInv

\* Nothing happens.
LEMMA StutterLocks == ASSUME LockInv, UNCHANGED vars PROVE LockInv'
<1>1. /\ \A t, what : Where(t, what)' = Where(t, what)
      /\ \A t : Starting(t)' <=> Starting(t)
  BY DEF vars, Where, Starting
<1>2. \A t, i : Lock(t, i)' = Lock(t, i)
  BY <1>1 DEF Lock, vars
<1>3. \A r : Hidden(r)' => Hidden(r)
  BY <1>1 DEF Hidden, vars
<1>4. CallInv' /\ FieldInv' /\ ThreadInv'
  BY DEF LockInv, vars, CallInv, FieldInv, ThreadInv
<1>5. HiddenInv'
  BY <1>3 DEF LockInv, HiddenInv, vars
<1>6. ASSUME NEW t \in Threads PROVE UseOK(t)' /\ PlanOK(t)' /\ CommitOK(t)' /\ HeldOK(t)'
  <2>0. UseOK(t) /\ PlanOK(t) /\ CommitOK(t) /\ HeldOK(t) /\ CallInv /\ ThreadInv
    BY DEF LockInv
  <2>1. UseOK(t)'
    BY <2>0 DEF UseOK, CallOK, Creates, vars
  <2>2. op[t].kind \in Kinds \cup {"destroy"} /\ held[t] \in Seq(Locs) /\ stage[t] \in Nat
    BY <2>0 DEF CallInv, CallTypes, ThreadInv
  <2>3. \A l \in Ranked(held[t]) : Kept(l)
    BY DEF Kept, vars
  <2>4. PlanOK(t)'
    BY <2>0, <2>2, <2>3, PlanKept DEF vars
  <2>5. CommitOK(t)'
    BY <1>3, <2>0, CommitKept DEF vars
  <2>6. HeldOK(t)'
    BY <2>0, HeldKept DEF vars
  <2> QED BY <2>1, <2>4, <2>5, <2>6
<1> QED BY <1>4, <1>5, <1>6 DEF LockInv

\* Every step of a thread keeps the locks in order.
LEMMA NextLocks == LockInv /\ IInv /\ [Next]_vars => LockInv'
<1> SUFFICES ASSUME LockInv, IInv, [Next]_vars PROVE LockInv'
  OBVIOUS
<1>0. CallInv'
  BY NextIInv DEF IInv
<1>1. CASE UNCHANGED vars
  BY <1>1, StutterLocks
<1>2. ASSUME NEW t \in Threads,
             \E k \in Ops, s \in Refs :
                \E x \in IF k \in Binary THEN Refs \ {s} ELSE {Null},
                   o \in IF k \in Binding THEN Objs ELSE {Null} : Call(t, k, s, x, o)
      PROVE  LockInv'
  BY <1>0, <1>2, CallLocks
<1>3. ASSUME NEW t \in Threads, \E h \in {t, Root}, o \in Objs : Decref(t, h, o) PROVE LockInv'
  BY <1>0, <1>3, DecrefLocks
<1>4. ASSUME NEW t \in Threads, Step(t) PROVE LockInv'
  BY <1>0, <1>4, CheckLocks, AcquireLocks, WaitforLocks, ReleaseLocks, UseLocks, CommitLocks DEF Step
<1> QED BY <1>1, <1>2, <1>3, <1>4 DEF Next

\* The invariant holds.
THEOREM LockInvariance == Spec => [](IInv /\ LockInv)
<1> QED BY InitIInv, NextIInv, InitLocks, NextLocks, PTL DEF Spec

\* Locks are exact, through every way in and out of a function: bit 0 of a pointer is set
\* exactly while the thread that set it counts on it, and whoever returns has given back
\* all of them.
THEOREM LockSafety == Spec => []LocksExact
<1>1. LockInv => LocksExact
  BY DEF LockInv, HeldOK, LocksExact
<1> QED BY <1>1, LockInvariance, PTL

\* Whoever has a lock is inside a function and does not spin: ptrlock_lock and
\* ptrlock_waitfor are only called with no lock in hand, for the others there is
\* ptrlock_trylock.
THEOREM SpinSafety == Spec => []SpinsForRunner
<1>1. LockInv => SpinsForRunner
  <2> SUFFICES ASSUME LockInv, NEW l \in Locs, owner[l] # Free
               PROVE  pc[owner[l]] # "idle" /\ \A m \in Locs : ~Spins(owner[l], m)
    BY DEF SpinsForRunner
  <2>1. PICK u : u = owner[l]
    OBVIOUS
  <2>2. u \in Threads /\ PlanOK(u) /\ HeldOK(u) /\ held[u] \in Seq(Locs)
    BY <2>1 DEF LockInv, FieldInv, ThreadInv
  <2>3. l \in Ranked(held[u])
    BY <2>1, <2>2 DEF HeldOK
  <2>4. held[u] # <<>>
    BY <2>2, <2>3, HeldNone
  <2>5. pc[u] \notin {"idle", "wait"}
    BY <2>2, <2>4 DEF HeldOK
  <2>6. ~(pc[u] = "acquire" /\ stage[u] = 1)
    <3> SUFFICES ASSUME pc[u] = "acquire", stage[u] = 1 PROVE FALSE
      OBVIOUS
    <3>1. Ranked(held[u]) = Locks(u, 0)
      BY <2>2 DEF PlanOK
    <3>2. Locks(u, 0) = {}
      BY DEF Locks
    <3> QED BY <2>3, <3>1, <3>2
  <2> QED BY <2>1, <2>5, <2>6 DEF Spins
<1> QED BY <1>1, LockInvariance, PTL

\* Every variable has its type, whatever the scripts store.
THEOREM TypeCorrect == Spec => []TypeOK
<1>1. LockInv => TypeOK
  BY DEF LockInv, CallInv, CallTypes, FieldInv, ThreadInv, TypeOK, Places
<1> QED BY <1>1, LockInvariance, PTL

-----------------------------------------------------------------------------
(* The lists *)

\* The object that a location belongs to.
Of(O, l) == IF l \in Objs THEN l ELSE O[l]

\* A set of references that has what o points to, and what its members point to.
Closed(P, o, S) == \A l \in S \cup {o} : P[l] \in S \cup {Null}

\* The pointers P, B (back) and the objects O make up lists: the two directions of a link
\* agree, a bound reference is in the list of its object, and an unbound one in none.
Lists(P, B, O) ==
    /\ P \in [Locs -> Refs \cup {Null}]
    /\ B \in [Refs -> Locs \cup {Null}]
    /\ O \in [Refs -> Objs \cup {Null}]
    /\ \A l \in Locs : P[l] # Null => B[P[l]] = l /\ O[P[l]] = Of(O, l)
    /\ \A r \in Refs : IF O[r] = Null THEN B[r] = Null ELSE B[r] # Null /\ P[B[r]] = r
    /\ \A r \in Refs : O[r] # Null => \A S \in SUBSET Refs : Closed(P, O[r], S) => r \in S

\* The lists without s.
CutPtr(P, B, s) == [l \in Locs |-> IF l = s THEN Null ELSE IF l = B[s] THEN P[s] ELSE P[l]]
CutBack(P, B, s) == [r \in Refs |-> IF r = s THEN Null ELSE IF r = P[s] THEN B[s] ELSE B[r]]
CutObj(O, s) == [r \in Refs |-> IF r = s THEN Null ELSE O[r]]

\* The lists with s behind l.
PutPtr(P, s, l) == [m \in Locs |-> IF m = l THEN s ELSE IF m = s THEN P[l] ELSE P[m]]
PutBack(P, B, s, l) == [r \in Refs |-> IF r = s THEN l ELSE IF r = P[l] THEN s ELSE B[r]]
PutObj(O, s, l) == [r \in Refs |-> IF r = s THEN Of(O, l) ELSE O[r]]

\* Null is nowhere, and no location is a reference and an object.
LEMMA NullApart == Null \notin Locs /\ Null \notin Refs /\ Null \notin Objs /\ Refs \subseteq Locs /\ Objs \subseteq Locs
                   /\ \A r \in Refs : r \notin Objs
BY DistinctAssumption DEF Locs

\* What is unbound is in no list.
LEMMA UnboundOut ==
    ASSUME NEW P, NEW B, NEW O, Lists(P, B, O), NEW s \in Refs, O[s] = Null
    PROVE  B[s] = Null /\ P[s] = Null /\ \A l \in Locs : P[l] # s
<1>1. B[s] = Null /\ P[s] \in Refs \cup {Null}
  BY NullApart DEF Lists
<1>2. \A l \in Locs : P[l] # s
  BY <1>1, NullApart DEF Lists
<1>3. P[s] = Null
  <2> SUFFICES ASSUME P[s] # Null PROVE FALSE
    OBVIOUS
  <2>1. P[s] \in Refs /\ B[P[s]] = s /\ O[P[s]] = O[s]
    BY <1>1, NullApart DEF Lists, Of
  <2> QED BY <2>1, NullApart DEF Lists
<1> QED BY <1>1, <1>2, <1>3

\* What is bound is between two others.
LEMMA BoundIn ==
    ASSUME NEW P, NEW B, NEW O, Lists(P, B, O), NEW s \in Refs, O[s] # Null
    PROVE  /\ O[s] \in Objs /\ B[s] \in Locs /\ P[B[s]] = s /\ O[s] = Of(O, B[s])
           /\ P[s] # Null => P[s] \in Refs /\ B[P[s]] = s /\ O[P[s]] = O[s]
<1>1. O[s] \in Objs /\ B[s] \in Locs /\ P[B[s]] = s
  BY DEF Lists
<1>2. O[s] = Of(O, B[s])
  BY <1>1, NullApart DEF Lists
<1>3. P[s] # Null => P[s] \in Refs /\ B[P[s]] = s /\ O[P[s]] = O[s]
  BY NullApart DEF Lists, Of
<1> QED BY <1>1, <1>2, <1>3

\* No reference is its own neighbour: it would be in no list.
LEMMA NoRing ==
    ASSUME NEW P, NEW B, NEW O, Lists(P, B, O), NEW s \in Refs, O[s] # Null
    PROVE  P[s] # s /\ B[s] # s
<1>0. O[s] \in Objs /\ P[B[s]] = s /\ \A l \in Locs : P[l] = s => l = B[s]
  BY BoundIn, NullApart DEF Lists
<1>1. B[s] # s
  <2> SUFFICES ASSUME B[s] = s PROVE FALSE
    OBVIOUS
  <2> DEFINE S == Refs \ {s}
  <2>1. Closed(P, O[s], S)
    <3> SUFFICES ASSUME NEW l \in S \cup {O[s]} PROVE P[l] \in S \cup {Null}
      BY DEF Closed
    <3>1. l \in Locs /\ l # s /\ P[l] \in Refs \cup {Null}
      BY <1>0, NullApart DEF Lists
    <3>2. P[l] # s
      BY <1>0, <3>1
    <3> QED BY <3>1, <3>2
  <2> QED BY <2>1 DEF Lists
<1> QED BY <1>0, <1>1, NullApart

\* Nothing changes when what is unbound is taken out.
LEMMA CutUnbound ==
    ASSUME NEW P, NEW B, NEW O, Lists(P, B, O), NEW s \in Refs, O[s] = Null
    PROVE  CutPtr(P, B, s) = P /\ CutBack(P, B, s) = B /\ CutObj(O, s) = O
<1>1. B[s] = Null /\ P[s] = Null
  BY UnboundOut
<1>2. P \in [Locs -> Refs \cup {Null}] /\ B \in [Refs -> Locs \cup {Null}] /\ O \in [Refs -> Objs \cup {Null}]
  BY DEF Lists
<1>3. CutPtr(P, B, s) = P
  BY <1>1, <1>2, NullApart DEF CutPtr
<1>4. CutBack(P, B, s) = B
  BY <1>1, <1>2, NullApart DEF CutBack
<1>5. CutObj(O, s) = O
  BY <1>2 DEF CutObj
<1> QED BY <1>3, <1>4, <1>5

\* Taking a reference out leaves lists, and it unbound.
LEMMA CutLists ==
    ASSUME NEW P, NEW B, NEW O, Lists(P, B, O), NEW s \in Refs
    PROVE  Lists(CutPtr(P, B, s), CutBack(P, B, s), CutObj(O, s)) /\ CutObj(O, s)[s] = Null
<1>0. CutObj(O, s)[s] = Null
  BY DEF CutObj
<1>1. CASE O[s] = Null
  BY <1>0, <1>1, CutUnbound
<1>2. CASE O[s] # Null
  <2>t. /\ P \in [Locs -> Refs \cup {Null}] /\ B \in [Refs -> Locs \cup {Null}]
        /\ O \in [Refs -> Objs \cup {Null}]
    BY DEF Lists
  <2>p. PICK p : p = B[s]
    OBVIOUS
  <2>q. PICK q : q = P[s]
    OBVIOUS
  <2>1. /\ O[s] \in Objs /\ p \in Locs /\ P[p] = s /\ O[s] = Of(O, p)
        /\ q # Null => q \in Refs /\ B[q] = s /\ O[q] = O[s]
        /\ q \in Refs \cup {Null}
    BY <1>2, <2>p, <2>q, <2>t, BoundIn, NullApart
  <2> DEFINE P2 == CutPtr(P, B, s)
             B2 == CutBack(P, B, s)
             O2 == CutObj(O, s)
  <2>2. /\ P2 \in [Locs -> Refs \cup {Null}] /\ B2 \in [Refs -> Locs \cup {Null}]
        /\ O2 \in [Refs -> Objs \cup {Null}]
        /\ \A l \in Locs : P2[l] = IF l = s THEN Null ELSE IF l = p THEN q ELSE P[l]
        /\ \A r \in Refs : B2[r] = IF r = s THEN Null ELSE IF r = q THEN p ELSE B[r]
        /\ \A r \in Refs : O2[r] = IF r = s THEN Null ELSE O[r]
    BY <2>t, <2>p, <2>q, <2>1 DEF CutPtr, CutBack, CutObj
  <2>a. /\ \A l \in Locs : P[l] # Null => P[l] \in Refs /\ B[P[l]] = l /\ O[P[l]] = Of(O, l)
        /\ \A r \in Refs : IF O[r] = Null THEN B[r] = Null ELSE B[r] \in Locs /\ P[B[r]] = r
    BY <2>t DEF Lists
  <2> HIDE DEF P2, B2, O2
  <2>3. \A l \in Locs : l # s => Of(O2, l) = Of(O, l)
    BY <2>2, NullApart DEF Of, Locs
  <2>4. \A l \in Locs : P[l] = s => l = p
    BY <2>a, <2>p, NullApart
  <2>5. q # s
    BY <1>2, <2>q, NoRing
  <2>6. p # s
    BY <1>2, <2>p, NoRing
  <2>7. \A l \in Locs : P[l] = q /\ q # Null => l = s
    BY <2>a, <2>1
  <2>8. \A l \in Locs : P2[l] # Null => B2[P2[l]] = l /\ O2[P2[l]] = Of(O2, l)
    <3> SUFFICES ASSUME NEW l \in Locs, P2[l] # Null PROVE B2[P2[l]] = l /\ O2[P2[l]] = Of(O2, l)
      OBVIOUS
    <3>1. l # s
      BY <2>2
    <3>2. CASE l = p
      <4>1. P2[l] = q /\ q \in Refs /\ q # s
        BY <2>1, <2>2, <2>5, <3>1, <3>2
      <4> QED BY <2>1, <2>2, <2>3, <3>1, <3>2, <4>1
    <3>3. CASE l # p
      <4>1. P2[l] = P[l] /\ P[l] \in Refs /\ B[P[l]] = l /\ O[P[l]] = Of(O, l) /\ P[l] # s /\ P[l] # q
        BY <2>2, <2>a, <2>4, <2>7, <3>1, <3>3
      <4> QED BY <2>2, <2>3, <3>1, <4>1
    <3> QED BY <3>2, <3>3
  <2>9. \A r \in Refs : IF O2[r] = Null THEN B2[r] = Null ELSE B2[r] # Null /\ P2[B2[r]] = r
    <3> SUFFICES ASSUME NEW r \in Refs, r # s
                 PROVE  IF O[r] = Null THEN B2[r] = Null ELSE B2[r] # Null /\ P2[B2[r]] = r
      BY <2>2
    <3>1. CASE r = q
      BY <1>2, <2>1, <2>2, <2>6, <3>1, NullApart
    <3>2. CASE r # q
      <4>1. B2[r] = B[r]
        BY <2>2, <3>2
      <4>2. B[r] # Null => B[r] # s /\ B[r] # p
        <5>1. O[r] # Null => B[r] # s
          BY <2>a, <2>q, <3>2
        <5>2. O[r] # Null => B[r] # p
          BY <2>a, <2>1
        <5> QED BY <2>a, <5>1, <5>2
      <4> QED BY <2>2, <2>a, <4>1, <4>2, NullApart
    <3> QED BY <3>1, <3>2
  <2>10. ASSUME NEW r \in Refs, O2[r] # Null, NEW S \in SUBSET Refs, Closed(P2, O2[r], S) PROVE r \in S
    <3> DEFINE o == O[r]
               T == (S \ {s}) \cup {v \in {s} : p \in S \cup {o}}
    <3>1. r # s /\ O2[r] = o /\ o \in Objs /\ o # s
      BY <2>2, <2>t, <2>10, NullApart
    <3>2. Closed(P, o, T)
      <4> SUFFICES ASSUME NEW l \in T \cup {o} PROVE P[l] \in T \cup {Null}
        BY DEF Closed
      <4>0. l \in Locs
        BY <3>1, NullApart
      <4>1. CASE l = s
        <5>1. p \in S \cup {o} /\ P2[p] = q
          BY <2>1, <2>2, <2>6, <3>1, <4>1
        <5>2. q \in S \cup {Null}
          BY <2>10, <3>1, <5>1 DEF Closed
        <5> QED BY <2>5, <2>q, <4>1, <5>2
      <4>2. CASE l = p /\ l # s
        BY <2>1, <2>6, <4>2
      <4>3. CASE l # s /\ l # p
        <5>1. P2[l] = P[l] /\ P[l] # s
          BY <2>2, <2>4, <4>0, <4>3
        <5>2. l \in S \cup {o}
          BY <4>3
        <5> QED BY <2>10, <3>1, <5>1, <5>2 DEF Closed
      <4> QED BY <4>1, <4>2, <4>3
    <3>3. r \in T
      <4>1. T \in SUBSET Refs /\ O[r] # Null
        BY <3>1, NullApart
      <4> QED BY <3>2, <4>1 DEF Lists
    <3> QED BY <3>1, <3>3
  <2> QED BY <1>0, <2>2, <2>8, <2>9, <2>10 DEF Lists, P2, B2, O2
<1> QED BY <1>1, <1>2

\* Putting an unbound reference in leaves lists.
LEMMA PutLists ==
    ASSUME NEW P, NEW B, NEW O, Lists(P, B, O), NEW s \in Refs, O[s] = Null,
           NEW l \in Locs, Of(O, l) # Null
    PROVE  Lists(PutPtr(P, s, l), PutBack(P, B, s, l), PutObj(O, s, l))
<1>t. /\ P \in [Locs -> Refs \cup {Null}] /\ B \in [Refs -> Locs \cup {Null}]
      /\ O \in [Refs -> Objs \cup {Null}]
  BY DEF Lists
<1>q. PICK q : q = P[l]
  OBVIOUS
<1>o. PICK o : o = Of(O, l)
  OBVIOUS
<1>1. /\ B[s] = Null /\ P[s] = Null /\ \A m \in Locs : P[m] # s
  BY UnboundOut
<1>2. /\ o \in Objs /\ l # s /\ o # Null
      /\ q # Null => q \in Refs /\ B[q] = l /\ O[q] = o
      /\ q \in Refs \cup {Null} /\ q # s /\ O[s] = Null
  BY <1>t, <1>q, <1>o, <1>1, NullApart DEF Lists, Of, Locs
<1> DEFINE P2 == PutPtr(P, s, l)
           B2 == PutBack(P, B, s, l)
           O2 == PutObj(O, s, l)
<1>3. /\ P2 \in [Locs -> Refs \cup {Null}] /\ B2 \in [Refs -> Locs \cup {Null}]
      /\ O2 \in [Refs -> Objs \cup {Null}]
      /\ \A m \in Locs : P2[m] = IF m = l THEN s ELSE IF m = s THEN q ELSE P[m]
      /\ \A r \in Refs : B2[r] = IF r = s THEN l ELSE IF r = q THEN s ELSE B[r]
      /\ \A r \in Refs : O2[r] = IF r = s THEN o ELSE O[r]
  BY <1>t, <1>q, <1>o, <1>2, NullApart DEF PutPtr, PutBack, PutObj
<1>a. /\ \A m \in Locs : P[m] # Null => P[m] \in Refs /\ B[P[m]] = m /\ O[P[m]] = Of(O, m)
      /\ \A r \in Refs : IF O[r] = Null THEN B[r] = Null ELSE B[r] \in Locs /\ P[B[r]] = r
  BY <1>t DEF Lists
<1> HIDE DEF P2, B2, O2
<1>4. /\ \A m \in Locs : m # s => Of(O2, m) = Of(O, m)
      /\ Of(O2, s) = o
  BY <1>3, NullApart DEF Of, Locs
<1>5. \A m \in Locs : P2[m] # Null => B2[P2[m]] = m /\ O2[P2[m]] = Of(O2, m)
  <2> SUFFICES ASSUME NEW m \in Locs, P2[m] # Null PROVE B2[P2[m]] = m /\ O2[P2[m]] = Of(O2, m)
    OBVIOUS
  <2>1. CASE m = l
    BY <1>2, <1>3, <1>4, <1>o, <2>1
  <2>2. CASE m = s
    BY <1>2, <1>3, <1>4, <2>2
  <2>3. CASE m # l /\ m # s
    <3>1. P2[m] = P[m] /\ P[m] \in Refs /\ B[P[m]] = m /\ O[P[m]] = Of(O, m) /\ P[m] # s
      BY <1>1, <1>3, <1>a, <2>3
    <3>2. P[m] # q
      BY <1>2, <1>a, <2>3, <3>1
    <3> QED BY <1>3, <1>4, <2>3, <3>1, <3>2
  <2> QED BY <2>1, <2>2, <2>3
<1>6. \A r \in Refs : IF O2[r] = Null THEN B2[r] = Null ELSE B2[r] # Null /\ P2[B2[r]] = r
  <2> SUFFICES ASSUME NEW r \in Refs
               PROVE  IF O2[r] = Null THEN B2[r] = Null ELSE B2[r] # Null /\ P2[B2[r]] = r
    OBVIOUS
  <2>1. CASE r = s
    BY <1>2, <1>3, <2>1, NullApart
  <2>2. CASE r = q /\ r # s
    BY <1>2, <1>3, <2>2, NullApart
  <2>3. CASE r # q /\ r # s
    <3>1. B2[r] = B[r] /\ O2[r] = O[r]
      BY <1>3, <2>3
    <3>2. O[r] # Null => B[r] \in Locs /\ P[B[r]] = r /\ B[r] # l /\ B[r] # s
      BY <1>1, <1>a, <1>q, <2>3, NullApart
    <3> QED BY <1>3, <1>a, <3>1, <3>2, NullApart
  <2> QED BY <2>1, <2>2, <2>3
<1>7. ASSUME NEW r \in Refs, O2[r] # Null, NEW S \in SUBSET Refs, Closed(P2, O2[r], S) PROVE r \in S
  <2> DEFINE b == O2[r]
  <2>1. b \in Objs /\ b # s
    BY <1>3, <1>7, NullApart
  <2>2. Closed(P, b, S)
    <3> SUFFICES ASSUME NEW m \in S \cup {b} PROVE P[m] \in S \cup {Null}
      BY DEF Closed
    <3>1. m \in Locs /\ P2[m] \in S \cup {Null}
      BY <1>7, <2>1, NullApart DEF Closed
    <3>2. CASE m = l
      <4>1. s \in S /\ P2[s] = q
        BY <1>2, <1>3, <3>1, <3>2, NullApart
      <4>2. q \in S \cup {Null}
        BY <1>7, <4>1 DEF Closed
      <4> QED BY <1>q, <3>2, <4>2
    <3>3. CASE m = s
      BY <1>1, <3>3
    <3>4. CASE m # l /\ m # s
      BY <1>3, <3>1, <3>4
    <3> QED BY <3>2, <3>3, <3>4
  <2>3. \A v \in Refs : O[v] = b => v \in S
    BY <2>1, <2>2, NullApart DEF Lists
  <2>4. CASE r # s
    BY <1>3, <2>3, <2>4
  <2>5. CASE r = s
    <3>1. b = o /\ l \in S \cup {b}
      <4>1. b = o
        BY <1>3, <2>5
      <4>2. CASE l \in Objs
        BY <1>o, <4>1, <4>2 DEF Of
      <4>3. CASE l \notin Objs
        <5>1. l \in Refs /\ O[l] = b
          BY <1>o, <4>1, <4>3 DEF Of, Locs
        <5> QED BY <2>3, <4>1, <5>1
      <4> QED BY <4>1, <4>2, <4>3
    <3>2. P2[l] = s
      BY <1>3
    <3> QED BY <1>7, <2>5, <3>1, <3>2, NullApart DEF Closed
  <2> QED BY <2>4, <2>5
<1> QED BY <1>3, <1>5, <1>6, <1>7 DEF Lists, P2, B2, O2

\* An object whose list is empty has no reference bound to it.
LEMMA EmptyList ==
    ASSUME NEW P, NEW B, NEW O, Lists(P, B, O), NEW o \in Objs, P[o] = Null
    PROVE  \A r \in Refs : O[r] # o
<1>1. Closed(P, o, {})
  BY DEF Closed
<1> QED BY <1>1, NullApart DEF Lists

-----------------------------------------------------------------------------
(* The lists that a sequence of stores makes *)

\* The stores of q to the fields f leave F there.
Sets(q, f, F) == \A i \in 1 .. Len(q) : \A l \in DOMAIN q[i][f] : F[l] = q[i][f][l]

\* What q stores to.
Stored(q, f) == UNION {DOMAIN q[i][f] : i \in 1 .. Len(q)}

\* The stores of q make P, B and O of lists that differ from them at most in X, Y and Z.
Effect(q, P, B, O, X, Y, Z) ==
    /\ q \in Seq(Ranked(q))
    /\ Sets(q, "ptr", P) /\ Sets(q, "pself", B) /\ Sets(q, "obj", O)
    /\ Stored(q, "ptr") = X /\ Stored(q, "pself") = Y /\ Stored(q, "obj") = Z

\* Stores one after the other.
LEMMA StoredConcat ==
    ASSUME NEW p, NEW q, NEW f, NEW F, p \in Seq(Ranked(p)), q \in Seq(Ranked(q)),
           Sets(p, f, F), Sets(q, f, F)
    PROVE  /\ p \o q \in Seq(Ranked(p \o q)) /\ Sets(p \o q, f, F)
           /\ \A l : l \in Stored(p \o q, f) <=> l \in Stored(p, f) \/ l \in Stored(q, f)
<1> DEFINE W == Ranked(p) \cup Ranked(q)
           n == Len(p)
           m == Len(q)
           r == p \o q
<1>1. p \in Seq(W) /\ q \in Seq(W)
  BY SeqMonotonic
<1>2. /\ r \in Seq(W) /\ n \in Nat /\ m \in Nat /\ Len(r) = n + m
      /\ \A i \in 1 .. n : r[i] = p[i]
      /\ \A i \in 1 .. m : r[n + i] = q[i]
  BY <1>1, ConcatProperties
<1>3. r \in Seq(Ranked(r))
  BY <1>2, RankedSeq
<1> HIDE DEF W, r
<1>4. \A i \in 1 .. n + m : i \in 1 .. n \/ \E k \in 1 .. m : i = n + k
  <2> SUFFICES ASSUME NEW i \in 1 .. n + m, i \notin 1 .. n PROVE \E k \in 1 .. m : i = n + k
    OBVIOUS
  <2>1. i - n \in 1 .. m /\ i = n + (i - n)
    BY <1>2
  <2> QED BY <2>1
<1>5. /\ \A i \in 1 .. n : i \in 1 .. n + m
      /\ \A i \in 1 .. m : n + i \in 1 .. n + m
  BY <1>2
<1> HIDE DEF n, m
<1>6. \A i \in 1 .. n + m : (\E k \in 1 .. n : r[i] = p[k]) \/ (\E k \in 1 .. m : r[i] = q[k])
  BY <1>2, <1>4
<1>7. Sets(r, f, F)
  <2>1. \A k \in 1 .. n : \A l \in DOMAIN p[k][f] : F[l] = p[k][f][l]
    BY DEF Sets, n
  <2>2. \A k \in 1 .. m : \A l \in DOMAIN q[k][f] : F[l] = q[k][f][l]
    BY DEF Sets, m
  <2> SUFFICES ASSUME NEW i \in 1 .. n + m, NEW l \in DOMAIN r[i][f] PROVE F[l] = r[i][f][l]
    BY <1>2 DEF Sets
  <2> QED BY <1>6, <2>1, <2>2
<1>8. \A l : l \in Stored(r, f) <=> l \in Stored(p, f) \/ l \in Stored(q, f)
  <2>1. \A l : l \in Stored(r, f) <=> \E i \in 1 .. n + m : l \in DOMAIN r[i][f]
    BY <1>2 DEF Stored
  <2>2. \A l : l \in Stored(p, f) <=> \E i \in 1 .. n : l \in DOMAIN p[i][f]
    BY DEF Stored, n
  <2>3. \A l : l \in Stored(q, f) <=> \E i \in 1 .. m : l \in DOMAIN q[i][f]
    BY DEF Stored, m
  <2>4. \A i \in 1 .. n : \E k \in 1 .. n + m : r[k] = p[i]
    BY <1>2, <1>5
  <2>5. \A i \in 1 .. m : \E k \in 1 .. n + m : r[k] = q[i]
    BY <1>2, <1>5
  <2>6. ASSUME NEW l \in Stored(r, f) PROVE l \in Stored(p, f) \/ l \in Stored(q, f)
    <3>1. PICK i \in 1 .. n + m : l \in DOMAIN r[i][f]
      BY <2>1
    <3> QED BY <1>6, <2>2, <2>3, <3>1
  <2>7. ASSUME NEW l \in Stored(p, f) PROVE l \in Stored(r, f)
    <3>1. PICK i \in 1 .. n : l \in DOMAIN p[i][f]
      BY <2>2
    <3> QED BY <2>1, <2>4, <3>1
  <2>8. ASSUME NEW l \in Stored(q, f) PROVE l \in Stored(r, f)
    <3>1. PICK i \in 1 .. m : l \in DOMAIN q[i][f]
      BY <2>3
    <3> QED BY <2>1, <2>5, <3>1
  <2> QED BY <2>6, <2>7, <2>8
<1> QED BY <1>3, <1>7, <1>8 DEF r

\* The same for all fields.
LEMMA EffectThen ==
    ASSUME NEW p, NEW q, NEW P, NEW B, NEW O, NEW X, NEW Y, NEW Z, NEW XX, NEW YY, NEW ZZ,
           Effect(p, P, B, O, X, Y, Z), Effect(q, P, B, O, XX, YY, ZZ)
    PROVE  Effect(p \o q, P, B, O, X \cup XX, Y \cup YY, Z \cup ZZ)
<1>1. p \in Seq(Ranked(p)) /\ q \in Seq(Ranked(q))
  BY DEF Effect
<1>2. /\ p \o q \in Seq(Ranked(p \o q)) /\ Sets(p \o q, "ptr", P)
      /\ Stored(p \o q, "ptr") = X \cup XX
  <2>1. Sets(p, "ptr", P) /\ Sets(q, "ptr", P) /\ Stored(p, "ptr") = X /\ Stored(q, "ptr") = XX
    BY DEF Effect
  <2>2. PICK f : f = "ptr"
    OBVIOUS
  <2>3. Sets(p, f, P) /\ Sets(q, f, P)
    BY <2>1, <2>2
  <2>4. /\ p \o q \in Seq(Ranked(p \o q)) /\ Sets(p \o q, f, P)
        /\ \A l : l \in Stored(p \o q, f) <=> l \in Stored(p, f) \/ l \in Stored(q, f)
    BY <1>1, <2>3, StoredConcat
  <2> QED BY <2>1, <2>2, <2>4
<1>3. /\ p \o q \in Seq(Ranked(p \o q)) /\ Sets(p \o q, "pself", B)
      /\ Stored(p \o q, "pself") = Y \cup YY
  <2>1. Sets(p, "pself", B) /\ Sets(q, "pself", B) /\ Stored(p, "pself") = Y /\ Stored(q, "pself") = YY
    BY DEF Effect
  <2>2. PICK f : f = "pself"
    OBVIOUS
  <2>3. Sets(p, f, B) /\ Sets(q, f, B)
    BY <2>1, <2>2
  <2>4. /\ p \o q \in Seq(Ranked(p \o q)) /\ Sets(p \o q, f, B)
        /\ \A l : l \in Stored(p \o q, f) <=> l \in Stored(p, f) \/ l \in Stored(q, f)
    BY <1>1, <2>3, StoredConcat
  <2> QED BY <2>1, <2>2, <2>4
<1>4. /\ p \o q \in Seq(Ranked(p \o q)) /\ Sets(p \o q, "obj", O)
      /\ Stored(p \o q, "obj") = Z \cup ZZ
  <2>1. Sets(p, "obj", O) /\ Sets(q, "obj", O) /\ Stored(p, "obj") = Z /\ Stored(q, "obj") = ZZ
    BY DEF Effect
  <2>2. PICK f : f = "obj"
    OBVIOUS
  <2>3. Sets(p, f, O) /\ Sets(q, f, O)
    BY <2>1, <2>2
  <2>4. /\ p \o q \in Seq(Ranked(p \o q)) /\ Sets(p \o q, f, O)
        /\ \A l : l \in Stored(p \o q, f) <=> l \in Stored(p, f) \/ l \in Stored(q, f)
    BY <1>1, <2>3, StoredConcat
  <2> QED BY <2>1, <2>2, <2>4
<1> QED BY <1>2, <1>3, <1>4 DEF Effect

\* No store.
LEMMA EffectNone == ASSUME NEW P, NEW B, NEW O PROVE Effect(<<>>, P, B, O, {}, {}, {})
BY DEF Effect, Sets, Stored, Ranked

\* One store.
LEMMA EffectOne ==
    ASSUME NEW u, NEW a, NEW b, NEW c, NEW P, NEW B, NEW O,
           \A l \in DOMAIN a : P[l] = a[l], \A r \in DOMAIN b : B[r] = b[r],
           \A r \in DOMAIN c : O[r] = c[r]
    PROVE  Effect(<<Store(u, a, b, c)>>, P, B, O, DOMAIN a, DOMAIN b, DOMAIN c)
<1>s. PICK s : s = Store(u, a, b, c)
  OBVIOUS
<1>1. s["ptr"] = a /\ s["pself"] = b /\ s["obj"] = c
  BY <1>s DEF Store
<1>2. <<s>> \in Seq({s}) /\ Len(<<s>>) = 1 /\ <<s>>[1] = s /\ 1 .. 1 = {1}
  OBVIOUS
<1>3. <<s>> \in Seq(Ranked(<<s>>))
  BY <1>2, RankedSeq
<1>4. PICK q : q = <<s>>
  OBVIOUS
<1>5. Len(q) = 1 /\ q[1] = s /\ q \in Seq(Ranked(q))
  BY <1>2, <1>3, <1>4
<1>6. Sets(q, "ptr", P) /\ Sets(q, "pself", B) /\ Sets(q, "obj", O)
  BY <1>1, <1>2, <1>5 DEF Sets
<1>7. Stored(q, "ptr") = DOMAIN a /\ Stored(q, "pself") = DOMAIN b /\ Stored(q, "obj") = DOMAIN c
  BY <1>1, <1>2, <1>5 DEF Stored
<1> QED BY <1>s, <1>4, <1>5, <1>6, <1>7 DEF Effect

\* A store to the pointer at l.
LEMMA EffectLink ==
    ASSUME NEW u, NEW l, NEW n, NEW P, NEW B, NEW O, P[l] = n
    PROVE  Effect(<<Store(u, l :> n, Same, Same)>>, P, B, O, {l}, {}, {})
<1>1. DOMAIN Same = {}
  BY DEF Same
<1>f. PICK f : f = l :> n /\ DOMAIN f = {l} /\ f[l] = n
  BY Points
<1>2. Effect(<<Store(u, f, Same, Same)>>, P, B, O, DOMAIN f, DOMAIN Same, DOMAIN Same)
  BY <1>1, <1>f, EffectOne
<1> QED BY <1>1, <1>2, <1>f

\* A store to the back pointer of r.
LEMMA EffectBack ==
    ASSUME NEW u, NEW r, NEW b, NEW P, NEW B, NEW O, B[r] = b
    PROVE  Effect(<<Store(u, Same, r :> b, Same)>>, P, B, O, {}, {r}, {})
<1>1. DOMAIN Same = {}
  BY DEF Same
<1>f. PICK f : f = r :> b /\ DOMAIN f = {r} /\ f[r] = b
  BY Points
<1>2. Effect(<<Store(u, Same, f, Same)>>, P, B, O, DOMAIN Same, DOMAIN f, DOMAIN Same)
  BY <1>1, <1>f, EffectOne
<1> QED BY <1>1, <1>2, <1>f

\* The same if there is such a reference.
LEMMA EffectBackIf ==
    ASSUME NEW r, NEW b, NEW P, NEW B, NEW O, r # Null => B[r] = b
    PROVE  Effect(StoreIf(r, Store(r, Same, r :> b, Same)), P, B, O, {}, {r} \ {Null}, {})
<1>1. CASE r = Null
  <2>1. {r} \ {Null} = {}
    BY <1>1
  <2> QED BY <1>1, <2>1, EffectNone DEF StoreIf
<1>2. CASE r # Null
  <2>1. {r} \ {Null} = {r}
    BY <1>2
  <2> QED BY <1>2, <2>1, EffectBack DEF StoreIf
<1> QED BY <1>1, <1>2

\* A store that only unlocks.
LEMMA EffectPlain ==
    ASSUME NEW u, NEW P, NEW B, NEW O
    PROVE  Effect(<<Store(u, Same, Same, Same)>>, P, B, O, {}, {}, {})
<1>1. DOMAIN Same = {}
  BY DEF Same
<1>2. Effect(<<Store(u, Same, Same, Same)>>, P, B, O, DOMAIN Same, DOMAIN Same, DOMAIN Same)
  BY <1>1, EffectOne
<1> QED BY <1>1, <1>2

\* A store that binds r, or unbinds it.
LEMMA EffectBind ==
    ASSUME NEW u, NEW r, NEW b, NEW o, NEW P, NEW B, NEW O, B[r] = b, O[r] = o
    PROVE  Effect(<<Store(u, Same, r :> b, r :> o)>>, P, B, O, {}, {r}, {r})
<1>1. DOMAIN Same = {}
  BY DEF Same
<1>f. PICK f : f = r :> b /\ DOMAIN f = {r} /\ f[r] = b
  BY Points
<1>g. PICK g : g = r :> o /\ DOMAIN g = {r} /\ g[r] = o
  BY Points
<1>2. Effect(<<Store(u, Same, f, g)>>, P, B, O, DOMAIN Same, DOMAIN f, DOMAIN g)
  BY <1>1, <1>f, <1>g, EffectOne
<1> QED BY <1>1, <1>2, <1>f, <1>g

\* A store to all fields of r.
LEMMA EffectAll ==
    ASSUME NEW u, NEW r, NEW n, NEW b, NEW o, NEW P, NEW B, NEW O, P[r] = n, B[r] = b, O[r] = o
    PROVE  Effect(<<Store(u, r :> n, r :> b, r :> o)>>, P, B, O, {r}, {r}, {r})
<1>f. PICK f : f = r :> b /\ DOMAIN f = {r} /\ f[r] = b
  BY Points
<1>g. PICK g : g = r :> o /\ DOMAIN g = {r} /\ g[r] = o
  BY Points
<1>h. PICK h : h = r :> n /\ DOMAIN h = {r} /\ h[r] = n
  BY Points
<1>2. Effect(<<Store(u, h, f, g)>>, P, B, O, DOMAIN h, DOMAIN f, DOMAIN g)
  BY <1>f, <1>g, <1>h, EffectOne
<1> QED BY <1>2, <1>f, <1>g, <1>h

\* The stores of q turn one set of pointers into another one.
Makes(q, P, B, O, PP, BB, OO) ==
    /\ q \in Seq(Ranked(q))
    /\ Sets(q, "ptr", PP) /\ Sets(q, "pself", BB) /\ Sets(q, "obj", OO)
    /\ \A l \in Locs : PP[l] = P[l] \/ l \in Stored(q, "ptr")
    /\ \A r \in Refs : BB[r] = B[r] \/ r \in Stored(q, "pself")
    /\ \A r \in Refs : OO[r] = O[r] \/ r \in Stored(q, "obj")

\* References are unbound, and at most what the call is about is bound: to the object it
\* names, or that of another reference.
ObjStep(t, O, OO) == \A r \in Refs :
    \/ OO[r] \in {O[r], Null}
    \/ /\ r = op[t].self
       /\ (\E v \in Refs : OO[r] = O[v]) \/ (op[t].kind \in Binding /\ OO[r] = op[t].ob)

\* The stores of q, in the call of t, turn lists into lists.
Leads(t, q, P, B, O) ==
    \E PP, BB, OO : Lists(PP, BB, OO) /\ Makes(q, P, B, O, PP, BB, OO) /\ ObjStep(t, O, OO)

\* The fields at l are those of the lists.
At(P, B, O, l) == P[l] = ptr[l] /\ (l \in Refs => B[l] = wr_pself[l] /\ O[l] = wr_obj[l])

\* From what is stored to what it makes.
LEMMA EffectMakes ==
    ASSUME NEW q, NEW P, NEW B, NEW O, NEW PP, NEW BB, NEW OO, NEW X, NEW Y, NEW Z,
           Effect(q, PP, BB, OO, X, Y, Z),
           \A l \in Locs : PP[l] = P[l] \/ l \in X,
           \A r \in Refs : BB[r] = B[r] \/ r \in Y,
           \A r \in Refs : OO[r] = O[r] \/ r \in Z
    PROVE  Makes(q, P, B, O, PP, BB, OO)
BY DEF Effect, Makes

\* The stores that take x out.
LEMMA EffectUnlink ==
    ASSUME NEW x, NEW P, NEW B, NEW O, P[wr_pself[x]] = ptr[x],
           ptr[x] # Null => B[ptr[x]] = wr_pself[x]
    PROVE  Effect(Unlink(x), P, B, O, {wr_pself[x]}, {ptr[x]} \ {Null}, {})
<1>p. PICK p : p = wr_pself[x]
  OBVIOUS
<1>n. PICK n : n = ptr[x]
  OBVIOUS
<1> DEFINE a == StoreIf(n, Store(n, Same, n :> p, Same))
           b == <<Store(p, p :> n, Same, Same)>>
<1>1. Unlink(x) = a \o b
  BY <1>p, <1>n DEF Unlink, UnlinkWith
<1>2. Effect(a, P, B, O, {}, {n} \ {Null}, {})
  BY <1>p, <1>n, EffectBackIf
<1>3. Effect(b, P, B, O, {p}, {}, {})
  BY <1>p, <1>n, EffectLink
<1> HIDE DEF a, b
<1>4. Effect(a \o b, P, B, O, {} \cup {p}, ({n} \ {Null}) \cup {}, {} \cup {})
  BY <1>2, <1>3, EffectThen
<1>5. {} \cup {p} = {p} /\ ({n} \ {Null}) \cup {} = {n} \ {Null} /\ {} \cup {} = {}
  OBVIOUS
<1> QED BY <1>p, <1>n, <1>1, <1>4, <1>5

\* The same if x is bound.
LEMMA EffectUnlinkIfBound ==
    ASSUME NEW x, NEW P, NEW B, NEW O,
           wr_obj[x] # Null => P[wr_pself[x]] = ptr[x] /\ (ptr[x] # Null => B[ptr[x]] = wr_pself[x])
    PROVE  Effect(UnlinkIfBound(x), P, B, O, {p \in {wr_pself[x]} : wr_obj[x] # Null},
                  {n \in {ptr[x]} : n # Null /\ wr_obj[x] # Null}, {})
<1>1. CASE wr_obj[x] = Null
  <2>1. {p \in {wr_pself[x]} : wr_obj[x] # Null} = {} /\ {n \in {ptr[x]} : n # Null /\ wr_obj[x] # Null} = {}
    BY <1>1
  <2> QED BY <1>1, <2>1, EffectNone DEF UnlinkIfBound
<1>2. CASE wr_obj[x] # Null
  <2>1. /\ {p \in {wr_pself[x]} : wr_obj[x] # Null} = {wr_pself[x]}
        /\ {n \in {ptr[x]} : n # Null /\ wr_obj[x] # Null} = {ptr[x]} \ {Null}
    BY <1>2
  <2> QED BY <1>2, <2>1, EffectUnlink DEF UnlinkIfBound
<1> QED BY <1>1, <1>2

\* The stores that unbind x.
LEMMA EffectSever ==
    ASSUME NEW x, NEW P, NEW B, NEW O, P[x] = Null, B[x] = Null, O[x] = Null
    PROVE  Effect(Sever(x), P, B, O, {x}, {x}, {x})
<1> DEFINE a == Store(Null, Same, x :> Null, x :> Null)
           b == Store(x, x :> Null, Same, Same)
<1>1. Sever(x) = <<a>> \o <<b>>
  BY DEF Sever
<1>2. Effect(<<a>>, P, B, O, {}, {x}, {x})
  BY EffectBind
<1>3. Effect(<<b>>, P, B, O, {x}, {}, {})
  BY EffectLink
<1> HIDE DEF a, b
<1>4. Effect(<<a>> \o <<b>>, P, B, O, {} \cup {x}, {x} \cup {}, {x} \cup {})
  BY <1>2, <1>3, EffectThen
<1>5. {} \cup {x} = {x} /\ {x} \cup {} = {x}
  OBVIOUS
<1> QED BY <1>1, <1>4, <1>5

\* A script that takes out and unbinds s.
LEMMA CutLeads ==
    ASSUME NEW t, NEW P, NEW B, NEW O, Lists(P, B, O), NEW s \in Refs, O[s] # Null, At(P, B, O, s),
           NEW q, \A PP, BB, OO : PP[s] = Null /\ BB[s] = Null /\ OO[s] = Null
                                  => Effect(q, PP, BB, OO, {s}, {s}, {s})
    PROVE  Leads(t, Unlink(s) \o q, P, B, O)
<1> DEFINE PP == CutPtr(P, B, s)
           BB == CutBack(P, B, s)
           OO == CutObj(O, s)
<1>1. Lists(PP, BB, OO)
  BY CutLists
<1>2. /\ P[s] = ptr[s] /\ B[s] = wr_pself[s] /\ B[s] \in Locs /\ P[B[s]] = s
      /\ P[s] # Null => P[s] \in Refs /\ B[P[s]] = s
  BY BoundIn DEF At
<1>3. /\ \A l \in Locs : PP[l] = IF l = s THEN Null ELSE IF l = B[s] THEN P[s] ELSE P[l]
      /\ \A r \in Refs : BB[r] = IF r = s THEN Null ELSE IF r = P[s] THEN B[s] ELSE B[r]
      /\ \A r \in Refs : OO[r] = IF r = s THEN Null ELSE O[r]
  BY DEF CutPtr, CutBack, CutObj
<1> HIDE DEF PP, BB, OO
<1>4. PP[s] = Null /\ BB[s] = Null /\ OO[s] = Null
  BY <1>3, NullApart
<1>5. PP[B[s]] = P[s] /\ (P[s] # Null => BB[P[s]] = B[s])
  BY <1>2, <1>3, NoRing
<1>6. Effect(Unlink(s), PP, BB, OO, {B[s]}, {P[s]} \ {Null}, {})
  BY <1>2, <1>5, EffectUnlink
<1>7. Effect(q, PP, BB, OO, {s}, {s}, {s})
  BY <1>4
<1>8. Effect(Unlink(s) \o q, PP, BB, OO, {B[s]} \cup {s}, ({P[s]} \ {Null}) \cup {s}, {} \cup {s})
  BY <1>6, <1>7, EffectThen
<1>9. Makes(Unlink(s) \o q, P, B, O, PP, BB, OO)
  <2>1. \A l \in Locs : PP[l] = P[l] \/ l \in {B[s]} \cup {s}
    BY <1>3
  <2>2. \A r \in Refs : BB[r] = B[r] \/ r \in ({P[s]} \ {Null}) \cup {s}
    BY <1>3, NullApart
  <2>3. \A r \in Refs : OO[r] = O[r] \/ r \in {} \cup {s}
    BY <1>3
  <2> QED BY <1>8, <2>1, <2>2, <2>3, EffectMakes
<1>10. ObjStep(t, O, OO)
  BY <1>3 DEF ObjStep
<1> QED BY <1>1, <1>9, <1>10 DEF Leads

\* Two elements in a row.
LEMMA SeqTwo == ASSUME NEW a, NEW b PROVE <<a>> \o <<b>> = <<a, b>>
<1> DEFINE r == <<a>> \o <<b>>
<1>1. <<a>> \in Seq({a, b}) /\ <<b>> \in Seq({a, b})
  OBVIOUS
<1>2. r \in Seq({a, b}) /\ Len(r) = 2 /\ r[1] = a /\ r[2] = b
  BY <1>1
<1> HIDE DEF r
<1>3. r = <<a, b>>
  BY <1>2
<1> QED BY <1>3 DEF r

\* Three.
LEMMA SeqThree == ASSUME NEW a, NEW b, NEW c PROVE <<a, b>> \o <<c>> = <<a, b, c>>
<1> DEFINE r == <<a, b>> \o <<c>>
<1>1. <<a, b>> \in Seq({a, b, c}) /\ <<c>> \in Seq({a, b, c})
  OBVIOUS
<1>2. r \in Seq({a, b, c}) /\ Len(r) = 3 /\ r[1] = a /\ r[2] = b /\ r[3] = c
  BY <1>1
<1> HIDE DEF r
<1>3. r = <<a, b, c>>
  BY <1>2
<1> QED BY <1>3 DEF r

\* Four.
LEMMA SeqFour == ASSUME NEW a, NEW b, NEW c, NEW d PROVE <<a, b, c>> \o <<d>> = <<a, b, c, d>>
<1> DEFINE r == <<a, b, c>> \o <<d>>
<1>1. <<a, b, c>> \in Seq({a, b, c, d}) /\ <<d>> \in Seq({a, b, c, d})
  OBVIOUS
<1>2. r \in Seq({a, b, c, d}) /\ Len(r) = 4 /\ r[1] = a /\ r[2] = b /\ r[3] = c /\ r[4] = d
  BY <1>1
<1> HIDE DEF r
<1>3. r = <<a, b, c, d>>
  BY <1>2
<1> QED BY <1>3 DEF r

\* Where the pointers of the lists with s taken out and then put behind l are.
LEMMA MovedIs ==
    ASSUME NEW P, NEW B, NEW O, Lists(P, B, O), NEW s \in Refs, NEW l \in Locs, l # s, l # B[s],
           Of(O, l) # Null
    PROVE  \E PP, BB, OO :
             /\ Lists(PP, BB, OO)
             /\ \A m \in Locs : PP[m] = IF m = l THEN s ELSE IF m = s THEN P[l]
                                        ELSE IF m = B[s] THEN P[s] ELSE P[m]
             /\ \A r \in Refs : BB[r] = IF r = s THEN l ELSE IF r = P[l] THEN s
                                        ELSE IF r = P[s] THEN B[s] ELSE B[r]
             /\ \A r \in Refs : OO[r] = IF r = s THEN Of(O, l) ELSE O[r]
             /\ P[l] # s
<1> DEFINE C == CutPtr(P, B, s)
           D == CutBack(P, B, s)
           E == CutObj(O, s)
<1>1. Lists(C, D, E) /\ E[s] = Null
  BY CutLists
<1>2. /\ \A m \in Locs : C[m] = IF m = s THEN Null ELSE IF m = B[s] THEN P[s] ELSE P[m]
      /\ \A r \in Refs : D[r] = IF r = s THEN Null ELSE IF r = P[s] THEN B[s] ELSE B[r]
      /\ \A r \in Refs : E[r] = IF r = s THEN Null ELSE O[r]
  BY DEF CutPtr, CutBack, CutObj
<1> HIDE DEF C, D, E
<1>3. C[l] = P[l] /\ Of(E, l) = Of(O, l)
  BY <1>2, NullApart DEF Of, Locs
<1>4. Lists(PutPtr(C, s, l), PutBack(C, D, s, l), PutObj(E, s, l))
  BY <1>1, <1>3, PutLists
<1>5. \A m \in Locs : PutPtr(C, s, l)[m] = IF m = l THEN s ELSE IF m = s THEN P[l]
                                           ELSE IF m = B[s] THEN P[s] ELSE P[m]
  BY <1>2, <1>3 DEF PutPtr
<1>6. \A r \in Refs : PutBack(C, D, s, l)[r] = IF r = s THEN l ELSE IF r = P[l] THEN s
                                               ELSE IF r = P[s] THEN B[s] ELSE B[r]
  BY <1>2, <1>3 DEF PutBack
<1>7. \A r \in Refs : PutObj(E, s, l)[r] = IF r = s THEN Of(O, l) ELSE O[r]
  BY <1>2, <1>3 DEF PutObj
<1>8. P[l] # s
  BY NullApart DEF Lists
<1> QED BY <1>4, <1>5, <1>6, <1>7, <1>8

\* Dee_weakref_init.
LEMMA InitLeads ==
    ASSUME NEW t, NEW P, NEW B, NEW O, Lists(P, B, O), op[t].kind = "init", op[t].self \in Refs,
           op[t].ob \in Objs, O[op[t].self] = Null, At(P, B, O, op[t].ob)
    PROVE  Leads(t, Script(t), P, B, O)
<1>s. PICK s : s = op[t].self /\ s \in Refs /\ O[s] = Null
  OBVIOUS
<1>l. PICK l : l = op[t].ob /\ l \in Objs /\ l \in Locs /\ l # Null /\ l # s /\ Of(O, l) = l
  BY NullApart, <1>s DEF Of
<1>n. PICK n : n = ptr[l] /\ n = P[l]
  BY <1>l DEF At
<1>1. P[s] = Null /\ B[s] = Null
  BY <1>s, UnboundOut
<1>2. PICK PP, BB, OO :
         /\ Lists(PP, BB, OO)
         /\ \A m \in Locs : PP[m] = IF m = l THEN s ELSE IF m = s THEN P[l]
                                    ELSE IF m = B[s] THEN P[s] ELSE P[m]
         /\ \A r \in Refs : BB[r] = IF r = s THEN l ELSE IF r = P[l] THEN s
                                    ELSE IF r = P[s] THEN B[s] ELSE B[r]
         /\ \A r \in Refs : OO[r] = IF r = s THEN Of(O, l) ELSE O[r]
         /\ P[l] # s
  BY <1>s, <1>l, <1>1, MovedIs
<1> DEFINE a == <<Store(Null, s :> n, s :> l, s :> l)>>
           b == StoreIf(n, Store(n, Same, n :> s, Same))
           c == <<Store(l, l :> s, Same, Same)>>
<1>3. Script(t) = (a \o b) \o c
  BY <1>s, <1>l, <1>n DEF Script
<1>4. Effect(a, PP, BB, OO, {s}, {s}, {s})
  <2>1. PP[s] = n /\ BB[s] = l /\ OO[s] = l
    BY <1>s, <1>l, <1>n, <1>2, NullApart
  <2> QED BY <2>1, EffectAll
<1>5. Effect(b, PP, BB, OO, {}, {n} \ {Null}, {})
  <2>1. n # Null => BB[n] = s
    BY <1>l, <1>n, <1>2, NullApart DEF Lists
  <2> QED BY <2>1, EffectBackIf
<1>6. Effect(c, PP, BB, OO, {l}, {}, {})
  <2>1. PP[l] = s
    BY <1>l, <1>2
  <2> QED BY <2>1, EffectLink
<1> HIDE DEF a, b, c
<1>7. Effect(a \o b, PP, BB, OO, {s} \cup {}, {s} \cup ({n} \ {Null}), {s} \cup {})
  BY <1>4, <1>5, EffectThen
<1>8. Effect((a \o b) \o c, PP, BB, OO, ({s} \cup {}) \cup {l}, ({s} \cup ({n} \ {Null})) \cup {}, ({s} \cup {}) \cup {})
  BY <1>6, <1>7, EffectThen
<1>9. /\ \A m \in Locs : PP[m] = P[m] \/ m \in ({s} \cup {}) \cup {l}
      /\ \A r \in Refs : BB[r] = B[r] \/ r \in ({s} \cup ({n} \ {Null})) \cup {}
      /\ \A r \in Refs : OO[r] = O[r] \/ r \in ({s} \cup {}) \cup {}
  BY <1>n, <1>1, <1>2, NullApart
<1>10. Makes((a \o b) \o c, P, B, O, PP, BB, OO)
  BY <1>8, <1>9, EffectMakes
<1>11. ObjStep(t, O, OO)
  BY <1>s, <1>l, <1>2 DEF ObjStep, Binding
<1> QED BY <1>2, <1>3, <1>10, <1>11 DEF Leads

\* Dee_weakref_copy.
LEMMA CopyLeads ==
    ASSUME NEW t, NEW P, NEW B, NEW O, Lists(P, B, O), op[t].kind = "copy", op[t].self \in Refs,
           op[t].other \in Refs, op[t].other # op[t].self, wr_obj[op[t].other] # Null,
           O[op[t].self] = Null, At(P, B, O, op[t].other)
    PROVE  Leads(t, Script(t), P, B, O)
<1>s. PICK s : s = op[t].self /\ s \in Refs /\ O[s] = Null
  OBVIOUS
<1>x. PICK x : /\ x = op[t].other /\ x \in Refs /\ x # s
               /\ P[x] = ptr[x] /\ B[x] = wr_pself[x] /\ O[x] = wr_obj[x] /\ O[x] # Null
  BY <1>s DEF At
<1>l. PICK l : l = wr_pself[x]
  OBVIOUS
<1>0. l \in Locs /\ P[l] = x /\ O[x] = Of(O, l)
  BY <1>x, <1>l, BoundIn
<1>1. P[s] = Null /\ B[s] = Null /\ l # s
  <2>1. P[s] = Null /\ B[s] = Null
    BY <1>s, UnboundOut
  <2> QED BY <1>x, <1>0, <2>1, NullApart
<1>2. PICK PP, BB, OO :
         /\ Lists(PP, BB, OO)
         /\ \A m \in Locs : PP[m] = IF m = l THEN s ELSE IF m = s THEN P[l]
                                    ELSE IF m = B[s] THEN P[s] ELSE P[m]
         /\ \A r \in Refs : BB[r] = IF r = s THEN l ELSE IF r = P[l] THEN s
                                    ELSE IF r = P[s] THEN B[s] ELSE B[r]
         /\ \A r \in Refs : OO[r] = IF r = s THEN Of(O, l) ELSE O[r]
         /\ P[l] # s
  BY <1>s, <1>x, <1>0, <1>1, NullApart, MovedIs
<1> DEFINE a == Store(Null, s :> x, s :> l, s :> wr_obj[x])
           b == Store(x, Same, x :> s, Same)
           c == Store(l, l :> s, Same, Same)
<1>3. Script(t) = <<a, b, c>>
  BY <1>s, <1>x, <1>l DEF Script
<1>4. Effect(<<a>>, PP, BB, OO, {s}, {s}, {s})
  <2>1. PP[s] = x /\ BB[s] = l /\ OO[s] = wr_obj[x]
    BY <1>s, <1>x, <1>0, <1>1, <1>2, NullApart
  <2> QED BY <2>1, EffectAll
<1>5. Effect(<<b>>, PP, BB, OO, {}, {x}, {})
  <2>1. BB[x] = s
    BY <1>x, <1>0, <1>2
  <2> QED BY <2>1, EffectBack
<1>6. Effect(<<c>>, PP, BB, OO, {l}, {}, {})
  <2>1. PP[l] = s
    BY <1>0, <1>2
  <2> QED BY <2>1, EffectLink
<1> HIDE DEF a, b, c
<1>7. Effect(<<a>> \o <<b>>, PP, BB, OO, {s} \cup {}, {s} \cup {x}, {s} \cup {})
  BY <1>4, <1>5, EffectThen
<1>8. Effect((<<a>> \o <<b>>) \o <<c>>, PP, BB, OO, ({s} \cup {}) \cup {l}, ({s} \cup {x}) \cup {}, ({s} \cup {}) \cup {})
  BY <1>6, <1>7, EffectThen
<1>9. /\ \A m \in Locs : PP[m] = P[m] \/ m \in ({s} \cup {}) \cup {l}
      /\ \A r \in Refs : BB[r] = B[r] \/ r \in ({s} \cup {x}) \cup {}
      /\ \A r \in Refs : OO[r] = O[r] \/ r \in ({s} \cup {}) \cup {}
  BY <1>0, <1>1, <1>2, NullApart
<1>10. Makes((<<a>> \o <<b>>) \o <<c>>, P, B, O, PP, BB, OO)
  BY <1>8, <1>9, EffectMakes
<1>11. Makes(<<a, b, c>>, P, B, O, PP, BB, OO)
  BY <1>10, SeqTwo, SeqThree
<1>12. ObjStep(t, O, OO)
  BY <1>s, <1>x, <1>0, <1>2 DEF ObjStep
<1> QED BY <1>2, <1>3, <1>11, <1>12 DEF Leads

\* A store to the fields of two references.
LEMMA EffectPair ==
    ASSUME NEW u, NEW r, NEW b, NEW v, NEW c, NEW g, NEW P, NEW B, NEW O, r # v, B[r] = b, B[v] = c,
           \A w \in DOMAIN g : O[w] = g[w]
    PROVE  Effect(<<Store(u, Same, (r :> b) @@ (v :> c), g)>>, P, B, O, {}, {r, v}, DOMAIN g)
<1>f. PICK f : f = (r :> b) @@ (v :> c) /\ DOMAIN f = {r, v} /\ f[r] = b /\ f[v] = c
  <2> DEFINE h == (r :> b) @@ (v :> c)
  <2>1. h = [w \in {r, v} |-> IF w \in {r} THEN b ELSE c]
    BY DEF :>, @@
  <2> HIDE DEF h
  <2>2. DOMAIN h = {r, v} /\ h[r] = b /\ h[v] = c
    BY <2>1
  <2>3. \E f : f = h /\ DOMAIN f = {r, v} /\ f[r] = b /\ f[v] = c
    BY <2>2
  <2> QED BY <2>3 DEF h
<1>1. DOMAIN Same = {}
  BY DEF Same
<1>2. Effect(<<Store(u, Same, f, g)>>, P, B, O, DOMAIN Same, DOMAIN f, DOMAIN g)
  BY <1>1, <1>f, EffectOne
<1> QED BY <1>1, <1>2, <1>f

\* Dee_weakref_set.
LEMMA SetLeads ==
    ASSUME NEW t, NEW P, NEW B, NEW O, Lists(P, B, O), op[t].kind = "set", op[t].self \in Refs,
           op[t].ob \in Objs, At(P, B, O, op[t].self), At(P, B, O, op[t].ob),
           wr_obj[op[t].self] # Null => wr_pself[op[t].self] # op[t].ob
    PROVE  Leads(t, Script(t), P, B, O)
<1>s. PICK s : /\ s = op[t].self /\ s \in Refs
               /\ P[s] = ptr[s] /\ B[s] = wr_pself[s] /\ O[s] = wr_obj[s]
  BY DEF At
<1>l. PICK l : l = op[t].ob /\ l \in Objs /\ l \in Locs /\ l # Null /\ l # s /\ Of(O, l) = l
  BY NullApart, <1>s DEF Of
<1>n. PICK n : n = ptr[l] /\ n = P[l]
  BY <1>l DEF At
<1>1. O[s] = Null => P[s] = Null /\ B[s] = Null
  BY <1>s, UnboundOut
<1>b. O[s] # Null => /\ P[s] # s /\ B[s] # s /\ B[s] \in Locs /\ P[B[s]] = s
                     /\ P[s] # Null => P[s] \in Refs /\ B[P[s]] = s
  BY <1>s, NoRing, BoundIn
<1>2. PICK PP, BB, OO :
         /\ Lists(PP, BB, OO)
         /\ \A m \in Locs : PP[m] = IF m = l THEN s ELSE IF m = s THEN P[l]
                                    ELSE IF m = B[s] THEN P[s] ELSE P[m]
         /\ \A r \in Refs : BB[r] = IF r = s THEN l ELSE IF r = P[l] THEN s
                                    ELSE IF r = P[s] THEN B[s] ELSE B[r]
         /\ \A r \in Refs : OO[r] = IF r = s THEN Of(O, l) ELSE O[r]
         /\ P[l] # s
  BY <1>s, <1>l, <1>1, MovedIs
<1> DEFINE X == {p \in {wr_pself[s]} : wr_obj[s] # Null}
           Y == {v \in {ptr[s]} : v # Null /\ wr_obj[s] # Null}
           a == <<Store(Null, Same, s :> l, s :> l)>>
           b == StoreIf(n, Store(n, Same, n :> s, Same))
           c == Store(l, l :> s, Same, Same)
           d == Store(s, s :> n, Same, Same)
           q == ((UnlinkIfBound(s) \o a) \o b) \o (<<c>> \o <<d>>)
<1>3. Script(t) = q
  <2>1. <<c>> \o <<d>> = <<c, d>>
    BY SeqTwo
  <2>2. Script(t) = ((UnlinkIfBound(s) \o a) \o b) \o <<c, d>>
    BY <1>s, <1>l, <1>n DEF Script
  <2> QED BY <2>1, <2>2
<1>4. Effect(UnlinkIfBound(s), PP, BB, OO, X, Y, {})
  <2>1. wr_obj[s] # Null => PP[wr_pself[s]] = ptr[s]
    BY <1>s, <1>l, <1>b, <1>2
  <2>2. wr_obj[s] # Null /\ ptr[s] # Null => P[s] # P[l]
    BY <1>s, <1>l, <1>b, NullApart DEF Lists
  <2>3. wr_obj[s] # Null /\ ptr[s] # Null => BB[ptr[s]] = wr_pself[s]
    BY <1>s, <1>b, <1>2, <2>2
  <2> QED BY <2>1, <2>3, EffectUnlinkIfBound
<1>5. Effect(a, PP, BB, OO, {}, {s}, {s})
  <2>1. BB[s] = l /\ OO[s] = l
    BY <1>s, <1>l, <1>2
  <2> QED BY <2>1, EffectBind
<1>6. Effect(b, PP, BB, OO, {}, {n} \ {Null}, {})
  <2>1. n # Null => BB[n] = s
    BY <1>l, <1>n, <1>2, NullApart DEF Lists
  <2> QED BY <2>1, EffectBackIf
<1>7. Effect(<<c>>, PP, BB, OO, {l}, {}, {}) /\ Effect(<<d>>, PP, BB, OO, {s}, {}, {})
  <2>1. PP[l] = s /\ PP[s] = n
    BY <1>s, <1>l, <1>n, <1>2, NullApart
  <2> QED BY <2>1, EffectLink
<1> HIDE DEF a, b, c, d, X, Y
<1>8. Effect(UnlinkIfBound(s) \o a, PP, BB, OO, X \cup {}, Y \cup {s}, {} \cup {s})
  BY <1>4, <1>5, EffectThen
<1>9. Effect((UnlinkIfBound(s) \o a) \o b, PP, BB, OO, (X \cup {}) \cup {},
             (Y \cup {s}) \cup ({n} \ {Null}), ({} \cup {s}) \cup {})
  BY <1>6, <1>8, EffectThen
<1>10. Effect(<<c>> \o <<d>>, PP, BB, OO, {l} \cup {s}, {} \cup {}, {} \cup {})
  BY <1>7, EffectThen
<1>11. Effect(q, PP, BB, OO, ((X \cup {}) \cup {}) \cup ({l} \cup {s}),
              ((Y \cup {s}) \cup ({n} \ {Null})) \cup ({} \cup {}), (({} \cup {s}) \cup {}) \cup ({} \cup {}))
  BY <1>9, <1>10, EffectThen
<1>12. \A m \in Locs : PP[m] = P[m] \/ m \in ((X \cup {}) \cup {}) \cup ({l} \cup {s})
  BY <1>s, <1>1, <1>2, NullApart DEF X
<1>13. \A r \in Refs : BB[r] = B[r] \/ r \in ((Y \cup {s}) \cup ({n} \ {Null})) \cup ({} \cup {})
  BY <1>s, <1>n, <1>1, <1>2, NullApart DEF Y
<1>14. \A r \in Refs : OO[r] = O[r] \/ r \in (({} \cup {s}) \cup {}) \cup ({} \cup {})
  BY <1>2
<1> HIDE DEF q
<1>15. Makes(q, P, B, O, PP, BB, OO)
  BY <1>11, <1>12, <1>13, <1>14, EffectMakes
<1>16. ObjStep(t, O, OO)
  BY <1>s, <1>l, <1>2 DEF ObjStep, Binding
<1> QED BY <1>2, <1>3, <1>15, <1>16 DEF Leads

\* Dee_weakref_copyassign.
LEMMA CopyAssignLeads ==
    ASSUME NEW t, NEW P, NEW B, NEW O, Lists(P, B, O), op[t].kind = "copyassign", op[t].self \in Refs,
           op[t].other \in Refs, op[t].other # op[t].self, wr_obj[op[t].other] # Null,
           At(P, B, O, op[t].self), At(P, B, O, op[t].other), wr_pself[op[t].other] # op[t].self
    PROVE  Leads(t, Script(t), P, B, O)
<1>s. PICK s : /\ s = op[t].self /\ s \in Refs
               /\ P[s] = ptr[s] /\ B[s] = wr_pself[s] /\ O[s] = wr_obj[s]
  BY DEF At
<1>x. PICK x : /\ x = op[t].other /\ x \in Refs /\ x # s
               /\ P[x] = ptr[x] /\ B[x] = wr_pself[x] /\ O[x] = wr_obj[x] /\ O[x] # Null
  BY <1>s DEF At
<1>o. PICK o : o = wr_obj[x]
  OBVIOUS
<1>l. PICK l : l = wr_pself[x] /\ l # s
  BY <1>s, <1>x
<1>0. l \in Locs /\ P[l] = x /\ O[x] = Of(O, l)
  BY <1>x, <1>l, BoundIn
<1>1. O[s] = Null => P[s] = Null /\ B[s] = Null
  BY <1>s, UnboundOut
<1>b. O[s] # Null => /\ P[s] # s /\ B[s] # s /\ B[s] \in Locs /\ P[B[s]] = s
                     /\ P[s] # Null => P[s] \in Refs /\ B[P[s]] = s
  BY <1>s, NoRing, BoundIn
<1>c. l # B[s]
  BY <1>x, <1>0, <1>1, <1>b, NullApart
<1>2. PICK PP, BB, OO :
         /\ Lists(PP, BB, OO)
         /\ \A m \in Locs : PP[m] = IF m = l THEN s ELSE IF m = s THEN P[l]
                                    ELSE IF m = B[s] THEN P[s] ELSE P[m]
         /\ \A r \in Refs : BB[r] = IF r = s THEN l ELSE IF r = P[l] THEN s
                                    ELSE IF r = P[s] THEN B[s] ELSE B[r]
         /\ \A r \in Refs : OO[r] = IF r = s THEN Of(O, l) ELSE O[r]
         /\ P[l] # s
  BY <1>s, <1>x, <1>l, <1>0, <1>c, MovedIs
<1> DEFINE X == {p \in {wr_pself[s]} : wr_obj[s] # Null}
           Y == {v \in {ptr[s]} : v # Null /\ wr_obj[s] # Null}
           a == Store(Null, Same, (s :> l) @@ (x :> s), s :> o)
           b == Store(l, l :> s, Same, Same)
           c == Store(x, Same, Same, Same)
           d == Store(s, s :> x, Same, Same)
           q == UnlinkIfBound(s) \o (((<<a>> \o <<b>>) \o <<c>>) \o <<d>>)
<1>3. Script(t) = q
  <2>1. Script(t) = UnlinkIfBound(s) \o <<a, b, c, d>>
    BY <1>s, <1>x, <1>l, <1>o DEF Script
  <2> HIDE DEF a, b, c, d
  <2>2. <<a>> \o <<b>> = <<a, b>>
    BY SeqTwo
  <2>3. <<a, b>> \o <<c>> = <<a, b, c>>
    BY SeqThree
  <2>4. <<a, b, c>> \o <<d>> = <<a, b, c, d>>
    BY SeqFour
  <2> QED BY <2>1, <2>2, <2>3, <2>4
<1>4. Effect(UnlinkIfBound(s), PP, BB, OO, X, Y, {})
  <2>1. wr_obj[s] # Null => PP[wr_pself[s]] = ptr[s]
    BY <1>s, <1>b, <1>c, <1>2
  <2>2. wr_obj[s] # Null /\ ptr[s] # Null => P[s] # P[l]
    BY <1>s, <1>x, <1>l, <1>0, <1>b
  <2>3. wr_obj[s] # Null /\ ptr[s] # Null => BB[ptr[s]] = wr_pself[s]
    BY <1>s, <1>b, <1>2, <2>2
  <2> QED BY <2>1, <2>3, EffectUnlinkIfBound
<1>5. Effect(<<a>>, PP, BB, OO, {}, {s, x}, {s})
  <2>1. BB[s] = l /\ BB[x] = s /\ OO[s] = o
    BY <1>s, <1>x, <1>o, <1>0, <1>2
  <2>g. PICK g : g = s :> o /\ DOMAIN g = {s} /\ g[s] = o
    <3> DEFINE h == s :> o
    <3>1. h = [w \in {s} |-> o]
      BY DEF :>
    <3> HIDE DEF h
    <3>2. \E g : g = h /\ DOMAIN g = {s} /\ g[s] = o
      BY <3>1
    <3> QED BY <3>2 DEF h
  <2>2. Effect(<<Store(Null, Same, (s :> l) @@ (x :> s), g)>>, PP, BB, OO, {}, {s, x}, DOMAIN g)
    BY <1>x, <2>1, <2>g, EffectPair
  <2> QED BY <2>g, <2>2
<1>6. Effect(<<b>>, PP, BB, OO, {l}, {}, {}) /\ Effect(<<d>>, PP, BB, OO, {s}, {}, {})
  <2>1. PP[l] = s /\ PP[s] = x
    BY <1>s, <1>l, <1>0, <1>2, NullApart
  <2> QED BY <2>1, EffectLink
<1>7. Effect(<<c>>, PP, BB, OO, {}, {}, {})
  BY EffectPlain
<1> HIDE DEF a, b, c, d, X, Y
<1>8. Effect(<<a>> \o <<b>>, PP, BB, OO, {} \cup {l}, {s, x} \cup {}, {s} \cup {})
  BY <1>5, <1>6, EffectThen
<1>9. Effect((<<a>> \o <<b>>) \o <<c>>, PP, BB, OO, ({} \cup {l}) \cup {}, ({s, x} \cup {}) \cup {}, ({s} \cup {}) \cup {})
  BY <1>7, <1>8, EffectThen
<1>10. Effect(((<<a>> \o <<b>>) \o <<c>>) \o <<d>>, PP, BB, OO, (({} \cup {l}) \cup {}) \cup {s},
              (({s, x} \cup {}) \cup {}) \cup {}, (({s} \cup {}) \cup {}) \cup {})
  BY <1>6, <1>9, EffectThen
<1>11. Effect(q, PP, BB, OO, X \cup ((({} \cup {l}) \cup {}) \cup {s}),
              Y \cup ((({s, x} \cup {}) \cup {}) \cup {}), {} \cup ((({s} \cup {}) \cup {}) \cup {}))
  BY <1>4, <1>10, EffectThen
<1>12. \A m \in Locs : PP[m] = P[m] \/ m \in X \cup ((({} \cup {l}) \cup {}) \cup {s})
  BY <1>s, <1>1, <1>2, NullApart DEF X
<1>13. \A r \in Refs : BB[r] = B[r] \/ r \in Y \cup ((({s, x} \cup {}) \cup {}) \cup {})
  BY <1>s, <1>0, <1>1, <1>2, NullApart DEF Y
<1>14. \A r \in Refs : OO[r] = O[r] \/ r \in {} \cup ((({s} \cup {}) \cup {}) \cup {})
  BY <1>2
<1> HIDE DEF q
<1>15. Makes(q, P, B, O, PP, BB, OO)
  BY <1>11, <1>12, <1>13, <1>14, EffectMakes
<1>16. ObjStep(t, O, OO)
  BY <1>s, <1>x, <1>0, <1>2 DEF ObjStep
<1> QED BY <1>2, <1>3, <1>15, <1>16 DEF Leads

\* Dee_weakref_moveassign.
LEMMA MoveAssignLeads ==
    ASSUME NEW t, NEW P, NEW B, NEW O, Lists(P, B, O), op[t].kind = "moveassign", op[t].self \in Refs,
           op[t].other \in Refs, op[t].other # op[t].self, wr_obj[op[t].other] # Null,
           At(P, B, O, op[t].self), At(P, B, O, op[t].other),
           wr_pself[op[t].other] # op[t].self, ptr[op[t].other] # op[t].self
    PROVE  Leads(t, Script(t), P, B, O)
<1>s. PICK s : /\ s = op[t].self /\ s \in Refs
               /\ P[s] = ptr[s] /\ B[s] = wr_pself[s] /\ O[s] = wr_obj[s]
  BY DEF At
<1>x. PICK x : /\ x = op[t].other /\ x \in Refs /\ x # s
               /\ P[x] = ptr[x] /\ B[x] = wr_pself[x] /\ O[x] = wr_obj[x] /\ O[x] # Null
               /\ P[x] # s /\ B[x] # s
  BY <1>s DEF At
<1>o. PICK o : o = wr_obj[x] /\ o = O[x]
  BY <1>x
<1>l. PICK l : l = wr_pself[x] /\ l = B[x] /\ l # s
  BY <1>x
<1>n. PICK n : n = ptr[x] /\ n = P[x] /\ n # s
  BY <1>x
<1>0. /\ l \in Locs /\ P[l] = x /\ o = Of(O, l) /\ l # x /\ n # x
      /\ n # Null => n \in Refs /\ B[n] = x
  BY <1>x, <1>o, <1>l, <1>n, BoundIn, NoRing
<1>1. O[s] = Null => P[s] = Null /\ B[s] = Null
  BY <1>s, UnboundOut
<1>b. O[s] # Null => /\ P[s] # s /\ B[s] # s /\ B[s] \in Locs /\ P[B[s]] = s /\ B[s] # x
                     /\ P[s] # Null => P[s] \in Refs /\ B[P[s]] = s /\ P[s] # x
  BY <1>s, <1>x, NoRing, BoundIn
<1>c. l # B[s] /\ P[s] # x /\ B[s] # x
  BY <1>x, <1>0, <1>1, <1>b, NullApart
\* Without x, and then with s moved to where x was.
<1> DEFINE C == CutPtr(P, B, x)
           D == CutBack(P, B, x)
           E == CutObj(O, x)
<1>d. Lists(C, D, E)
  BY <1>x, CutLists
<1>e. /\ \A m \in Locs : C[m] = IF m = x THEN Null ELSE IF m = l THEN n ELSE P[m]
      /\ \A r \in Refs : D[r] = IF r = x THEN Null ELSE IF r = n THEN l ELSE B[r]
      /\ \A r \in Refs : E[r] = IF r = x THEN Null ELSE O[r]
  BY <1>l, <1>n DEF CutPtr, CutBack, CutObj
<1> HIDE DEF C, D, E
<1>f. C[l] = n /\ C[s] = P[s] /\ D[s] = B[s] /\ Of(E, l) = o /\ o # Null
  BY <1>s, <1>x, <1>o, <1>l, <1>n, <1>0, <1>e, NullApart DEF Of, Locs
<1>2. PICK PP, BB, OO :
         /\ Lists(PP, BB, OO)
         /\ \A m \in Locs : PP[m] = IF m = l THEN s ELSE IF m = s THEN C[l]
                                    ELSE IF m = D[s] THEN C[s] ELSE C[m]
         /\ \A r \in Refs : BB[r] = IF r = s THEN l ELSE IF r = C[l] THEN s
                                    ELSE IF r = C[s] THEN D[s] ELSE D[r]
         /\ \A r \in Refs : OO[r] = IF r = s THEN Of(E, l) ELSE E[r]
         /\ C[l] # s
  BY <1>s, <1>l, <1>0, <1>c, <1>d, <1>f, MovedIs
<1>g. /\ \A m \in Locs : PP[m] = IF m = l THEN s ELSE IF m = s THEN n
                                 ELSE IF m = B[s] THEN P[s] ELSE IF m = x THEN Null ELSE P[m]
      /\ \A r \in Refs : BB[r] = IF r = s THEN l ELSE IF r = n THEN s
                                 ELSE IF r = P[s] THEN B[s] ELSE IF r = x THEN Null ELSE B[r]
      /\ \A r \in Refs : OO[r] = IF r = s THEN o ELSE IF r = x THEN Null ELSE O[r]
  BY <1>e, <1>f, <1>2
<1> DEFINE X == {p \in {wr_pself[s]} : wr_obj[s] # Null}
           Y == {v \in {ptr[s]} : v # Null /\ wr_obj[s] # Null}
           a == <<Store(Null, Same, (s :> l) @@ (x :> Null), (s :> o) @@ (x :> Null))>>
           i == StoreIf(n, Store(n, Same, n :> s, Same))
           b == Store(l, l :> s, Same, Same)
           c == Store(x, x :> Null, Same, Same)
           d == Store(s, s :> n, Same, Same)
           q == ((UnlinkIfBound(s) \o a) \o i) \o ((<<b>> \o <<c>>) \o <<d>>)
<1>3. Script(t) = q
  <2>1. Script(t) = ((UnlinkIfBound(s) \o a) \o i) \o <<b, c, d>>
    BY <1>s, <1>x, <1>l, <1>o, <1>n DEF Script
  <2> HIDE DEF a, b, c, d, i
  <2>2. (<<b>> \o <<c>>) \o <<d>> = <<b, c, d>>
    BY SeqTwo, SeqThree
  <2> QED BY <2>1, <2>2
<1>4. Effect(UnlinkIfBound(s), PP, BB, OO, X, Y, {})
  <2>1. wr_obj[s] # Null => PP[wr_pself[s]] = ptr[s]
    BY <1>s, <1>b, <1>c, <1>g
  <2>2. wr_obj[s] # Null /\ ptr[s] # Null => P[s] # n
    BY <1>s, <1>x, <1>0, <1>b
  <2>3. wr_obj[s] # Null /\ ptr[s] # Null => BB[ptr[s]] = wr_pself[s]
    BY <1>s, <1>b, <1>g, <2>2
  <2> QED BY <2>1, <2>3, EffectUnlinkIfBound
<1>5. Effect(a, PP, BB, OO, {}, {s, x}, {s, x})
  <2>1. BB[s] = l /\ BB[x] = Null /\ OO[s] = o /\ OO[x] = Null
    BY <1>s, <1>x, <1>0, <1>c, <1>g
  <2>g. PICK g : g = (s :> o) @@ (x :> Null) /\ DOMAIN g = {s, x} /\ g[s] = o /\ g[x] = Null
    <3> DEFINE h == (s :> o) @@ (x :> Null)
    <3>1. h = [w \in {s, x} |-> IF w \in {s} THEN o ELSE Null]
      BY DEF :>, @@
    <3> HIDE DEF h
    <3>2. DOMAIN h = {s, x} /\ h[s] = o /\ h[x] = Null
      BY <3>1, <1>x
    <3>3. \E g : g = h /\ DOMAIN g = {s, x} /\ g[s] = o /\ g[x] = Null
      BY <3>2
    <3> QED BY <3>3 DEF h
  <2>2. Effect(<<Store(Null, Same, (s :> l) @@ (x :> Null), g)>>, PP, BB, OO, {}, {s, x}, DOMAIN g)
    BY <1>x, <2>1, <2>g, EffectPair
  <2> QED BY <2>g, <2>2
<1>6. Effect(i, PP, BB, OO, {}, {n} \ {Null}, {})
  <2>1. n # Null => BB[n] = s
    BY <1>n, <1>0, <1>g
  <2> QED BY <2>1, EffectBackIf
<1>7. /\ Effect(<<b>>, PP, BB, OO, {l}, {}, {}) /\ Effect(<<c>>, PP, BB, OO, {x}, {}, {})
      /\ Effect(<<d>>, PP, BB, OO, {s}, {}, {})
  <2>1. PP[l] = s /\ PP[s] = n /\ PP[x] = Null
    BY <1>s, <1>x, <1>l, <1>0, <1>c, <1>g, NullApart
  <2> QED BY <2>1, EffectLink
<1> HIDE DEF a, b, c, d, i, X, Y
<1>8. Effect(UnlinkIfBound(s) \o a, PP, BB, OO, X \cup {}, Y \cup {s, x}, {} \cup {s, x})
  BY <1>4, <1>5, EffectThen
<1>9. Effect((UnlinkIfBound(s) \o a) \o i, PP, BB, OO, (X \cup {}) \cup {},
             (Y \cup {s, x}) \cup ({n} \ {Null}), ({} \cup {s, x}) \cup {})
  BY <1>6, <1>8, EffectThen
<1>10. Effect(<<b>> \o <<c>>, PP, BB, OO, {l} \cup {x}, {} \cup {}, {} \cup {})
  BY <1>7, EffectThen
<1>11. Effect((<<b>> \o <<c>>) \o <<d>>, PP, BB, OO, ({l} \cup {x}) \cup {s}, ({} \cup {}) \cup {}, ({} \cup {}) \cup {})
  BY <1>7, <1>10, EffectThen
<1>12. Effect(q, PP, BB, OO, ((X \cup {}) \cup {}) \cup (({l} \cup {x}) \cup {s}),
              ((Y \cup {s, x}) \cup ({n} \ {Null})) \cup (({} \cup {}) \cup {}),
              (({} \cup {s, x}) \cup {}) \cup (({} \cup {}) \cup {}))
  BY <1>9, <1>11, EffectThen
<1>13. \A m \in Locs : PP[m] = P[m] \/ m \in ((X \cup {}) \cup {}) \cup (({l} \cup {x}) \cup {s})
  BY <1>s, <1>1, <1>g, NullApart DEF X
<1>14. \A r \in Refs : BB[r] = B[r] \/ r \in ((Y \cup {s, x}) \cup ({n} \ {Null})) \cup (({} \cup {}) \cup {})
  BY <1>s, <1>1, <1>g, NullApart DEF Y
<1>15. \A r \in Refs : OO[r] = O[r] \/ r \in (({} \cup {s, x}) \cup {}) \cup (({} \cup {}) \cup {})
  BY <1>g
<1> HIDE DEF q
<1>16. Makes(q, P, B, O, PP, BB, OO)
  BY <1>12, <1>13, <1>14, <1>15, EffectMakes
<1>17. ObjStep(t, O, OO)
  BY <1>s, <1>x, <1>o, <1>g DEF ObjStep
<1> QED BY <1>2, <1>3, <1>16, <1>17 DEF Leads

\* The stores of Dee_weakref_clear, and of Dee_weakref_moveassign when both references are bound to
\* one object: x is taken out.
LEMMA ClearLeads ==
    ASSUME NEW t, NEW P, NEW B, NEW O, Lists(P, B, O), NEW x \in Refs, wr_obj[x] # Null, At(P, B, O, x)
    PROVE  Leads(t, Unlink(x) \o Sever(x), P, B, O)
<1>1. O[x] # Null
  BY DEF At
<1>2. \A PP, BB, OO : PP[x] = Null /\ BB[x] = Null /\ OO[x] = Null
                        => Effect(Sever(x), PP, BB, OO, {x}, {x}, {x})
  BY EffectSever
<1> QED BY <1>1, <1>2, CutLeads

\* Dee_weakref_fini.
LEMMA FiniLeads ==
    ASSUME NEW t, NEW P, NEW B, NEW O, Lists(P, B, O), NEW s \in Refs, wr_obj[s] # Null, At(P, B, O, s)
    PROVE  Leads(t, Unlink(s) \o <<Store(s, s :> Null, s :> Null, s :> Null)>>, P, B, O)
<1>1. O[s] # Null
  BY DEF At
<1>q. PICK q : q = <<Store(s, s :> Null, s :> Null, s :> Null)>>
  OBVIOUS
<1>2. \A PP, BB, OO : PP[s] = Null /\ BB[s] = Null /\ OO[s] = Null
                        => Effect(q, PP, BB, OO, {s}, {s}, {s})
  BY <1>q, EffectAll
<1>3. Leads(t, Unlink(s) \o q, P, B, O)
  BY <1>1, <1>2, CutLeads
<1> QED BY <1>q, <1>3

\* Dee_weakref_list_fini takes out the first reference of the list.
LEMMA DestroyLeads ==
    ASSUME NEW t, NEW P, NEW B, NEW O, Lists(P, B, O), op[t].kind = "destroy", op[t].ob \in Objs,
           ptr[op[t].ob] # Null, At(P, B, O, op[t].ob), At(P, B, O, ptr[op[t].ob])
    PROVE  Leads(t, Script(t), P, B, O)
<1>l. PICK l : l = op[t].ob /\ l \in Objs /\ l \in Locs /\ l # Null
  BY NullApart
<1>x. PICK x : x = ptr[l] /\ x = P[l] /\ x # Null
  BY <1>l DEF At
<1>1. x \in Refs /\ B[x] = l /\ O[x] = l
  BY <1>l, <1>x, NullApart DEF Lists, Of
<1>2. wr_pself[x] = l /\ wr_obj[x] # Null /\ At(P, B, O, x)
  BY <1>l, <1>x, <1>1 DEF At
<1>3. Script(t) = Unlink(x) \o Sever(x)
  BY <1>l, <1>x, <1>2 DEF Script, Unlink, UnlinkWith
<1> QED BY <1>1, <1>2, <1>3, ClearLeads

\* When the plan of a function is complete, its stores turn lists into lists.
LEMMA ScriptLeads ==
    ASSUME FieldInv, NEW t, UseOK(t), pc[t] # "idle", Bound(t),
           op[t].kind \in (Kinds \ {"lock"}) \cup {"destroy"}, Distinct(t, Len(Plan[op[t].kind])),
           NEW P, NEW B, NEW O, Lists(P, B, O),
           \A l \in Locks(t, Len(Plan[op[t].kind])) : At(P, B, O, l),
           op[t].kind \in Creating => O[op[t].self] = Null
    PROVE  Leads(t, Script(t), P, B, O)
<1> DEFINE k == op[t].kind
           s == op[t].self
           x == op[t].other
           o == op[t].ob
<1>0. CallOK(t)
  BY DEF UseOK
<1>2. /\ k # "destroy" => s \in Refs /\ s # Null
      /\ k \in Binary => x \in Refs /\ x # s /\ x # Null
      /\ k \in Binding \cup {"destroy"} => o \in Objs /\ o # Null
  BY <1>0, DistinctAssumption DEF CallOK
<1>3. \A r \in Refs : wr_obj[r] # Null => wr_pself[r] # Null
  BY DEF FieldInv
<1>4. /\ Lock(t, 1) = Where(t, Plan[k][1]) /\ Lock(t, 2) = Where(t, Plan[k][2])
      /\ Lock(t, 3) = Where(t, Plan[k][3]) /\ Lock(t, 4) = Where(t, Plan[k][4])
      /\ Lock(t, 5) = Where(t, Plan[k][5]) /\ Lock(t, 6) = Where(t, Plan[k][6])
  BY DEF Lock
<1>5. CASE k = "init"
  <2>1. Len(Plan[k]) = 2 /\ Plan[k][1] = "list" /\ Plan[k][2] = "first"
    BY <1>5, PlanIs
  <2>2. Lock(t, 1) = o /\ o \in Objs /\ o # Null /\ s \in Refs
    BY <1>2, <1>4, <1>5, <2>1, WhereIs DEF Binding
  <2>3. At(P, B, O, o)
    BY <2>1, <2>2, LocksIs
  <2> QED BY <1>5, <2>2, <2>3, InitLeads DEF Creating
<1>6. CASE k = "copy"
  <2>1. Len(Plan[k]) = 2 /\ Plan[k][1] = "other" /\ Plan[k][2] = "oprev"
    BY <1>6, PlanIs
  <2>2. Lock(t, 1) = x
    BY <1>4, <2>1, WhereIs
  <2>3. x \in Refs /\ x # Null /\ wr_obj[x] # Null /\ s \in Refs /\ x # s
    BY <1>2, <1>6 DEF Binary, Bound
  <2>4. At(P, B, O, x)
    BY <2>1, <2>2, <2>3, LocksIs
  <2> QED BY <1>6, <2>3, <2>4, CopyLeads DEF Creating
<1>7. CASE k \in {"clear", "fini"}
  <2>1. Len(Plan[k]) = 3 /\ Plan[k][1] = "self"
    <3>1. CASE k = "clear"
      BY <3>1, PlanIs
    <3>2. CASE k = "fini"
      BY <3>2, PlanIs
    <3> QED BY <1>7, <3>1, <3>2
  <2>2. s \in Refs /\ s # Null /\ wr_obj[s] # Null
    BY <1>2, <1>7 DEF Bound
  <2>3. Lock(t, 1) = s
    BY <1>4, <2>1, WhereIs
  <2>4. At(P, B, O, s)
    BY <2>1, <2>2, <2>3, LocksIs
  <2>5. CASE k = "clear"
    <3>1. Script(t) = Unlink(s) \o Sever(s)
      BY <2>5 DEF Script
    <3> QED BY <2>2, <2>4, <3>1, ClearLeads
  <2>6. CASE k = "fini"
    <3>1. Script(t) = Unlink(s) \o <<Store(s, s :> Null, s :> Null, s :> Null)>>
      BY <2>6 DEF Script
    <3> QED BY <2>2, <2>4, <3>1, FiniLeads
  <2> QED BY <1>7, <2>5, <2>6
<1>8. CASE k = "destroy"
  <2>1. Len(Plan[k]) = 3 /\ Plan[k][1] = "list" /\ Plan[k][2] = "first"
    BY <1>8, PlanIs
  <2>2. o \in Objs /\ ptr[o] # Null /\ o # Null
    BY <1>2, <1>8 DEF Bound
  <2>3. Lock(t, 1) = o /\ Lock(t, 2) = ptr[o]
    BY <1>4, <2>1, WhereIs
  <2>4. At(P, B, O, o) /\ At(P, B, O, ptr[o])
    BY <2>1, <2>2, <2>3, LocksIs
  <2> QED BY <1>8, <2>2, <2>4, DestroyLeads
<1>9. CASE k = "set"
  <2>1. /\ Len(Plan[k]) = 5 /\ Plan[k][1] = "self" /\ Plan[k][2] = "list" /\ Plan[k][3] = "first"
        /\ Plan[k][4] = "sprev" /\ Plan[k][5] = "snext"
    BY <1>9, PlanIs
  <2>2. s \in Refs /\ s # Null /\ o \in Objs /\ o # Null
    BY <1>2, <1>9 DEF Binding
  <2>3. /\ Lock(t, 1) = s /\ Lock(t, 2) = o
        /\ Lock(t, 4) = (IF wr_obj[s] = Null THEN Null ELSE wr_pself[s])
    BY <1>4, <2>1, WhereIs
  <2>4. At(P, B, O, s) /\ At(P, B, O, o)
    BY <2>1, <2>2, <2>3, LocksIs
  <2>5. \A i, j \in 1 .. 5 : i < j /\ Lock(t, i) = Lock(t, j) => Lock(t, i) = Null
    BY <2>1 DEF Distinct
  <2>6. 2 \in 1 .. 5 /\ 4 \in 1 .. 5 /\ 2 < 4
    OBVIOUS
  <2>7. wr_obj[s] # Null => wr_pself[s] # o
    BY <2>2, <2>3, <2>5, <2>6
  <2> QED BY <1>9, <2>2, <2>4, <2>7, SetLeads
<1>10. CASE k = "copyassign"
  <2>1. /\ Len(Plan[k]) = 5 /\ Plan[k][1] = "other" /\ Plan[k][2] = "oprev" /\ Plan[k][3] = "self"
    BY <1>10, PlanIs
  <2>2. s \in Refs /\ s # Null /\ x \in Refs /\ x # Null /\ x # s /\ wr_obj[x] # Null
    BY <1>2, <1>10 DEF Binary, Bound
  <2>3. Lock(t, 1) = x /\ Lock(t, 2) = wr_pself[x] /\ Lock(t, 3) = s
    BY <1>4, <2>1, WhereIs
  <2>4. At(P, B, O, s) /\ At(P, B, O, x)
    BY <2>1, <2>2, <2>3, LocksIs
  <2>5. \A i, j \in 1 .. 5 : i < j /\ Lock(t, i) = Lock(t, j) => Lock(t, i) = Null
    BY <2>1 DEF Distinct
  <2>6. 2 \in 1 .. 5 /\ 3 \in 1 .. 5 /\ 2 < 3
    OBVIOUS
  <2>7. wr_pself[x] # s
    BY <2>2, <2>3, <2>5, <2>6
  <2> QED BY <1>10, <2>2, <2>4, <2>7, CopyAssignLeads
<1>11. CASE k = "moveassign"
  <2>1. /\ Len(Plan[k]) = 6 /\ Plan[k][1] = "other" /\ Plan[k][2] = "oprev" /\ Plan[k][3] = "onext"
        /\ Plan[k][4] = "self"
    BY <1>11, PlanIs
  <2>2. s \in Refs /\ s # Null /\ x \in Refs /\ x # Null /\ x # s /\ wr_obj[x] # Null
    BY <1>2, <1>11 DEF Binary, Bound
  <2>3. Lock(t, 1) = x /\ Lock(t, 2) = wr_pself[x] /\ Lock(t, 3) = ptr[x] /\ Lock(t, 4) = s
    BY <1>4, <2>1, WhereIs
  <2>4. At(P, B, O, s) /\ At(P, B, O, x)
    BY <2>1, <2>2, <2>3, LocksIs
  <2>5. \A i, j \in 1 .. 6 : i < j /\ Lock(t, i) = Lock(t, j) => Lock(t, i) = Null
    BY <2>1 DEF Distinct
  <2>6. 2 \in 1 .. 6 /\ 3 \in 1 .. 6 /\ 4 \in 1 .. 6 /\ 2 < 4 /\ 3 < 4
    OBVIOUS
  <2>7. wr_pself[x] # s /\ ptr[x] # s
    BY <2>2, <2>3, <2>5, <2>6
  <2> QED BY <1>11, <2>2, <2>4, <2>7, MoveAssignLeads
<1> QED BY <1>5, <1>6, <1>7, <1>8, <1>9, <1>10, <1>11 DEF Kinds

\* A store that changes nothing.
LEMMA SameLeads ==
    ASSUME NEW t, NEW P, NEW B, NEW O, Lists(P, B, O), NEW q,
           \E X : Effect(q, P, B, O, X, {}, {})
    PROVE  Leads(t, q, P, B, O)
<1>1. Makes(q, P, B, O, P, B, O)
  BY DEF Effect, Makes
<1>2. ObjStep(t, O, O)
  BY DEF ObjStep
<1> QED BY <1>1, <1>2 DEF Leads

\* An unbound reference is unlocked.
LEMMA UnboundLeads ==
    ASSUME NEW t, NEW P, NEW B, NEW O, Lists(P, B, O), NEW x \in Refs, wr_obj[x] = Null, At(P, B, O, x)
    PROVE  Leads(t, <<Store(x, x :> Null, Same, Same)>>, P, B, O)
<1>1. P[x] = Null
  BY UnboundOut DEF At
<1>q. PICK q : q = <<Store(x, x :> Null, Same, Same)>>
  OBVIOUS
<1>2. Effect(q, P, B, O, {x}, {}, {})
  BY <1>1, <1>q, EffectLink
<1>3. Leads(t, q, P, B, O)
  BY <1>2, SameLeads
<1> QED BY <1>3, <1>q

\* Nothing but the lock of l changes.
LEMMA PlainLeads ==
    ASSUME NEW t, NEW P, NEW B, NEW O, Lists(P, B, O), NEW l
    PROVE  Leads(t, <<Store(l, Same, Same, Same)>>, P, B, O)
<1>q. PICK q : q = <<Store(l, Same, Same, Same)>>
  OBVIOUS
<1>2. Effect(q, P, B, O, {}, {}, {})
  BY <1>q, EffectPlain
<1>3. Leads(t, q, P, B, O)
  BY <1>2, SameLeads
<1> QED BY <1>3, <1>q

\* More stores that only unlock.
LEMMA LeadsThenPlain ==
    ASSUME NEW t, NEW P, NEW B, NEW O, NEW q, Leads(t, q, P, B, O), NEW l
    PROVE  Leads(t, q \o <<Store(l, Same, Same, Same)>>, P, B, O)
<1>1. PICK PP, BB, OO : Lists(PP, BB, OO) /\ Makes(q, P, B, O, PP, BB, OO) /\ ObjStep(t, O, OO)
  BY DEF Leads
<1>p. PICK p : p = <<Store(l, Same, Same, Same)>>
  OBVIOUS
<1>2. Effect(p, PP, BB, OO, {}, {}, {})
  BY <1>p, EffectPlain
<1>3. Effect(q, PP, BB, OO, Stored(q, "ptr"), Stored(q, "pself"), Stored(q, "obj"))
  BY <1>1 DEF Effect, Makes
<1>4. Effect(q \o p, PP, BB, OO, Stored(q, "ptr") \cup {}, Stored(q, "pself") \cup {}, Stored(q, "obj") \cup {})
  BY <1>2, <1>3, EffectThen
<1>5. /\ \A m \in Locs : PP[m] = P[m] \/ m \in Stored(q, "ptr") \cup {}
      /\ \A r \in Refs : BB[r] = B[r] \/ r \in Stored(q, "pself") \cup {}
      /\ \A r \in Refs : OO[r] = O[r] \/ r \in Stored(q, "obj") \cup {}
  BY <1>1 DEF Makes
<1>6. Makes(q \o p, P, B, O, PP, BB, OO)
  BY <1>4, <1>5, EffectMakes
<1> QED BY <1>1, <1>6, <1>p DEF Leads

-----------------------------------------------------------------------------
(* The lists that there will be once the stores under way are made *)

\* F is what the fields f at the locations D will be, when the threads at places p have made
\* the stores q and nobody does anything else.
ViewOf(f, D, F, cur, p, q) ==
    /\ \A t \in Threads : p[t] = "commit" => Sets(q[t], f, F)
    /\ \A l \in D : F[l] = cur[l] \/ \E t \in Threads : p[t] = "commit" /\ l \in Stored(q[t], f)

Viewed(P, B, O) == /\ ViewOf("ptr", Locs, P, ptr, pc, script)
                   /\ ViewOf("pself", Refs, B, wr_pself, pc, script)
                   /\ ViewOf("obj", Refs, O, wr_obj, pc, script)

\* Nobody begins or ends with stores.
LEMMA ViewSame ==
    ASSUME NEW f, NEW D, NEW F, NEW cur, NEW p, NEW q, NEW pp, NEW qq, ViewOf(f, D, F, cur, p, q),
           \A t \in Threads : pp[t] = "commit" <=> p[t] = "commit",
           \A t \in Threads : p[t] = "commit" => qq[t] = q[t]
    PROVE  ViewOf(f, D, F, cur, pp, qq)
BY DEF ViewOf

\* The thread t makes the next one of its stores.
Made(t, f, D, cur, p, q, now, pp, qq) ==
    /\ t \in Threads /\ p[t] = "commit" /\ q[t] \in Seq(Ranked(q[t])) /\ q[t] # <<>>
    /\ qq[t] = Tail(q[t]) /\ (pp[t] = "commit" \/ Tail(q[t]) = <<>>)
    /\ \A u \in Threads : u # t => pp[u] = p[u] /\ qq[u] = q[u]
    /\ \A l \in D : now[l] = IF l \in DOMAIN Head(q[t])[f] THEN Head(q[t])[f][l] ELSE cur[l]

\* The lists that there will be are the same after a store.
LEMMA ViewStore ==
    ASSUME NEW t, NEW f, NEW D, NEW F, NEW cur, NEW p, NEW q, NEW now, NEW pp, NEW qq,
           ViewOf(f, D, F, cur, p, q), Made(t, f, D, cur, p, q, now, pp, qq)
    PROVE  ViewOf(f, D, F, now, pp, qq)
<1> USE DEF Made
<1>s. PICK s : s = q[t]
  OBVIOUS
<1>r. PICK r : r = Tail(s)
  OBVIOUS
<1>1. /\ Len(s) \in Nat /\ Len(s) > 0 /\ r \in Seq(Ranked(s)) /\ Len(r) = Len(s) - 1 /\ Head(s) = s[1]
      /\ \A i \in 1 .. Len(r) : r[i] = s[i + 1]
  <2>1. s \in Seq(Ranked(s)) /\ s # <<>>
    BY <1>s
  <2>2. /\ Len(s) \in Nat /\ r \in Seq(Ranked(s)) /\ Len(r) = Len(s) - 1 /\ Head(s) = s[1]
        /\ \A i \in 1 .. Len(r) : r[i] = s[i + 1]
    BY <1>r, <2>1, HeadTailProperties
  <2>3. Len(r) \in Nat /\ Len(r) = Len(s) - 1 /\ Len(s) \in Nat
    BY <2>2
  <2>4. Len(s) > 0
    BY <2>3
  <2> QED BY <2>2, <2>4
<1>2. /\ 1 \in 1 .. Len(s)
      /\ \A i \in 1 .. Len(r) : i + 1 \in 1 .. Len(s)
      /\ \A i \in 1 .. Len(s) : i = 1 \/ \E j \in 1 .. Len(r) : i = j + 1
  <2>1. 1 \in 1 .. Len(s) /\ \A i \in 1 .. Len(r) : i + 1 \in 1 .. Len(s)
    BY <1>1
  <2>2. ASSUME NEW i \in 1 .. Len(s), i # 1 PROVE \E j \in 1 .. Len(r) : i = j + 1
    <3>1. i - 1 \in 1 .. Len(r) /\ i = (i - 1) + 1
      BY <1>1, <2>2
    <3> QED BY <3>1
  <2> QED BY <2>1, <2>2
<1>3. Sets(s, f, F)
  BY <1>s DEF ViewOf
<1>4. Sets(r, f, F) /\ \A l \in DOMAIN Head(s)[f] : F[l] = Head(s)[f][l]
  BY <1>1, <1>2, <1>3 DEF Sets
<1>5. \A l \in Stored(s, f) : l \in DOMAIN Head(s)[f] \/ l \in Stored(r, f)
  <2> SUFFICES ASSUME NEW l \in Stored(s, f) PROVE l \in DOMAIN Head(s)[f] \/ l \in Stored(r, f)
    OBVIOUS
  <2>1. PICK i \in 1 .. Len(s) : l \in DOMAIN s[i][f]
    BY DEF Stored
  <2>2. CASE i = 1
    BY <1>1, <2>1, <2>2
  <2>3. ASSUME NEW j \in 1 .. Len(r), i = j + 1 PROVE l \in Stored(r, f)
    <3>1. l \in DOMAIN r[j][f]
      BY <1>1, <2>1, <2>3
    <3> QED BY <3>1 DEF Stored
  <2> QED BY <1>2, <2>2, <2>3
<1>6. r = <<>> => \A l : l \notin Stored(r, f)
  BY DEF Stored
<1>7. \A u \in Threads : pp[u] = "commit" => Sets(qq[u], f, F)
  BY <1>s, <1>r, <1>4 DEF ViewOf
<1>8. ASSUME NEW l \in D PROVE now[l] = F[l] \/ \E u \in Threads : pp[u] = "commit" /\ l \in Stored(qq[u], f)
  <2>1. CASE l \in DOMAIN Head(s)[f]
    BY <1>s, <1>4, <2>1
  <2>2. CASE l \notin DOMAIN Head(s)[f]
    <3>1. now[l] = cur[l]
      BY <1>s, <2>2
    <3>2. CASE F[l] = cur[l]
      BY <3>1, <3>2
    <3>3. ASSUME NEW u \in Threads, p[u] = "commit", l \in Stored(q[u], f)
          PROVE  \E v \in Threads : pp[v] = "commit" /\ l \in Stored(qq[v], f)
      <4>1. CASE u # t
        BY <3>3, <4>1
      <4>2. CASE u = t
        <5>1. l \in Stored(r, f)
          BY <1>s, <1>5, <2>2, <3>3, <4>2
        <5>2. r # <<>>
          BY <1>6, <5>1
        <5> QED BY <1>s, <1>r, <5>1, <5>2
      <4> QED BY <4>1, <4>2
    <3> QED BY <3>2, <3>3 DEF ViewOf
  <2> QED BY <2>1, <2>2
<1> QED BY <1>7, <1>8 DEF ViewOf

\* A thread begins with its stores.
LEMMA ViewWrite ==
    ASSUME NEW f, NEW D, NEW F, NEW cur, NEW p, NEW q, NEW FF, NEW pp, NEW qq, NEW t \in Threads,
           ViewOf(f, D, F, cur, p, q), p[t] # "commit", pp[t] = "commit",
           \A u \in Threads : u # t => pp[u] = p[u] /\ qq[u] = q[u],
           Sets(qq[t], f, FF), \A l \in D : FF[l] = F[l] \/ l \in Stored(qq[t], f),
           \A u \in Threads : u # t /\ p[u] = "commit" =>
               \A l \in Stored(q[u], f) : l \in D /\ l \notin Stored(qq[t], f)
    PROVE  ViewOf(f, D, FF, cur, pp, qq)
<1>1. ASSUME NEW u \in Threads, pp[u] = "commit" PROVE Sets(qq[u], f, FF)
  <2>1. CASE u = t
    BY <2>1
  <2>2. CASE u # t
    <3>1. Sets(q[u], f, F) /\ qq[u] = q[u] /\ p[u] = "commit"
      BY <1>1, <2>2 DEF ViewOf
    <3>2. ASSUME NEW i \in 1 .. Len(q[u]), NEW l \in DOMAIN q[u][i][f] PROVE FF[l] = q[u][i][f][l]
      <4>1. l \in Stored(q[u], f)
        BY <3>2 DEF Stored
      <4>2. FF[l] = F[l]
        BY <2>2, <3>1, <4>1
      <4> QED BY <3>1, <3>2, <4>2 DEF Sets
    <3> QED BY <3>1, <3>2 DEF Sets
  <2> QED BY <2>1, <2>2
<1>2. ASSUME NEW l \in D PROVE FF[l] = cur[l] \/ \E u \in Threads : pp[u] = "commit" /\ l \in Stored(qq[u], f)
  <2>1. CASE l \in Stored(qq[t], f)
    BY <2>1
  <2>2. CASE FF[l] = F[l]
    <3>1. F[l] = cur[l] \/ \E u \in Threads : p[u] = "commit" /\ l \in Stored(q[u], f)
      BY DEF ViewOf
    <3> QED BY <2>2, <3>1
  <2> QED BY <2>1, <2>2
<1> QED BY <1>1, <1>2 DEF ViewOf

\* What t may write: what it has locked, and what it creates.
Mine(t, l) == l \in Locs /\ (owner[l] = t \/ (Starting(t) /\ l = op[t].self))

\* The stores that unlock a set of locations write only there.
LEMMA ClosesStored ==
    ASSUME NEW q, NEW S, NEW M, Closes(q, S, {}, M), Null \notin S, NEW f \in {"ptr", "pself", "obj"}
    PROVE  \A l \in Stored(q, f) : l \in S /\ l \in (IF f = "ptr" THEN Locs ELSE Refs)
<1> SUFFICES ASSUME NEW l \in Stored(q, f) PROVE l \in S /\ l \in (IF f = "ptr" THEN Locs ELSE Refs)
  OBVIOUS
<1>1. PICK i \in 1 .. Len(q) : l \in DOMAIN q[i][f]
  BY DEF Stored
<1>2. StoreOK(q[i], M) /\ \A m \in Writes(q[i]) : m \in {} \/ \E j \in i .. Len(q) : q[j].unlock = m
  BY DEF Closes
<1>3. l \in Writes(q[i])
  BY <1>1 DEF Writes
<1>4. l \in (IF f = "ptr" THEN Locs ELSE Refs)
  BY <1>1, <1>2 DEF StoreOK
<1>5. PICK j \in i .. Len(q) : q[j].unlock = l
  BY <1>2, <1>3
<1>6. j \in 1 .. Len(q)
  BY <1>5
<1>7. l \in S \cup {Null}
  BY <1>5, <1>6 DEF Closes
<1>8. l # Null
  BY <1>4, NullApart
<1> QED BY <1>4, <1>7, <1>8

\* Whatever a thread has left to store is its own.
LEMMA StoredMine ==
    ASSUME LockInv, NEW t \in Threads, pc[t] = "commit", NEW f \in {"ptr", "pself", "obj"}
    PROVE  \A l \in Stored(script[t], f) : Mine(t, l) /\ l \in (IF f = "ptr" THEN Locs ELSE Refs)
<1>q. PICK q : q = script[t]
  OBVIOUS
<1>h. PICK h : h = Ranked(held[t])
  OBVIOUS
<1>0. CommitOK(t) /\ HeldOK(t) /\ UseOK(t) /\ held[t] \in Seq(Locs)
  BY DEF LockInv, ThreadInv
<1>1. h \subseteq Locs /\ Null \notin h /\ \A l \in h : owner[l] = t
  BY <1>0, <1>h, RankedSeq, NullApart DEF HeldOK
<1>2. CASE ~Starting(t)
  <2>1. Closes(q, h, {}, Known(t))
    BY <1>0, <1>2, <1>q, <1>h DEF CommitOK
  <2>2. \A l \in Stored(q, f) : l \in h /\ l \in (IF f = "ptr" THEN Locs ELSE Refs)
    BY <1>1, <2>1, ClosesStored
  <2> QED BY <1>1, <1>q, <2>2 DEF Mine
<1>3. CASE Starting(t)
  <2>1. Opens(q, op[t].self, h, Known(t)) /\ op[t].kind \in Creating
    BY <1>0, <1>3, <1>q, <1>h DEF CommitOK, Starting
  <2>2. op[t].self \in Refs /\ op[t].self \in Locs
    BY <1>0, <2>1, NullApart DEF UseOK, CallOK, Creating
  <2>r. PICK r : r = Tail(q)
    OBVIOUS
  <2>3. Closes(r, h, {}, Known(t)) /\ Writes(Head(q)) = {op[t].self} /\ q \in Seq(Ranked(q)) /\ q # <<>>
    BY <2>1, <2>r DEF Opens
  <2>4. \A l \in Stored(r, f) : l \in h /\ l \in (IF f = "ptr" THEN Locs ELSE Refs)
    BY <1>1, <2>3, ClosesStored
  <2>5. /\ Len(q) \in Nat /\ Len(r) = Len(q) - 1 /\ Head(q) = q[1]
        /\ \A i \in 1 .. Len(r) : r[i] = q[i + 1]
    BY <2>3, <2>r, HeadTailProperties
  <2> SUFFICES ASSUME NEW l \in Stored(q, f)
               PROVE  Mine(t, l) /\ l \in (IF f = "ptr" THEN Locs ELSE Refs)
    BY <1>q
  <2>6. PICK i \in 1 .. Len(q) : l \in DOMAIN q[i][f]
    BY DEF Stored
  <2>7. CASE i = 1
    <3>1. l \in Writes(Head(q))
      BY <2>5, <2>6, <2>7 DEF Writes
    <3> QED BY <1>3, <2>2, <2>3, <3>1 DEF Mine
  <2>8. CASE i # 1
    <3>1. PICK j \in 1 .. Len(r) : i = j + 1
      <4>1. i - 1 \in 1 .. Len(r) /\ i = (i - 1) + 1
        BY <2>5, <2>8
      <4> QED BY <4>1
    <3>2. l \in DOMAIN r[j][f]
      BY <2>5, <2>6, <3>1
    <3>3. l \in Stored(r, f)
      BY <3>2 DEF Stored
    <3> QED BY <1>1, <2>4, <3>3 DEF Mine
  <2> QED BY <2>7, <2>8
<1> QED BY <1>2, <1>3

\* What a thread is about to create has not been seen.
LEMMA StartingHidden ==
    ASSUME LockInv, NEW t \in Threads, Starting(t)
    PROVE  Hidden(op[t].self) /\ op[t].self \in Refs /\ owner[op[t].self] = Free
<1>0. UseOK(t) /\ HiddenInv
  BY DEF LockInv
<1>1. CallOK(t) /\ Creates(t) /\ op[t].kind \in Creating
  BY <1>0 DEF UseOK, Starting
<1>2. op[t].self \in Refs /\ life[op[t].self] = "new"
  BY <1>1 DEF CallOK, Creating
<1>3. \A u \in Threads : u # t /\ pc[u] # "idle" => op[t].self # op[u].self
  BY <1>1, <1>2 DEF Creates
<1>4. Hidden(op[t].self)
  BY <1>2, <1>3 DEF Hidden
<1> QED BY <1>0, <1>2, <1>4 DEF HiddenInv

\* Nothing belongs to two threads.
LEMMA MineApart ==
    ASSUME LockInv, NEW t \in Threads, NEW u \in Threads, t # u, NEW l, Mine(t, l), Mine(u, l),
           pc[t] = "commit", pc[u] = "commit"
    PROVE  FALSE
<1>1. \A v \in Threads : Starting(v) => op[v].self \in Refs /\ owner[op[v].self] = Free
  BY StartingHidden
<1>2. CASE owner[l] = t \/ owner[l] = u
  BY <1>1, <1>2, DistinctAssumption DEF Mine
<1>3. CASE Starting(t) /\ Starting(u) /\ op[t].self = l /\ op[u].self = l
  <2>1. Hidden(l) /\ l \in Refs /\ Creates(t)
    BY <1>3, StartingHidden DEF LockInv, UseOK
  <2> QED BY <1>3, <2>1 DEF Hidden, Creates
<1> QED BY <1>2, <1>3 DEF Mine

\* The threads write to different places.
Apart == \A t, u \in Threads : pc[t] = "commit" /\ pc[u] = "commit" /\ t # u =>
    \A f \in {"ptr", "pself", "obj"} : \A l : ~(l \in Stored(script[t], f) /\ l \in Stored(script[u], f))

\* Each thread writes only what is its own.
LEMMA StoredApart == LockInv => Apart
BY StoredMine, MineApart DEF Apart

\* The same after a step.
LEMMA StoredApartNext == LockInv' => Apart'
BY StoredApart, PTL

\* What no thread is writing is in the lists to come as it is.
LEMMA AtRest ==
    ASSUME LockInv, NEW P, NEW B, NEW O, Viewed(P, B, O), NEW l \in Locs,
           \A u \in Threads : pc[u] = "commit" => ~Mine(u, l)
    PROVE  At(P, B, O, l)
<1>1. \A f \in {"ptr", "pself", "obj"} : \A u \in Threads : pc[u] = "commit" => l \notin Stored(script[u], f)
  BY StoredMine
<1>2. P[l] = ptr[l]
  BY <1>1 DEF Viewed, ViewOf
<1>3. l \in Refs => B[l] = wr_pself[l] /\ O[l] = wr_obj[l]
  BY <1>1 DEF Viewed, ViewOf
<1> QED BY <1>2, <1>3 DEF At

\* What has been seen and is not locked.
LEMMA AtSeen ==
    ASSUME LockInv, NEW P, NEW B, NEW O, Viewed(P, B, O), NEW l \in Locs, owner[l] = Free, l \in Seen
    PROVE  At(P, B, O, l)
<1>1. ASSUME NEW u \in Threads, Mine(u, l) PROVE FALSE
  <2>1. Starting(u) /\ l = op[u].self
    BY <1>1, DistinctAssumption DEF Mine
  <2> QED BY <2>1, StartingHidden DEF Seen
<1> QED BY <1>1, AtRest

\* What is locked by a thread that does not write.
LEMMA AtHeld ==
    ASSUME LockInv, NEW P, NEW B, NEW O, Viewed(P, B, O), NEW l \in Locs, NEW t \in Threads,
           owner[l] = t, pc[t] # "commit"
    PROVE  At(P, B, O, l)
<1>1. ASSUME NEW u \in Threads, pc[u] = "commit", Mine(u, l) PROVE FALSE
  <2>1. Starting(u) /\ l = op[u].self
    BY <1>1 DEF Mine
  <2> QED BY <2>1, StartingHidden, DistinctAssumption
<1> QED BY <1>1, AtRest

-----------------------------------------------------------------------------
(* The inductive invariant about lists *)

\* Nobody has begun to write the reference r, which is new.
Fresh(r) == life[r] = "new" /\ \A t \in Threads : pc[t] = "commit" => op[t].self # r

\* P, B and O are the lists that there will be, in which nothing is bound to what is freed.
ViewOK(P, B, O) == /\ Lists(P, B, O) /\ Viewed(P, B, O)
                   /\ \A r \in Refs : O[r] \notin freed
                   /\ \A r \in Refs : Fresh(r) => O[r] = Null

ViewInv == \E P, B, O : ViewOK(P, B, O)

\* The destruction of an object ends when its list is empty.
Destroys(t) ==
    /\ op[t].ob \notin freed
    /\ \A u \in Threads : u # t /\ pc[u] # "idle" /\ op[u].kind = "destroy" => op[u].ob # op[t].ob
    /\ pc[t] = "release" => after[t] # "return"
    /\ pc[t] = "commit" /\ after[t] = "return" =>
         script[t] = <<Store(op[t].ob, Same, Same, Same)>> /\ ptr[op[t].ob] = Null

\* What is bound, or destroyed, is not freed yet.
FreedOK(t) == pc[t] # "idle" =>
    /\ op[t].kind \in Binding => Root \in refs[op[t].ob]
    /\ op[t].kind = "destroy" => Destroys(t)
    /\ pc[t] = "use" => op[t].kind = "lock" /\ owner[op[t].self] = t

\* What is freed is gone for good.
FreedInv == /\ \A o \in freed : refs[o] = {} /\ owner[o] = Free
            /\ \A t \in Threads : FreedOK(t)

\* Nobody begins or ends with stores.
LEMMA ViewQuiet ==
    ASSUME NEW P, NEW B, NEW O, ViewOK(P, B, O), UNCHANGED fields,
           \A u \in Threads : pc'[u] = "commit" <=> pc[u] = "commit",
           \A u \in Threads : pc[u] = "commit" => script'[u] = script[u] /\ op'[u] = op[u],
           \A r \in Refs : life'[r] = "new" => life[r] = "new",
           \A r \in Refs : O[r] \notin freed'
    PROVE  ViewOK(P, B, O)'
<1>1. Viewed(P, B, O) /\ ptr' = ptr /\ wr_pself' = wr_pself /\ wr_obj' = wr_obj
  BY DEF ViewOK, fields
<1>2. ASSUME NEW f, NEW D, NEW F, NEW cur, ViewOf(f, D, F, cur, pc, script)
      PROVE  ViewOf(f, D, F, cur, pc', script')
  BY <1>2, ViewSame
<1>3. Viewed(P, B, O)'
  <2>1. /\ ViewOf("ptr", Locs, P, ptr, pc', script')
        /\ ViewOf("pself", Refs, B, wr_pself, pc', script')
        /\ ViewOf("obj", Refs, O, wr_obj, pc', script')
    BY <1>1, <1>2 DEF Viewed
  <2> QED BY <1>1, <2>1 DEF Viewed, ViewOf, Sets, Stored
<1>4. \A r \in Refs : Fresh(r)' => Fresh(r)
  BY DEF Fresh
<1>5. Lists(P, B, O)'
  BY DEF ViewOK, Lists, Of, Closed
<1> QED BY <1>3, <1>4, <1>5 DEF ViewOK

\* A step of a thread that neither begins nor makes stores, and frees nothing.
LEMMA QuietView ==
    ASSUME NEW P, NEW B, NEW O, ViewOK(P, B, O), NEW t \in Threads, UNCHANGED fields, Others(t),
           pc[t] # "commit", pc'[t] # "commit", \A r \in Refs : life'[r] = "new" => life[r] = "new",
           \A r \in Refs : O[r] \notin freed'
    PROVE  ViewOK(P, B, O)'
<1>1. \A u \in Threads : pc'[u] = "commit" <=> pc[u] = "commit"
  BY DEF Others
<1>2. \A u \in Threads : pc[u] = "commit" => script'[u] = script[u] /\ op'[u] = op[u]
  BY DEF Others
<1> QED BY <1>1, <1>2, ViewQuiet

\* What is stored belongs to the fields.
Fits == \A t \in Threads : pc[t] = "commit" =>
    \A f \in {"ptr", "pself", "obj"} : \A l \in Stored(script[t], f) : l \in (IF f = "ptr" THEN Locs ELSE Refs)

\* Each kind of field is written where there is one.
LEMMA StoredFits == LockInv => Fits
BY StoredMine DEF Fits

\* A thread begins with stores that lead to other lists.
LEMMA WriteView ==
    ASSUME LockInv, LockInv', NEW P, NEW B, NEW O, ViewOK(P, B, O), NEW t \in Threads,
           pc[t] # "commit", pc'[t] = "commit", Others(t), UNCHANGED <<fields, life, object>>,
           op'[t].self = op[t].self, Leads(t, script'[t], P, B, O),
           op[t].kind \in Binding => op[t].ob \notin freed
    PROVE  ViewInv'
<1>q. PICK q : q = script'[t]
  OBVIOUS
<1>1. PICK PP, BB, OO : Lists(PP, BB, OO) /\ Makes(q, P, B, O, PP, BB, OO) /\ ObjStep(t, O, OO)
  BY <1>q DEF Leads
<1>2. ptr' = ptr /\ wr_pself' = wr_pself /\ wr_obj' = wr_obj /\ life' = life /\ freed' = freed
  BY DEF fields, object
<1>3. \A u \in Threads : u # t => pc'[u] = pc[u] /\ script'[u] = script[u] /\ op'[u] = op[u]
  BY DEF Others
<1>4. ASSUME NEW u \in Threads, u # t, pc[u] = "commit", NEW f \in {"ptr", "pself", "obj"},
             NEW l \in Stored(script[u], f)
      PROVE  l \notin Stored(q, f) /\ l \in (IF f = "ptr" THEN Locs ELSE Refs)
  <2>1. l \in (IF f = "ptr" THEN Locs ELSE Refs)
    BY <1>4, StoredFits DEF Fits
  <2>2. Apart'
    BY StoredApartNext
  <2>3. \A m : ~(m \in Stored(script'[u], f) /\ m \in Stored(script'[t], f))
    <3>1. pc'[u] = "commit" /\ pc'[t] = "commit"
      BY <1>3, <1>4
    <3>2. \A m : ~(m \in Stored(script[u], f)' /\ m \in Stored(script[t], f)')
      BY <1>4, <2>2, <3>1 DEF Apart
    <3>3. Stored(script[u], f)' = Stored(script'[u], f) /\ Stored(script[t], f)' = Stored(script'[t], f)
      BY DEF Stored
    <3> QED BY <3>2, <3>3
  <2>4. script'[u] = script[u]
    BY <1>3, <1>4
  <2> QED BY <1>q, <1>4, <2>1, <2>3, <2>4
<1>5. ASSUME NEW f \in {"ptr", "pself", "obj"}, NEW D, NEW F, NEW cur, NEW FF,
             ViewOf(f, D, F, cur, pc, script), D = (IF f = "ptr" THEN Locs ELSE Refs), Sets(q, f, FF),
             \A l \in D : FF[l] = F[l] \/ l \in Stored(q, f)
      PROVE  ViewOf(f, D, FF, cur, pc', script')
  <2>p. PICK pp, qq : pp = pc' /\ qq = script'
    OBVIOUS
  <2>1. \A u \in Threads : u # t /\ pc[u] = "commit" =>
            \A l \in Stored(script[u], f) : l \in D /\ l \notin Stored(qq[t], f)
    BY <1>4, <1>5, <1>q, <2>p
  <2>2. Sets(qq[t], f, FF) /\ \A l \in D : FF[l] = F[l] \/ l \in Stored(qq[t], f)
    BY <1>5, <1>q, <2>p
  <2>3. /\ \A u \in Threads : u # t => pp[u] = pc[u] /\ qq[u] = script[u]
        /\ pp[t] = "commit" /\ pc[t] # "commit"
    BY <1>3, <2>p
  <2>4. ViewOf(f, D, FF, cur, pp, qq)
    BY <1>5, <2>1, <2>2, <2>3, ViewWrite
  <2> QED BY <2>p, <2>4
<1>6. Viewed(PP, BB, OO)'
  <2>0. Viewed(P, B, O)
    BY DEF ViewOK
  <2>1. ViewOf("ptr", Locs, PP, ptr, pc', script')
    BY <1>1, <1>5, <2>0 DEF Makes, Viewed
  <2>2. ViewOf("pself", Refs, BB, wr_pself, pc', script')
    BY <1>1, <1>5, <2>0 DEF Makes, Viewed
  <2>3. ViewOf("obj", Refs, OO, wr_obj, pc', script')
    BY <1>1, <1>5, <2>0 DEF Makes, Viewed
  <2> QED BY <1>2, <2>1, <2>2, <2>3 DEF Viewed, ViewOf, Sets, Stored
<1>7. Lists(PP, BB, OO)'
  BY <1>1 DEF Lists, Of, Closed
<1>8. freed \subseteq Objs
  BY DEF LockInv, ThreadInv
<1>9. \A r \in Refs : OO[r] \notin freed
  BY <1>1, <1>8, NullApart DEF ObjStep, ViewOK
<1>10. ASSUME NEW r \in Refs, Fresh(r)' PROVE OO[r] = Null
  <2>1. Fresh(r) /\ r # op[t].self
    BY <1>2, <1>3, <1>10 DEF Fresh
  <2>2. O[r] = Null
    BY <2>1 DEF ViewOK
  <2> QED BY <1>1, <2>1, <2>2 DEF ObjStep
<1>11. ViewOK(PP, BB, OO)'
  BY <1>2, <1>6, <1>7, <1>9, <1>10 DEF ViewOK
<1> QED BY <1>11 DEF ViewInv

-----------------------------------------------------------------------------
(* A thread makes its stores *)

\* What is left of the destruction of an object whose list is empty.
LEMMA LastStore ==
    ASSUME LockInv, FreedInv, NEW t \in Threads, pc[t] = "commit", op[t].kind = "destroy",
           after[t] = "return"
    PROVE  /\ op[t].ob \in Objs /\ owner[op[t].ob] = t /\ ptr[op[t].ob] = Null
           /\ Head(script[t]) = Store(op[t].ob, Same, Same, Same) /\ Tail(script[t]) = <<>>
           /\ \A f \in {"ptr", "pself", "obj"} : \A l : l \notin Stored(script[t], f)
<1>q. PICK q : q = script[t]
  OBVIOUS
<1>0. CallInv /\ CommitOK(t) /\ HeldOK(t) /\ op[t].ob \in Objs /\ op[t].ob \in Locs
  BY NullApart DEF LockInv, CallInv
<1>1. q = <<Store(op[t].ob, Same, Same, Same)>> /\ ptr[op[t].ob] = Null
  BY <1>q DEF FreedInv, FreedOK, Destroys
<1>2. ~Starting(t)
  BY DEF Starting, Creating
<1>3. Closes(q, Ranked(held[t]), {}, Known(t))
  BY <1>0, <1>2, <1>q DEF CommitOK
<1>4. Len(q) = 1 /\ q[1] = Store(op[t].ob, Same, Same, Same) /\ Head(q) = q[1] /\ Tail(q) = <<>>
  BY <1>1
<1>5. q[1].unlock = op[t].ob /\ q[1].ptr = <<>> /\ q[1].pself = <<>> /\ q[1].obj = <<>>
  BY <1>4, StoreParts DEF Same
<1>6. op[t].ob \in Ranked(held[t])
  <2>1. q[1].unlock \in Ranked(held[t]) \cup {Null}
    BY <1>3, <1>4 DEF Closes
  <2> QED BY <1>0, <1>5, <2>1, NullApart
<1>7. owner[op[t].ob] = t
  BY <1>0, <1>6 DEF HeldOK
<1>8. \A f \in {"ptr", "pself", "obj"} : DOMAIN q[1][f] = {}
  BY <1>5
<1>9. \A f \in {"ptr", "pself", "obj"} : \A l : l \notin Stored(q, f)
  BY <1>4, <1>8 DEF Stored
<1> QED BY <1>0, <1>1, <1>4, <1>7, <1>9, <1>q

\* Nothing is bound to an object whose list is found empty.
LEMMA NothingBound ==
    ASSUME LockInv, NEW P, NEW B, NEW O, ViewOK(P, B, O), NEW o \in Objs, ptr[o] = Null,
           \A u \in Threads : pc[u] = "commit" => o \notin Stored(script[u], "ptr")
    PROVE  \A r \in Refs : O[r] # o
<1>1. P[o] = Null
  BY NullApart DEF ViewOK, Viewed, ViewOf
<1> QED BY <1>1, EmptyList DEF ViewOK

\* The next store is made: the lists to come are what they were.
LEMMA CommitView ==
    ASSUME LockInv, FreedInv, NEW P, NEW B, NEW O, ViewOK(P, B, O), NEW t \in Threads, Commit(t)
    PROVE  ViewOK(P, B, O)'
<1> DEFINE s == Head(script[t])
<1>r. PICK rest : rest = Tail(script[t])
  OBVIOUS
<1>0. FieldInv /\ ThreadInv /\ CallInv /\ CommitOK(t) /\ UseOK(t)
  BY DEF LockInv
<1>1. /\ pc[t] = "commit" /\ ptr' = s.ptr @@ ptr /\ wr_pself' = s.pself @@ wr_pself
      /\ wr_obj' = s.obj @@ wr_obj /\ script' = [script EXCEPT ![t] = rest]
      /\ IF rest # <<>> THEN UNCHANGED <<pc, op, life, freed, stage, after>>
         ELSE IF after[t] = "return" THEN Return(t) ELSE Again(t)
  BY <1>r DEF Commit
<1>2. StoreOK(s, Known(t))
  BY <1>1, NextStore
<1>3. /\ \A l \in Locs : ptr'[l] = IF l \in DOMAIN s.ptr THEN s.ptr[l] ELSE ptr[l]
      /\ \A r \in Refs : wr_pself'[r] = IF r \in DOMAIN s.pself THEN s.pself[r] ELSE wr_pself[r]
      /\ \A r \in Refs : wr_obj'[r] = IF r \in DOMAIN s.obj THEN s.obj[r] ELSE wr_obj[r]
  <2> HIDE DEF s
  <2> QED BY <1>0, <1>1, <1>2, FieldsStored
<1>4. script[t] \in Seq(Ranked(script[t])) /\ script[t] # <<>>
  BY <1>0, <1>1 DEF CommitOK, Opens, Closes
<1>5. /\ script'[t] = rest /\ (pc'[t] = "commit" \/ rest = <<>>) /\ (rest = <<>> => pc'[t] # "commit")
      /\ \A u \in Threads : u # t => pc'[u] = pc[u] /\ script'[u] = script[u] /\ op'[u] = op[u]
  BY <1>0, <1>1 DEF CallInv, ThreadInv, Return, Again, Goto, Entry
<1>6. ASSUME NEW f, NEW D, NEW F, NEW cur, NEW now, ViewOf(f, D, F, cur, pc, script),
             \A l \in D : now[l] = IF l \in DOMAIN s[f] THEN s[f][l] ELSE cur[l]
      PROVE  ViewOf(f, D, F, now, pc', script')
  <2>p. PICK p, q, pp, qq : p = pc /\ q = script /\ pp = pc' /\ qq = script'
    OBVIOUS
  <2>1. ViewOf(f, D, F, cur, p, q) /\ Made(t, f, D, cur, p, q, now, pp, qq)
    BY <1>r, <1>1, <1>4, <1>5, <1>6, <2>p DEF Made
  <2>2. ViewOf(f, D, F, now, pp, qq)
    BY <2>1, ViewStore
  <2> QED BY <2>p, <2>2
<1>7. Viewed(P, B, O)'
  <2>0. Viewed(P, B, O)
    BY DEF ViewOK
  <2>a. s.ptr = s["ptr"] /\ s.pself = s["pself"] /\ s.obj = s["obj"]
    OBVIOUS
  <2> HIDE DEF s
  <2>n. PICK np, nb, no : np = ptr' /\ nb = wr_pself' /\ no = wr_obj'
    OBVIOUS
  <2>1. ViewOf("ptr", Locs, P, np, pc', script')
    BY <1>3, <1>6, <2>0, <2>a, <2>n DEF Viewed
  <2>2. ViewOf("pself", Refs, B, nb, pc', script')
    BY <1>3, <1>6, <2>0, <2>a, <2>n DEF Viewed
  <2>3. ViewOf("obj", Refs, O, no, pc', script')
    BY <1>3, <1>6, <2>0, <2>a, <2>n DEF Viewed
  <2> QED BY <2>n, <2>1, <2>2, <2>3 DEF Viewed, ViewOf, Sets, Stored
<1>8. ASSUME NEW r \in Refs, Fresh(r)' PROVE Fresh(r)
  <2>1. CASE rest # <<>>
    BY <1>1, <1>8, <2>1 DEF Fresh
  <2>2. CASE rest = <<>>
    <3>1. life'[r] = "new" /\ \A u \in Threads : u # t /\ pc[u] = "commit" => op[u].self # r
      BY <1>5, <1>8 DEF Fresh
    <3>2. life[r] = "new" /\ (r = op[t].self => op[t].kind \notin Creating \/ after[t] # "return")
      BY <1>0, <1>1, <2>2, <3>1 DEF Return, Again, FieldInv, Creating
    <3>3. op[t].kind \in Creating => after[t] = "return"
      BY <1>0, <1>1 DEF CommitOK
    <3>4. r # op[t].self
      BY <1>0, <1>1, <3>2, <3>3 DEF UseOK, Creates
    <3> QED BY <3>1, <3>2, <3>4 DEF Fresh
  <2> QED BY <2>1, <2>2
<1>9. ASSUME NEW r \in Refs PROVE O[r] \notin freed'
  <2>1. O[r] \notin freed
    BY DEF ViewOK
  <2>2. CASE freed' = freed
    BY <2>1, <2>2
  <2>3. CASE freed' # freed
    <3>1. rest = <<>> /\ after[t] = "return" /\ op[t].kind = "destroy" /\ freed' = freed \cup {op[t].ob}
      BY <1>1, <2>3 DEF Return, Again
    <3>2. /\ op[t].ob \in Objs /\ owner[op[t].ob] = t /\ ptr[op[t].ob] = Null
          /\ op[t].ob \notin Stored(script[t], "ptr")
      BY <1>1, <3>1, LastStore
    <3>3. ASSUME NEW u \in Threads, u # t, pc[u] = "commit", op[t].ob \in Stored(script[u], "ptr") PROVE FALSE
      <4>1. Mine(u, op[t].ob)
        BY <3>3, StoredMine
      <4>2. Mine(t, op[t].ob)
        BY <3>2, NullApart DEF Mine
      <4> QED BY <1>1, <3>3, <4>1, <4>2, MineApart
    <3>4. O[r] # op[t].ob
      BY <3>2, <3>3, NothingBound
    <3> QED BY <2>1, <3>1, <3>4
  <2> QED BY <2>2, <2>3
<1>10. Lists(P, B, O)'
  BY DEF ViewOK, Lists, Of, Closed
<1>11. \A r \in Refs : Fresh(r)' => O[r] = Null
  BY <1>8 DEF ViewOK
<1> QED BY <1>7, <1>9, <1>10, <1>11 DEF ViewOK

-----------------------------------------------------------------------------
(* A thread takes its locks *)

\* What a function does next, once it has got a lock or has been refused it.
Way(t) ==
    \/ \E q, label : Write(t, q, label)
    \/ \E label : BackOff(t, label)
    \/ /\ op[t].kind = "lock" /\ Plan[op[t].kind][stage[t]] = "self"
       /\ Goto(t, "use") /\ UNCHANGED <<stage, script, after, op>>
    \/ \E m : stage' = [stage EXCEPT ![t] = m] /\ UNCHANGED <<pc, script, after, op>>
    \/ /\ Plan[op[t].kind][stage[t]] = "other" /\ op[t].kind # "copy"
       /\ \E q, label : script' = [script EXCEPT ![t] = q] /\ after' = [after EXCEPT ![t] = label]
       /\ op' = [op EXCEPT ![t].kind = "clear", ![t].other = Null]
       /\ Goto(t, "commit") /\ UNCHANGED stage

\* A step of a function that takes its locks.
LEMMA AcquireWays ==
    ASSUME NEW t, Acquire(t)
    PROVE  /\ pc[t] = "acquire" /\ UNCHANGED <<fields, life, object>>
           /\ \/ UNCHANGED <<owner, held>>
              \/ /\ owner[Lock(t, stage[t])] = Free /\ owner' = [owner EXCEPT ![Lock(t, stage[t])] = t]
                 /\ held' = [held EXCEPT ![t] = Append(@, Lock(t, stage[t]))]
           /\ Way(t)
<1> DEFINE what == Plan[op[t].kind][stage[t]]
<1>1. /\ pc[t] = "acquire" /\ UNCHANGED <<fields, life, object>>
      /\ \/ /\ owner[Lock(t, stage[t])] = Free
            /\ owner' = [owner EXCEPT ![Lock(t, stage[t])] = t]
            /\ held' = [held EXCEPT ![t] = Append(@, Lock(t, stage[t]))]
            /\ Got(t, what)
         \/ Refused(t, what) /\ UNCHANGED <<owner, held>>
  BY DEF Acquire, Lock
<1>2. Refused(t, what) => Way(t)
  BY DEF Way, Refused
<1>3. Proceed(t) => Way(t)
  BY DEF Way, Proceed, ProceedLooping
<1>4. Got(t, what) => Way(t)
  <2> HIDE DEF what
  <2> SUFFICES ASSUME Got(t, what) PROVE Way(t)
    OBVIOUS
  <2>1. CASE what = "other" /\ wr_obj[op[t].other] = Null
    <3>1. /\ Goto(t, "commit")
          /\ script' = [script EXCEPT ![t] = <<Store(op[t].other, op[t].other :> Null, Same, Same)>>]
          /\ IF op[t].kind = "copy" THEN UNCHANGED op /\ after' = [after EXCEPT ![t] = "return"]
             ELSE /\ op' = [op EXCEPT ![t].kind = "clear", ![t].other = Null]
                  /\ after' = [after EXCEPT ![t] = "check"]
          /\ UNCHANGED stage
      BY <2>1 DEF Got
    <3>2. CASE op[t].kind = "copy"
      BY <3>1, <3>2 DEF Write, Way
    <3>3. CASE op[t].kind # "copy"
      BY <2>1, <3>1, <3>3 DEF Way, what
    <3> QED BY <3>2, <3>3
  <2>2. CASE ~(what = "other" /\ wr_obj[op[t].other] = Null)
    <3>1. \/ \E q, label : Write(t, q, label)
          \/ \E label : BackOff(t, label)
          \/ op[t].kind = "lock" /\ what = "self" /\ Goto(t, "use") /\ UNCHANGED <<stage, script, after, op>>
          \/ Proceed(t)
      BY <2>2 DEF Got
    <3> QED BY <1>3, <3>1 DEF Way, what
  <2> QED BY <2>1, <2>2
<1> QED BY <1>1, <1>2, <1>4

\* A thread that takes its locks leaves the others alone.
LEMMA AcquireOthers ==
    ASSUME LockInv, NEW t \in Threads, Acquire(t)
    PROVE  /\ Others(t)
           /\ op'[t] = op[t] \/ (op'[t] = Cleared(op[t]) /\ op[t].kind \in Binary \ Creating)
           /\ op'[t].self = op[t].self
<1>0. /\ CallInv /\ ThreadInv /\ PlanOK(t) /\ op[t] \in CallTypes /\ pc[t] = "acquire"
  BY AcquireWays DEF LockInv, CallInv
<1>1. \A u \in Threads : u # t => held'[u] = held[u]
  <2>1. UNCHANGED held \/ held' = [held EXCEPT ![t] = Append(@, Lock(t, stage[t]))]
    BY AcquireWays
  <2> QED BY <1>0, <2>1 DEF ThreadInv
<1>2. \/ UNCHANGED op
      \/ op' = [op EXCEPT ![t] = Cleared(@)] /\ op[t].kind \in Binary \ Creating
  <2>1. CASE /\ Plan[op[t].kind][stage[t]] = "other" /\ op[t].kind # "copy"
             /\ op' = [op EXCEPT ![t].kind = "clear", ![t].other = Null]
    <3>1. op' = [op EXCEPT ![t] = Cleared(@)]
      BY <1>0, <2>1 DEF CallInv, CallTypes, Cleared
    <3>2. op[t].kind \in Kinds \cup {"destroy"} /\ stage[t] \in 1 .. Len(Plan[op[t].kind])
      BY <1>0 DEF PlanOK, CallTypes
    <3>3. op[t].kind \in Binary
      BY <2>1, <3>2, Guarded
    <3> QED BY <2>1, <3>1, <3>3 DEF Creating, Binary
  <2> QED BY <2>1, AcquireWays DEF Way, Write, BackOff
<1>3. /\ \A u \in Threads : u # t => op'[u] = op[u]
      /\ op'[t] = op[t] \/ (op'[t] = Cleared(op[t]) /\ op[t].kind \in Binary \ Creating)
      /\ op'[t].self = op[t].self
  BY <1>0, <1>2 DEF CallInv, Cleared, CallTypes
<1>4. \A u \in Threads : u # t =>
        pc'[u] = pc[u] /\ stage'[u] = stage[u] /\ script'[u] = script[u] /\ after'[u] = after[u]
  <2>1. /\ pc' = pc \/ \E place : pc' = [pc EXCEPT ![t] = place]
        /\ stage' = stage \/ \E m : stage' = [stage EXCEPT ![t] = m]
        /\ script' = script \/ \E q : script' = [script EXCEPT ![t] = q]
        /\ after' = after \/ \E label : after' = [after EXCEPT ![t] = label]
    <3>1. CASE \E q, label : Write(t, q, label)
      BY <3>1 DEF Write, Goto
    <3>2. CASE \E label : BackOff(t, label)
      BY <3>2 DEF BackOff, Goto
    <3>3. CASE Goto(t, "use") /\ UNCHANGED <<stage, script, after, op>>
      BY <3>3 DEF Goto
    <3>4. CASE \E m : stage' = [stage EXCEPT ![t] = m] /\ UNCHANGED <<pc, script, after, op>>
      BY <3>4
    <3>5. CASE /\ Goto(t, "commit") /\ UNCHANGED stage
               /\ \E q, label : script' = [script EXCEPT ![t] = q] /\ after' = [after EXCEPT ![t] = label]
      BY <3>5 DEF Goto
    <3>6. Way(t)
      BY AcquireWays
    <3>7. \/ \E q, label : Write(t, q, label)
          \/ \E label : BackOff(t, label)
          \/ Goto(t, "use") /\ UNCHANGED <<stage, script, after, op>>
          \/ \E m : stage' = [stage EXCEPT ![t] = m] /\ UNCHANGED <<pc, script, after, op>>
          \/ /\ Goto(t, "commit") /\ UNCHANGED stage
             /\ \E q, label : script' = [script EXCEPT ![t] = q] /\ after' = [after EXCEPT ![t] = label]
      BY <3>6 DEF Way
    <3> QED BY <3>1, <3>2, <3>3, <3>4, <3>5, <3>7
  <2>2. \A u \in Threads : u # t => pc'[u] = pc[u]
    BY <1>0, <2>1 DEF CallInv
  <2>3. \A u \in Threads : u # t => stage'[u] = stage[u]
    BY <1>0, <2>1 DEF ThreadInv
  <2>4. \A u \in Threads : u # t => script'[u] = script[u] /\ after'[u] = after[u]
    BY <1>0, <2>1 DEF ThreadInv
  <2> QED BY <2>2, <2>3, <2>4
<1> QED BY <1>1, <1>3, <1>4 DEF Others

\* What a function has got the locks of is in the lists to come as it is.
LEMMA GotAt ==
    ASSUME LockInv, NEW P, NEW B, NEW O, Viewed(P, B, O), NEW t \in Threads, pc[t] = "acquire",
           owner[Lock(t, stage[t])] = Free
    PROVE  \A l \in Locks(t, stage[t]) : At(P, B, O, l)
<1> DEFINE m == Lock(t, stage[t])
           g == Append(held[t], m)
<1>1. /\ m \in Locs /\ m \in Seen /\ g \in Seq(Locs) /\ Ranked(g) = Locks(t, stage[t])
      /\ \A l \in Locs : (l = m \/ owner[l] = t) <=> l \in Ranked(g)
  BY LockGot
<1>2. Ranked(g) \subseteq Locs
  BY <1>1, RankedSeq
<1>3. At(P, B, O, m)
  BY <1>1, AtSeen
<1>4. \A l \in Locs : owner[l] = t => At(P, B, O, l)
  BY AtHeld
<1> HIDE DEF m, g
<1> QED BY <1>1, <1>2, <1>3, <1>4

\* What is about to be created is unbound.
LEMMA CreatedUnbound ==
    ASSUME LockInv, NEW P, NEW B, NEW O, ViewOK(P, B, O), NEW t \in Threads, pc[t] = "acquire",
           op[t].kind \in Creating
    PROVE  O[op[t].self] = Null
<1>1. CallOK(t) /\ Creates(t)
  BY DEF LockInv, UseOK
<1>2. op[t].self \in Refs /\ life[op[t].self] = "new"
  BY <1>1 DEF CallOK, Creating
<1>3. Fresh(op[t].self)
  BY <1>1, <1>2 DEF Creates, Fresh
<1> QED BY <1>2, <1>3 DEF ViewOK

\* A function that has got its locks leads from lists to lists.
LEMMA GotLeads ==
    ASSUME LockInv, NEW P, NEW B, NEW O, ViewOK(P, B, O), NEW t \in Threads, pc[t] = "acquire",
           owner[Lock(t, stage[t])] = Free, Got(t, Plan[op[t].kind][stage[t]]), pc'[t] = "commit"
    PROVE  Leads(t, script'[t], P, B, O)
<1> DEFINE k == op[t].kind
           s == op[t].self
           x == op[t].other
           o == op[t].ob
           n == stage[t]
           what == Plan[k][n]
           l == Lock(t, n)
<1>0. /\ CallInv /\ ThreadInv /\ FieldInv /\ UseOK(t) /\ PlanOK(t) /\ CallOK(t)
      /\ n \in Nat /\ k \in Kinds \cup {"destroy"} /\ Lists(P, B, O) /\ Viewed(P, B, O)
  BY DEF LockInv, ThreadInv, CallInv, CallTypes, ViewOK, UseOK
<1>1. Distinct(t, n) /\ \A m \in Locks(t, n) : At(P, B, O, m)
  BY <1>0, LockGot, GotAt
<1>2. /\ n \in 1 .. Len(Plan[k]) /\ l # Null
      /\ n > 1 => Bound(t)
  BY <1>0 DEF PlanOK
<1>3. /\ what = "other" => n = 1 /\ k \in Binary
      /\ k \in {"clear", "fini", "set", "lock"} /\ what = "self" => n = 1
      /\ k = "destroy" /\ what = "list" => n = 1
      /\ k = "moveassign" /\ what = "self" => n = 4
      /\ n = 1 /\ k \in Binary => what = "other"
      /\ n = 1 /\ k \in {"clear", "fini", "lock"} => what = "self"
      /\ n = 1 /\ k = "destroy" => what = "list"
      /\ k = "lock" => n = 1
  BY <1>0, <1>2, PlanSteps, Guarded
<1>4. /\ k # "destroy" => s \in Refs /\ s # Null
      /\ k \in Binary => x \in Refs /\ x # s /\ x # Null
      /\ k \in Binding \cup {"destroy"} => o \in Objs /\ o # Null
  BY <1>0, DistinctAssumption DEF CallOK
<1>5. l = Where(t, what) /\ At(P, B, O, l)
  BY <1>0, <1>1, <1>2 DEF Lock, Locks
<1>6. ASSUME NEW q, script' = [script EXCEPT ![t] = q] PROVE script'[t] = q
  BY <1>0, <1>6 DEF ThreadInv
<1>7. CASE what = "list" /\ k = "destroy" /\ ptr[o] = Null
  <2> DEFINE q == <<Store(o, Same, Same, Same)>>
  <2>1. script' = [script EXCEPT ![t] = q]
    BY <1>7 DEF Got, Write
  <2>2. Leads(t, q, P, B, O)
    BY <1>0, PlainLeads
  <2> HIDE DEF q
  <2> QED BY <1>6, <2>1, <2>2
<1>8. CASE what = "other" /\ wr_obj[x] = Null
  <2> DEFINE q == <<Store(x, x :> Null, Same, Same)>>
  <2>1. script' = [script EXCEPT ![t] = q]
    BY <1>8 DEF Got
  <2>2. x \in Refs /\ l = x
    BY <1>3, <1>4, <1>5, <1>8, WhereIs
  <2>3. Leads(t, q, P, B, O)
    BY <1>0, <1>5, <1>8, <2>2, UnboundLeads
  <2> HIDE DEF q
  <2> QED BY <1>6, <2>1, <2>3
<1>9. CASE what = "self" /\ k \in {"clear", "fini"} /\ wr_obj[s] = Null
  <2> DEFINE q == <<Store(s, s :> Null, Same, Same)>>
  <2>1. script' = [script EXCEPT ![t] = q]
    BY <1>9 DEF Got, Write
  <2>2. s \in Refs /\ l = s
    BY <1>4, <1>5, <1>9, WhereIs
  <2>3. Leads(t, q, P, B, O)
    BY <1>0, <1>5, <1>9, <2>2, UnboundLeads
  <2> HIDE DEF q
  <2> QED BY <1>6, <2>1, <2>3
<1>10. CASE what = "self" /\ k = "moveassign" /\ wr_obj[s] = wr_obj[x]
  <2> DEFINE q == MoveOut(t) \o <<Store(s, Same, Same, Same)>>
  <2>1. script' = [script EXCEPT ![t] = q]
    BY <1>10 DEF Got, Write
  <2>2. n = 4 /\ Plan[k][1] = "other" /\ x \in Refs /\ x # Null /\ wr_obj[x] # Null
    BY <1>2, <1>3, <1>4, <1>10, PlanIs DEF Bound, Binary
  <2>3. At(P, B, O, x)
    <3>1. Lock(t, 1) = x
      BY <2>2, WhereIs DEF Lock
    <3>2. x \in Locks(t, n)
      BY <2>2, <3>1 DEF Locks
    <3> QED BY <1>1, <3>2
  <2>4. Leads(t, MoveOut(t), P, B, O)
    BY <1>0, <2>2, <2>3, ClearLeads DEF MoveOut
  <2>5. Leads(t, q, P, B, O)
    BY <2>4, LeadsThenPlain
  <2> HIDE DEF q
  <2> QED BY <1>6, <2>1, <2>5
<1>11. ASSUME Bound(t), k # "lock", Proceed(t) PROVE Leads(t, script'[t], P, B, O)
  <2> DEFINE plan == Plan[k]
             left == {i \in n + 1 .. Len(plan) : Where(t, plan[i]) # Null}
  <2>1. left = {} /\ script' = [script EXCEPT ![t] = Script(t)]
    BY <1>11 DEF Proceed, ProceedLooping, Write
  <2>2. Len(plan) \in Nat
    BY <1>0, PlanLen
  <2>3. \A i \in 1 .. Len(plan) : i \in 1 .. n \/ Lock(t, i) = Null
    <3> SUFFICES ASSUME NEW i \in 1 .. Len(plan), i \notin 1 .. n PROVE Lock(t, i) = Null
      OBVIOUS
    <3>1. i \in n + 1 .. Len(plan)
      BY <1>0, <2>2
    <3> QED BY <2>1, <3>1 DEF Lock
  <2>4. Locks(t, Len(plan)) \subseteq Locks(t, n)
    BY <2>3 DEF Locks
  <2>5. Distinct(t, Len(plan))
    BY <1>1, <2>3 DEF Distinct
  <2>6. k \in Creating => O[s] = Null
    BY CreatedUnbound
  <2>7. Leads(t, Script(t), P, B, O)
    BY <1>0, <1>1, <1>11, <2>4, <2>5, <2>6, ScriptLeads
  <2> QED BY <1>6, <2>1, <2>7
<1>12. CASE /\ Proceed(t)
            /\ ~(what = "list" /\ k = "destroy" /\ ptr[o] = Null)
            /\ ~(what = "other" /\ wr_obj[x] = Null)
            /\ ~(what = "self" /\ k = "lock")
            /\ ~(what = "self" /\ k \in {"clear", "fini"} /\ wr_obj[s] = Null)
  <2>1. k # "lock"
    BY <1>3, <1>12
  <2>2. Bound(t)
    <3>1. CASE n > 1
      BY <1>2, <3>1
    <3>2. CASE n = 1
      BY <1>3, <1>12, <3>2 DEF Bound
    <3> QED BY <1>2, <3>1, <3>2
  <2> QED BY <1>11, <1>12, <2>1, <2>2
<1>13. ~Goto(t, "release") /\ ~Goto(t, "use")
  BY <1>0 DEF Goto, CallInv
<1>14. \/ what = "list" /\ k = "destroy" /\ ptr[o] = Null
       \/ what = "other" /\ wr_obj[x] = Null
       \/ what = "self" /\ k \in {"clear", "fini"} /\ wr_obj[s] = Null
       \/ what = "self" /\ k = "moveassign" /\ wr_obj[s] = wr_obj[x]
       \/ /\ Proceed(t)
          /\ ~(what = "list" /\ k = "destroy" /\ ptr[o] = Null)
          /\ ~(what = "other" /\ wr_obj[x] = Null)
          /\ ~(what = "self" /\ k = "lock")
          /\ ~(what = "self" /\ k \in {"clear", "fini"} /\ wr_obj[s] = Null)
  BY <1>13 DEF Got, BackOff
<1> HIDE DEF what, k, s, x, o, n
<1> QED BY <1>7, <1>8, <1>9, <1>10, <1>12, <1>14

\* Dee_weakref_moveassign that leaves self as it is.
LEMMA RefusedLeads ==
    ASSUME LockInv, NEW P, NEW B, NEW O, ViewOK(P, B, O), NEW t \in Threads, pc[t] = "acquire",
           stage[t] > 1, Refused(t, Plan[op[t].kind][stage[t]]), pc'[t] = "commit"
    PROVE  Leads(t, script'[t], P, B, O)
<1> DEFINE k == op[t].kind
           x == op[t].other
           n == stage[t]
<1>0. /\ CallInv /\ ThreadInv /\ UseOK(t) /\ PlanOK(t) /\ HeldOK(t) /\ held[t] \in Seq(Locs)
      /\ k \in Kinds \cup {"destroy"} /\ Lists(P, B, O) /\ Viewed(P, B, O) /\ CallOK(t)
  BY DEF LockInv, ThreadInv, CallInv, CallTypes, ViewOK, UseOK
<1>1. n \in 1 .. Len(Plan[k]) /\ Ranked(held[t]) = Locks(t, n - 1) /\ Bound(t)
  BY <1>0 DEF PlanOK
<1>2. ~Goto(t, "release")
  BY <1>0 DEF Goto, CallInv
<1>3. Plan[k][n] = "self" /\ k = "moveassign" /\ script' = [script EXCEPT ![t] = MoveOut(t)]
  BY <1>2 DEF Refused, BackOff, Write
<1>4. n = 4 /\ Plan[k][1] = "other" /\ x \in Refs /\ x \in Locs /\ x # Null /\ wr_obj[x] # Null
  BY <1>0, <1>1, <1>3, NullApart, PlanIs, PlanSteps DEF CallOK, Binary, Bound
<1>5. Lock(t, 1) = x /\ 1 \in 1 .. n - 1
  BY <1>4, WhereIs DEF Lock
<1>6. x \in Ranked(held[t])
  BY <1>1, <1>4, <1>5 DEF Locks
<1>7. At(P, B, O, x)
  BY <1>0, <1>4, <1>6, AtHeld DEF HeldOK
<1>8. Leads(t, MoveOut(t), P, B, O)
  BY <1>0, <1>4, <1>7, ClearLeads DEF MoveOut
<1> QED BY <1>0, <1>3, <1>8 DEF ThreadInv

\* A thread that takes its locks, or begins with its stores.
LEMMA AcquireView ==
    ASSUME LockInv, LockInv', FreedInv, NEW P, NEW B, NEW O, ViewOK(P, B, O), NEW t \in Threads, Acquire(t)
    PROVE  ViewInv'
<1>1. Others(t) /\ op'[t].self = op[t].self
  BY AcquireOthers
<1>2. /\ pc[t] = "acquire" /\ UNCHANGED <<fields, life, object>>
      /\ \/ owner[Lock(t, stage[t])] = Free /\ Got(t, Plan[op[t].kind][stage[t]])
         \/ stage[t] > 1 /\ Refused(t, Plan[op[t].kind][stage[t]])
  BY DEF Acquire, Lock
<1>3. CASE pc'[t] = "commit"
  <2>1. Leads(t, script'[t], P, B, O)
    BY <1>2, <1>3, GotLeads, RefusedLeads
  <2>2. op[t].kind \in Binding => op[t].ob \notin freed
    BY <1>2 DEF FreedInv, FreedOK
  <2> QED BY <1>1, <1>2, <1>3, <2>1, <2>2, WriteView
<1>4. CASE pc'[t] # "commit"
  <2>1. UNCHANGED fields /\ life' = life /\ freed' = freed
    BY <1>2 DEF object
  <2>2. \A r \in Refs : O[r] \notin freed'
    BY <2>1 DEF ViewOK
  <2>3. ViewOK(P, B, O)'
    BY <1>1, <1>2, <1>4, <2>1, <2>2, QuietView
  <2> QED BY <2>3 DEF ViewInv
<1> QED BY <1>3, <1>4

-----------------------------------------------------------------------------
(* What is freed, and by whom *)

\* The threads are as well off as before a step of t that takes nothing from them.
LEMMA FreedAny ==
    ASSUME LockInv, FreedInv, NEW t \in Threads, Others(t),
           \A o \in freed' : refs'[o] = {} /\ owner'[o] = Free,
           \A l \in Locs : owner[l] \notin {t, Free} => owner'[l] = owner[l] /\ ptr'[l] = ptr[l],
           \A u \in Threads : u # t /\ pc[u] # "idle" =>
               /\ op[u].kind \in Binding => Root \in refs'[op[u].ob]
               /\ op[u].kind = "destroy" => op[u].ob \notin freed'
                    /\ (pc'[t] # "idle" /\ op'[t].kind = "destroy" => op'[t].ob # op[u].ob),
           FreedOK(t)'
    PROVE  FreedInv'
<1> SUFFICES ASSUME NEW u \in Threads, u # t, pc[u] # "idle" PROVE FreedOK(u)'
  BY DEF FreedInv, FreedOK, Others
<1>0. FreedOK(u) /\ UseOK(u) /\ CallOK(u)
  BY DEF FreedInv, LockInv, UseOK
<1>1. pc'[u] = pc[u] /\ op'[u] = op[u] /\ script'[u] = script[u] /\ after'[u] = after[u]
  BY DEF Others
<1>2. op[u].kind \in Binding => Root \in refs'[op[u].ob]
  OBVIOUS
<1>3. ASSUME op[u].kind = "destroy" PROVE Destroys(u)'
  <2>1. Destroys(u)
    BY <1>0, <1>3 DEF FreedOK
  <2>3. op[u].ob \notin freed'
    BY <1>3
  <2>4. ASSUME NEW v \in Threads, v # u, pc'[v] # "idle", op'[v].kind = "destroy" PROVE op'[v].ob # op[u].ob
    <3>1. CASE v = t
      BY <1>3, <2>4, <3>1
    <3>2. CASE v # t
      BY <2>1, <2>4, <3>2 DEF Others, Destroys
    <3> QED BY <3>1, <3>2
  <2>5. ASSUME pc[u] = "commit", after[u] = "return"
        PROVE  script[u] = <<Store(op[u].ob, Same, Same, Same)>> /\ ptr'[op[u].ob] = Null
    <3>1. op[u].ob \in Objs /\ owner[op[u].ob] = u /\ ptr[op[u].ob] = Null
      BY <1>3, <2>5, LastStore
    <3>2. ptr'[op[u].ob] = ptr[op[u].ob]
      BY <3>1, NullApart, DistinctAssumption
    <3> QED BY <2>1, <2>5, <3>1, <3>2 DEF Destroys
  <2>6. Store(op[u].ob, Same, Same, Same)' = Store(op[u].ob, Same, Same, Same)
    BY <1>1 DEF Store, Same
  <2> QED BY <1>1, <2>1, <2>3, <2>4, <2>5, <2>6 DEF Destroys
<1>4. ASSUME pc[u] = "use" PROVE op[u].kind = "lock" /\ owner'[op[u].self] = u
  <2>1. op[u].kind = "lock" /\ owner[op[u].self] = u
    BY <1>0, <1>4 DEF FreedOK
  <2>2. op[u].self \in Locs
    BY <1>0, <2>1, NullApart DEF CallOK
  <2> QED BY <2>1, <2>2, DistinctAssumption
<1> QED BY <1>1, <1>2, <1>3, <1>4 DEF FreedOK

\* What a step of t may free: the object that it destroys.
Frees(t) == freed' = freed \/ (op[t].kind = "destroy" /\ pc'[t] = "idle" /\ freed' = freed \cup {op[t].ob})

\* What t destroys, if anything, is what it destroyed before.
SameTarget(t) ==
    pc'[t] # "idle" /\ op'[t].kind = "destroy" => op[t].kind = "destroy" /\ op'[t].ob = op[t].ob

\* The same of a step of a call that frees only what it destroys.
LEMMA FreedStep ==
    ASSUME LockInv, FreedInv, NEW t \in Threads, pc[t] # "idle", Others(t), Frees(t), SameTarget(t),
           \A o \in freed' : refs'[o] = {} /\ owner'[o] = Free,
           \A o \in Objs : Root \in refs[o] => Root \in refs'[o],
           \A l \in Locs : owner[l] \notin {t, Free} => owner'[l] = owner[l] /\ ptr'[l] = ptr[l],
           FreedOK(t)'
    PROVE  FreedInv'
<1>1. ASSUME NEW u \in Threads, u # t, pc[u] # "idle"
      PROVE  /\ op[u].kind \in Binding => Root \in refs'[op[u].ob]
             /\ op[u].kind = "destroy" => op[u].ob \notin freed'
                  /\ (pc'[t] # "idle" /\ op'[t].kind = "destroy" => op'[t].ob # op[u].ob)
  <2>0. FreedOK(u) /\ CallOK(u)
    BY <1>1 DEF FreedInv, LockInv, UseOK
  <2>1. op[u].kind \in Binding => Root \in refs'[op[u].ob]
    BY <1>1, <2>0 DEF FreedOK, CallOK
  <2>2. op[u].kind = "destroy" => op[u].ob \notin freed /\ (op[t].kind = "destroy" => op[t].ob # op[u].ob)
    BY <1>1, <2>0 DEF FreedOK, Destroys
  <2> QED BY <2>1, <2>2 DEF Frees, SameTarget
<1> QED BY <1>1, FreedAny

\* What t itself has to say, when it goes on and frees nothing.
LEMMA GoesOnFreed ==
    ASSUME FreedInv, NEW t \in Threads, pc[t] # "idle", Others(t), freed' = freed,
           op'[t] = op[t] \/ (op'[t] = Cleared(op[t]) /\ op[t].kind \in Binary),
           op[t].kind \in Binding => Root \in refs'[op[t].ob], pc'[t] # "use", op[t] \in CallTypes,
           op[t].kind = "destroy" /\ pc'[t] = "release" => after'[t] # "return",
           op[t].kind = "destroy" /\ pc'[t] = "commit" /\ after'[t] = "return" =>
               script'[t] = <<Store(op[t].ob, Same, Same, Same)>> /\ ptr'[op[t].ob] = Null
    PROVE  FreedOK(t)' /\ Frees(t) /\ SameTarget(t)
<1>1. FreedOK(t)
  BY DEF FreedInv
<1>2. CASE op'[t] = op[t]
  <2>1. ASSUME op[t].kind = "destroy" PROVE Destroys(t)'
    <3>1. Destroys(t)
      BY <1>1, <2>1 DEF FreedOK
    <3>2. \A u \in Threads : u # t /\ pc'[u] # "idle" /\ op'[u].kind = "destroy" => op'[u].ob # op[t].ob
      BY <3>1 DEF Destroys, Others
    <3>3. Store(op[t].ob, Same, Same, Same)' = Store(op[t].ob, Same, Same, Same)
      BY <1>2 DEF Store, Same
    <3> QED BY <1>2, <2>1, <3>1, <3>2, <3>3 DEF Destroys
  <2> QED BY <1>2, <2>1 DEF FreedOK, Frees, SameTarget
<1>3. CASE op'[t] = Cleared(op[t])
  <2>1. op'[t].kind = "clear"
    BY <1>3 DEF Cleared, CallTypes
  <2> QED BY <2>1 DEF FreedOK, Frees, SameTarget, Binding
<1> QED BY <1>2, <1>3

\* Where a thread goes that neither begins nor makes stores.
Turn(t) == \/ Return(t)
           \/ Again(t)
           \/ /\ \E label \in Places \ {"commit", "idle"} : Goto(t, label)
              /\ UNCHANGED <<op, life, freed, stage>>
              /\ UNCHANGED after \/ after' = [after EXCEPT ![t] = "return"]
           \/ /\ op' = [op EXCEPT ![t] = Cleared(@)] /\ op[t].kind \in Binary
              /\ UNCHANGED <<pc, life, freed, stage, after>>

\* It leaves the others alone.
LEMMA TurnOthers ==
    ASSUME LockInv, NEW t \in Threads, pc[t] \notin {"idle", "commit"}, Turn(t), script' = script,
           \A u \in Threads : u # t => held'[u] = held[u]
    PROVE  /\ Others(t) /\ pc'[t] # "commit"
           /\ \A r \in Refs : life'[r] = "new" => life[r] = "new"
           /\ pc'[t] = "idle" => Return(t)
           /\ pc'[t] # "idle" => freed' = freed
                /\ (op'[t] = op[t] \/ (op'[t] = Cleared(op[t]) /\ op[t].kind \in Binary))
<1>0. CallInv /\ ThreadInv /\ FieldInv
  BY DEF LockInv
<1>1. CASE Return(t)
  <2>1. /\ pc' = [pc EXCEPT ![t] = "idle"] /\ op' = [op EXCEPT ![t] = NoOp]
        /\ stage' = [stage EXCEPT ![t] = 1] /\ after' = [after EXCEPT ![t] = "return"]
    BY <1>1 DEF Return, Goto
  <2>2. Others(t) /\ pc'[t] = "idle"
    BY <1>0, <2>1 DEF Others, CallInv, ThreadInv
  <2>3. \A r \in Refs : life'[r] = "new" => life[r] = "new"
    BY <1>0, <1>1 DEF Return, FieldInv
  <2> QED BY <1>1, <2>2, <2>3
<1>2. CASE Again(t)
  <2>1. PICK label \in {"check", "acquire"} : pc' = [pc EXCEPT ![t] = label]
    BY <1>2 DEF Again, Goto, Entry
  <2>2. /\ op' = op /\ life' = life /\ freed' = freed
        /\ stage' = [stage EXCEPT ![t] = 1] /\ after' = [after EXCEPT ![t] = "return"]
    BY <1>2 DEF Again
  <2>3. Others(t) /\ pc'[t] = label
    BY <1>0, <2>1, <2>2 DEF Others, CallInv, ThreadInv
  <2> QED BY <2>1, <2>2, <2>3
<1>3. CASE /\ \E label \in Places \ {"commit", "idle"} : Goto(t, label)
           /\ UNCHANGED <<op, life, freed, stage>>
           /\ UNCHANGED after \/ after' = [after EXCEPT ![t] = "return"]
  <2>1. PICK label \in Places \ {"commit", "idle"} : pc' = [pc EXCEPT ![t] = label]
    BY <1>3 DEF Goto
  <2>2. pc'[t] = label /\ \A u \in Threads : u # t => pc'[u] = pc[u] /\ after'[u] = after[u]
    BY <1>0, <1>3, <2>1 DEF CallInv, ThreadInv
  <2>3. Others(t)
    BY <1>3, <2>2 DEF Others
  <2> QED BY <1>3, <2>2, <2>3
<1>4. CASE /\ op' = [op EXCEPT ![t] = Cleared(@)] /\ op[t].kind \in Binary
           /\ UNCHANGED <<pc, life, freed, stage, after>>
  <2>1. op'[t] = Cleared(op[t]) /\ \A u \in Threads : u # t => op'[u] = op[u]
    BY <1>0, <1>4 DEF CallInv
  <2>2. Others(t)
    BY <1>4, <2>1 DEF Others
  <2> QED BY <1>4, <2>1, <2>2
<1> QED BY <1>1, <1>2, <1>3, <1>4 DEF Turn

\* Such a step frees an object only when it has been found that nothing is bound to it.
LEMMA TurnBound ==
    ASSUME LockInv, IInv, FreedInv, ViewInv, NEW t \in Threads, pc[t] \notin {"idle", "commit"}, Turn(t),
           UNCHANGED <<fields, script>>, \A u \in Threads : u # t => held'[u] = held[u],
           \A l \in Locs : owner'[l] = owner[l] \/ (owner[l] = t /\ owner'[l] = Free),
           \A o \in Objs : Root \in refs[o] => Root \in refs'[o],
           \A o \in Objs : refs[o] = {} => refs'[o] = {},
           pc'[t] # "use",
           op[t].kind = "destroy" /\ pc'[t] = "release" => after'[t] # "return",
           op[t].kind = "destroy" /\ Return(t) => ptr[op[t].ob] = Null /\ owner[op[t].ob] = Free
    PROVE  FreedInv' /\ ViewInv'
<1>0. /\ CallInv /\ ThreadInv /\ FieldInv /\ UseOK(t) /\ CallOK(t) /\ op[t] \in CallTypes /\ FreedOK(t)
      /\ freed \subseteq Objs /\ NoResurrection
  BY DEF LockInv, IInv, CallInv, ThreadInv, UseOK, FreedInv
<1>1. /\ Others(t) /\ pc'[t] # "commit"
      /\ \A r \in Refs : life'[r] = "new" => life[r] = "new"
      /\ pc'[t] = "idle" => Return(t)
      /\ pc'[t] # "idle" => freed' = freed
           /\ (op'[t] = op[t] \/ (op'[t] = Cleared(op[t]) /\ op[t].kind \in Binary))
  BY TurnOthers
<1>2. UNCHANGED fields /\ ptr' = ptr
  BY DEF fields
<1>3. \A l \in Locs : owner[l] \notin {t, Free} => owner'[l] = owner[l] /\ ptr'[l] = ptr[l]
  BY <1>2
<1>4. Frees(t)
  <2>1. CASE pc'[t] = "idle"
    BY <1>1, <2>1 DEF Frees, Return
  <2>2. CASE pc'[t] # "idle"
    BY <1>1, <2>2 DEF Frees
  <2> QED BY <2>1, <2>2
<1>5. \A o \in freed' : refs'[o] = {} /\ owner'[o] = Free
  <2> SUFFICES ASSUME NEW o \in freed' PROVE refs'[o] = {} /\ owner'[o] = Free
    OBVIOUS
  <2>1. CASE o \in freed
    BY <1>0, <2>1, NullApart, DistinctAssumption DEF FreedInv
  <2>2. CASE o \notin freed
    <3>1. op[t].kind = "destroy" /\ o = op[t].ob /\ Return(t) /\ o \in Objs
      BY <1>0, <1>1, <1>4, <2>2 DEF Frees, CallOK
    <3>2. refs[o] = {} /\ owner[o] = Free
      BY <1>0, <3>1 DEF NoResurrection
    <3> QED BY <3>1, <3>2, NullApart, DistinctAssumption
  <2> QED BY <2>1, <2>2
<1>6. FreedOK(t)' /\ SameTarget(t)
  <2>1. CASE pc'[t] = "idle"
    BY <2>1 DEF FreedOK, SameTarget
  <2>2. CASE pc'[t] # "idle"
    <3>1. op[t].kind \in Binding => Root \in refs'[op[t].ob]
      BY <1>0 DEF FreedOK, CallOK
    <3> QED BY <1>0, <1>1, <2>2, <3>1, GoesOnFreed
  <2> QED BY <2>1, <2>2
<1>7. FreedInv'
  BY <1>1, <1>3, <1>4, <1>5, <1>6, FreedStep
<1>8. PICK P, B, O : ViewOK(P, B, O)
  BY DEF ViewInv
<1>9. ASSUME NEW r \in Refs PROVE O[r] \notin freed'
  <2>1. O[r] \notin freed
    BY <1>8 DEF ViewOK
  <2>2. CASE freed' # freed
    <3>1. op[t].kind = "destroy" /\ freed' = freed \cup {op[t].ob} /\ Return(t) /\ op[t].ob \in Objs
      BY <1>0, <1>1, <1>4, <2>2 DEF Frees, CallOK
    <3>2. ptr[op[t].ob] = Null /\ owner[op[t].ob] = Free
      BY <3>1
    <3>3. ASSUME NEW u \in Threads, pc[u] = "commit", op[t].ob \in Stored(script[u], "ptr") PROVE FALSE
      <4>1. Mine(u, op[t].ob)
        BY <3>3, StoredMine
      <4>2. Starting(u) /\ op[u].self = op[t].ob
        BY <3>2, <4>1, DistinctAssumption DEF Mine
      <4> QED BY <3>1, <4>2, StartingHidden, NullApart
    <3>4. O[r] # op[t].ob
      BY <1>8, <3>1, <3>2, <3>3, NothingBound
    <3> QED BY <2>1, <3>1, <3>4
  <2> QED BY <2>1, <2>2
<1>10. ViewOK(P, B, O)'
  BY <1>1, <1>2, <1>8, <1>9, QuietView
<1> QED BY <1>7, <1>10 DEF ViewInv

\* The look at wr_obj, or wl_nodes, without a lock.
LEMMA CheckBound ==
    ASSUME LockInv, IInv, FreedInv, ViewInv, NEW t \in Threads, Check(t)
    PROVE  FreedInv' /\ ViewInv'
<1>0. CallInv /\ op[t] \in CallTypes /\ FieldInv /\ ThreadInv
  BY DEF LockInv, CallInv
<1>1. pc[t] = "check" /\ UNCHANGED fields /\ owner' = owner /\ held' = held /\ script' = script /\ refs' = refs
  BY DEF Check
<1>2. \/ Goto(t, "acquire") /\ UNCHANGED <<op, life, freed, stage, after>>
      \/ /\ op[t].kind \in {"copyassign", "moveassign"}
         /\ op' = [op EXCEPT ![t].kind = "clear", ![t].other = Null]
         /\ UNCHANGED <<pc, life, freed, stage, after>>
      \/ Return(t) /\ (op[t].kind = "destroy" => ptr[op[t].ob] = Null /\ owner[op[t].ob] = Free)
  BY DEF Check
<1>3. op' = [op EXCEPT ![t].kind = "clear", ![t].other = Null] => op' = [op EXCEPT ![t] = Cleared(@)]
  BY <1>0 DEF CallInv, CallTypes, Cleared
<1>4. Turn(t)
  BY <1>2, <1>3 DEF Turn, Places, Binary
<1>5. ~(Goto(t, "acquire") /\ Return(t)) /\ ~(pc' = pc /\ Return(t))
  BY <1>0, <1>1 DEF Goto, Return, CallInv
<1>6. pc'[t] \in {"acquire", "check", "idle"}
  BY <1>0, <1>1, <1>2 DEF Goto, Return, CallInv
<1>7. op[t].kind = "destroy" /\ Return(t) => ptr[op[t].ob] = Null /\ owner[op[t].ob] = Free
  BY <1>2, <1>5
<1> QED BY <1>1, <1>4, <1>6, <1>7, TurnBound

\* ptrlock_waitfor.
LEMMA WaitforBound ==
    ASSUME LockInv, IInv, FreedInv, ViewInv, NEW t \in Threads, Waitfor(t)
    PROVE  FreedInv' /\ ViewInv'
<1>0. CallInv
  BY DEF LockInv
<1>1. /\ pc[t] = "wait" /\ UNCHANGED fields /\ owner' = owner /\ held' = held /\ script' = script
      /\ refs' = refs /\ Again(t)
  BY DEF Waitfor
<1>2. pc'[t] \in {"check", "acquire"}
  BY <1>0, <1>1 DEF Again, Goto, Entry, CallInv
<1>3. ~Return(t)
  BY <1>0, <1>2 DEF Return, Goto, CallInv
<1> QED BY <1>1, <1>2, <1>3, TurnBound DEF Turn

\* A lock is released on the way out.
LEMMA ReleaseBound ==
    ASSUME LockInv, IInv, FreedInv, ViewInv, NEW t \in Threads, Release(t)
    PROVE  FreedInv' /\ ViewInv'
<1>0. CallInv /\ ThreadInv /\ FieldInv /\ HeldOK(t) /\ FreedOK(t) /\ held[t] \in Seq(Locs)
  BY DEF LockInv, ThreadInv, FreedInv
<1> DEFINE h == held[t]
           g == SubSeq(h, 1, Len(h) - 1)
           l == h[Len(h)]
<1>1. /\ pc[t] = "release" /\ UNCHANGED fields /\ script' = script /\ refs' = refs
      /\ owner' = [owner EXCEPT ![l] = Free] /\ held' = [held EXCEPT ![t] = g]
  BY DEF Release
<1>2. \/ UNCHANGED <<pc, op, life, freed, stage, after>>
      \/ after[t] = "return" /\ Return(t)
      \/ Goto(t, "wait") /\ UNCHANGED <<op, life, freed, stage, after>>
      \/ Again(t)
  BY DEF Release
<1>3. h # <<>> /\ Injective(h) /\ h \in Seq(Locs)
  BY <1>0, <1>1 DEF HeldOK
<1>4. l \in Locs /\ l \in Ranked(h)
  BY <1>3, HeldPop
<1>5. owner[l] = t
  BY <1>0, <1>4 DEF HeldOK
<1> HIDE DEF h, g, l
<1>6. \A m \in Locs : owner'[m] = owner[m] \/ (owner[m] = t /\ owner'[m] = Free)
  BY <1>0, <1>1, <1>4, <1>5 DEF FieldInv
<1>7. \A u \in Threads : u # t => held'[u] = held[u]
  BY <1>0, <1>1 DEF ThreadInv
<1>8. op[t].kind = "destroy" => after[t] # "return"
  BY <1>0, <1>1 DEF FreedOK, Destroys
<1>9. Turn(t)
  <2>1. pc' = pc => Goto(t, "release")
    BY <1>0, <1>1 DEF Goto, CallInv
  <2> QED BY <1>2, <2>1 DEF Turn, Places
<1>10. /\ pc'[t] # "use" /\ (pc'[t] = "release" => after' = after)
       /\ (pc'[t] = "idle" => after[t] = "return")
  BY <1>0, <1>1, <1>2 DEF Return, Again, Goto, Entry, CallInv
<1>11. Return(t) => pc'[t] = "idle"
  BY <1>0 DEF Return, Goto, CallInv
<1>12. op[t].kind = "destroy" => ~Return(t)
  BY <1>8, <1>10, <1>11
<1>13. op[t].kind = "destroy" /\ pc'[t] = "release" => after'[t] # "return"
  BY <1>8, <1>10
<1>14. UNCHANGED <<fields, script>> /\ refs' = refs /\ pc[t] \notin {"idle", "commit"} /\ pc'[t] # "use"
  BY <1>1, <1>10
<1> QED BY <1>6, <1>7, <1>9, <1>12, <1>13, <1>14, TurnBound

\* A strong reference is taken.
LEMMA UseBound ==
    ASSUME LockInv, IInv, FreedInv, ViewInv, NEW t \in Threads, Use(t)
    PROVE  FreedInv' /\ ViewInv'
<1>0. CallInv /\ ThreadInv /\ FreedOK(t) /\ refs \in [Objs -> SUBSET (Threads \cup {Root})]
  BY DEF LockInv, FreedInv, CallInv
<1>1. /\ pc[t] = "use" /\ UNCHANGED fields /\ owner' = owner /\ life' = life /\ freed' = freed
      /\ held' = held /\ BackOff(t, "return")
  BY DEF Use, Incref
<1>2. /\ pc' = [pc EXCEPT ![t] = "release"] /\ after' = [after EXCEPT ![t] = "return"]
      /\ stage' = stage /\ script' = script /\ op' = op
  BY <1>1 DEF BackOff, Goto
<1>3. op[t].kind = "lock"
  BY <1>0, <1>1 DEF FreedOK
<1>4. pc'[t] = "release"
  BY <1>0, <1>2 DEF CallInv
<1>5. refs' = refs \/ \E o \in Objs : refs[o] # {} /\ refs' = [refs EXCEPT ![o] = @ \cup {t}]
  BY DEF Use, Incref
<1>6. \A o \in Objs : (Root \in refs[o] => Root \in refs'[o]) /\ (refs[o] = {} => refs'[o] = {})
  BY <1>0, <1>5
<1>7. Turn(t)
  BY <1>1, <1>2 DEF Turn, Places, Goto
<1> QED BY <1>1, <1>2, <1>3, <1>4, <1>6, <1>7, TurnBound

\* A function is called.
LEMMA CallBound ==
    ASSUME LockInv, FreedInv, ViewInv, NEW t \in Threads, NEW k \in Ops, NEW s \in Refs,
           NEW x \in IF k \in Binary THEN Refs \ {s} ELSE {Null},
           NEW o \in IF k \in Binding THEN Objs ELSE {Null}, Call(t, k, s, x, o)
    PROVE  FreedInv' /\ ViewInv'
<1> DEFINE c == [kind |-> k, self |-> s, other |-> x, ob |-> o]
<1>0. CallInv /\ FieldInv /\ ThreadInv /\ k # "destroy"
  BY OpsAssumption DEF LockInv, Kinds
<1>1. /\ pc[t] = "idle" /\ op' = [op EXCEPT ![t] = c] /\ UNCHANGED fields /\ owner' = owner
      /\ refs' = refs /\ freed' = freed /\ stage' = stage /\ held' = held /\ script' = script
      /\ after' = after /\ (k \in Binding => Root \in refs[o])
  BY DEF Call, Begin, object
<1>2. PICK label \in {"check", "acquire"} : pc' = [pc EXCEPT ![t] = label]
  BY DEF Call, Begin, Entry, Goto
<1>3. c.kind = k /\ c.ob = o
  OBVIOUS
<1> HIDE DEF c
<1>4. op'[t] = c /\ pc'[t] = label /\ \A u \in Threads : u # t => pc'[u] = pc[u] /\ op'[u] = op[u]
  BY <1>0, <1>1, <1>2 DEF CallInv
<1>5. Others(t)
  BY <1>1, <1>4 DEF Others
<1>6. \A r \in Refs : life'[r] = "new" => life[r] = "new"
  BY <1>0 DEF Call, FieldInv
<1>7. FreedOK(t)'
  BY <1>0, <1>1, <1>3, <1>4 DEF FreedOK
<1>8. FreedInv'
  <2>1. \A l \in Locs : owner'[l] = owner[l] /\ ptr'[l] = ptr[l]
    BY <1>1 DEF fields
  <2>2. \A d \in freed' : refs'[d] = {} /\ owner'[d] = Free
    BY <1>1 DEF FreedInv
  <2>3. ASSUME NEW u \in Threads, u # t, pc[u] # "idle"
        PROVE  /\ op[u].kind \in Binding => Root \in refs'[op[u].ob]
               /\ op[u].kind = "destroy" => op[u].ob \notin freed'
                    /\ (pc'[t] # "idle" /\ op'[t].kind = "destroy" => op'[t].ob # op[u].ob)
    <3>1. FreedOK(u)
      BY DEF FreedInv
    <3> QED BY <1>0, <1>1, <1>3, <1>4, <2>3, <3>1 DEF FreedOK, Destroys
  <2> QED BY <1>5, <1>7, <2>1, <2>2, <2>3, FreedAny
<1>9. PICK P, B, O : ViewOK(P, B, O)
  BY DEF ViewInv
<1>10. \A r \in Refs : O[r] \notin freed'
  BY <1>1, <1>9 DEF ViewOK
<1>11. ViewOK(P, B, O)'
  BY <1>1, <1>4, <1>5, <1>6, <1>9, <1>10, QuietView
<1> QED BY <1>8, <1>11 DEF ViewInv

\* A strong reference is dropped.
LEMMA DecrefBound ==
    ASSUME LockInv, IInv, FreedInv, ViewInv, NEW t \in Threads, NEW h \in {t, Root}, NEW o \in Objs,
           Decref(t, h, o)
    PROVE  FreedInv' /\ ViewInv'
<1> DEFINE c == [kind |-> "destroy", self |-> Null, other |-> Null, ob |-> o]
<1>0. /\ CallInv /\ FieldInv /\ ThreadInv /\ NoResurrection /\ freed \subseteq Objs
      /\ refs \in [Objs -> SUBSET (Threads \cup {Root})]
  BY DEF LockInv, IInv, CallInv, ThreadInv
<1>1. /\ pc[t] = "idle" /\ UNCHANGED fields /\ owner' = owner /\ life' = life /\ freed' = freed
      /\ stage' = stage /\ held' = held /\ script' = script /\ after' = after
      /\ h \in refs[o] /\ refs' = [refs EXCEPT ![o] = @ \ {h}]
      /\ h = Root => \A u \in Threads : pc[u] # "idle" => op[u].ob # o
  BY DEF Decref
<1>2. \/ op' = [op EXCEPT ![t] = c] /\ pc' = [pc EXCEPT ![t] = "check"]
      \/ op' = op /\ pc' = pc
  BY DEF Decref, Begin, Entry, Goto, Binding
<1>3. c.kind = "destroy" /\ c.ob = o
  OBVIOUS
<1> HIDE DEF c
<1>4. /\ (op'[t] = c /\ pc'[t] = "check") \/ pc'[t] = "idle"
      /\ \A u \in Threads : u # t => pc'[u] = pc[u] /\ op'[u] = op[u]
  BY <1>0, <1>1, <1>2 DEF CallInv
<1>5. Others(t)
  BY <1>1, <1>4 DEF Others
<1>6. o \notin freed
  BY <1>1 DEF FreedInv
<1>7. ASSUME NEW u \in Threads, u # t, pc[u] # "idle"
      PROVE  /\ op[u].kind \in Binding => Root \in refs'[op[u].ob]
             /\ op[u].kind = "destroy" => op[u].ob \notin freed' /\ op[u].ob # o
  <2>1. FreedOK(u) /\ CallOK(u)
    BY <1>7 DEF FreedInv, LockInv, UseOK
  <2>2. op[u].kind \in Binding => Root \in refs'[op[u].ob]
    BY <1>0, <1>1, <1>7, <2>1, DistinctAssumption DEF FreedOK, CallOK
  <2>3. op[u].kind = "destroy" => op[u].ob \notin freed' /\ op[u].ob # o
    BY <1>0, <1>1, <1>7, <2>1 DEF FreedOK, Destroys, NoResurrection
  <2> QED BY <2>2, <2>3
<1>8. FreedOK(t)'
  <2>1. CASE pc'[t] = "idle"
    BY <2>1 DEF FreedOK
  <2>2. CASE op'[t] = c /\ pc'[t] = "check"
    <3>1. Destroys(t)'
      BY <1>1, <1>3, <1>4, <1>6, <1>7, <2>2 DEF Destroys
    <3> QED BY <1>3, <2>2, <3>1 DEF FreedOK, Binding
  <2> QED BY <1>4, <2>1, <2>2
<1>9. FreedInv'
  <2>1. \A l \in Locs : owner'[l] = owner[l] /\ ptr'[l] = ptr[l]
    BY <1>1 DEF fields
  <2>2. \A d \in freed' : refs'[d] = {} /\ owner'[d] = Free
    BY <1>0, <1>1, <1>6 DEF FreedInv
  <2>3. \A u \in Threads : u # t /\ pc[u] # "idle" =>
          /\ op[u].kind \in Binding => Root \in refs'[op[u].ob]
          /\ op[u].kind = "destroy" => op[u].ob \notin freed'
               /\ (pc'[t] # "idle" /\ op'[t].kind = "destroy" => op'[t].ob # op[u].ob)
    BY <1>3, <1>4, <1>7
  <2> QED BY <1>5, <1>8, <2>1, <2>2, <2>3, FreedAny
<1>10. PICK P, B, O : ViewOK(P, B, O)
  BY DEF ViewInv
<1>11. \A r \in Refs : O[r] \notin freed'
  BY <1>1, <1>10 DEF ViewOK
<1>12. ViewOK(P, B, O)'
  BY <1>1, <1>4, <1>5, <1>10, <1>11, QuietView
<1> QED BY <1>9, <1>12 DEF ViewInv

\* What points to a bound reference is not freed.
LEMMA BackAlive ==
    ASSUME NEW P, NEW B, NEW O, ViewOK(P, B, O), NEW r \in Refs, O[r] # Null
    PROVE  B[r] \notin freed \/ B[r] \notin Objs
<1>1. B[r] \in Locs /\ P[B[r]] = r /\ r # Null
  BY DistinctAssumption DEF ViewOK, Lists
<1>2. O[r] = Of(O, B[r])
  BY <1>1 DEF ViewOK, Lists
<1> QED BY <1>2 DEF ViewOK, Of

\* What a thread locks next is not freed.
LEMMA TargetAlive ==
    ASSUME LockInv, FreedInv, NEW P, NEW B, NEW O, ViewOK(P, B, O), NEW t \in Threads, pc[t] = "acquire"
    PROVE  Lock(t, stage[t]) \notin freed
<1> DEFINE k == op[t].kind
           n == stage[t]
           what == Plan[k][n]
<1>0. /\ UseOK(t) /\ CallOK(t) /\ PlanOK(t) /\ HeldOK(t) /\ FreedOK(t) /\ FieldInv
      /\ k \in Kinds \cup {"destroy"} /\ freed \subseteq Objs /\ Viewed(P, B, O)
  BY DEF LockInv, UseOK, FreedInv, CallInv, CallTypes, ThreadInv, ViewOK
<1>1. /\ n \in 1 .. Len(Plan[k]) /\ Lock(t, n) # Null /\ Ranked(held[t]) = Locks(t, n - 1)
      /\ n > 1 => Bound(t)
  BY <1>0 DEF PlanOK
<1>2. Lock(t, n) = Where(t, what)
  BY DEF Lock
<1>g. /\ what \in {"list", "first", "second", "self", "sprev", "snext", "other", "oprev", "onext"}
      /\ what = "list" => k \in Binding \cup {"destroy"}
      /\ what \in {"self", "sprev", "snext"} => k # "destroy" /\ k \notin Creating
      /\ what \in {"other", "oprev", "onext"} => k \in Binary
      /\ what \in {"first", "second"} => k \in Binding \cup {"destroy"}
      /\ what = "second" => k = "destroy"
      /\ what = "sprev" => \E i \in 1 .. n - 1 : Plan[k][i] = "self"
      /\ what = "oprev" => \E i \in 1 .. n - 1 : Plan[k][i] = "other"
      /\ n = 1 => what \in {"list", "self", "other"}
  BY <1>0, <1>1, Guarded
<1>3. CASE what = "list"
  <2>1. Lock(t, n) = op[t].ob /\ op[t].ob \in Objs
    BY <1>0, <1>2, <1>3, <1>g, WhereIs DEF CallOK
  <2>2. k \in Binding => op[t].ob \notin freed
    BY <1>0 DEF FreedOK, FreedInv
  <2>3. k = "destroy" => op[t].ob \notin freed
    BY <1>0 DEF FreedOK, Destroys
  <2> QED BY <1>3, <1>g, <2>1, <2>2, <2>3
<1>4. CASE what \in {"first", "second", "self", "other", "snext", "onext"}
  <2>1. Lock(t, n) \in Refs
    <3>1. what \in {"first", "second"} => op[t].ob \in Locs /\ n > 1
      BY <1>0, <1>1, <1>g, NullApart DEF CallOK
    <3>2. what = "second" => ptr[op[t].ob] \in Locs
      BY <1>0, <1>1, <1>g, <3>1, NullApart DEF Bound, FieldInv
    <3>3. what \in {"self", "snext"} => op[t].self \in Refs /\ op[t].self \in Locs
      BY <1>0, <1>g, NullApart DEF CallOK
    <3>4. what \in {"other", "onext"} => op[t].other \in Refs /\ op[t].other \in Locs
      BY <1>0, <1>g, NullApart DEF CallOK
    <3> QED BY <1>0, <1>1, <1>2, <1>4, <3>1, <3>2, <3>3, <3>4, WhereIs DEF FieldInv
  <2> QED BY <1>0, <2>1, DistinctAssumption
<1>5. ASSUME NEW x \in Refs, NEW i \in 1 .. n - 1, Lock(t, i) = x, wr_obj[x] # Null, Lock(t, n) = wr_pself[x]
      PROVE  Lock(t, n) \notin freed
  <2>1. x \in Ranked(held[t]) /\ x \in Locs
    BY <1>1, <1>5, DistinctAssumption, NullApart DEF Locks
  <2>2. At(P, B, O, x)
    BY <1>0, <2>1, AtHeld DEF HeldOK
  <2>3. B[x] = wr_pself[x] /\ O[x] = wr_obj[x]
    BY <2>2 DEF At
  <2> QED BY <1>0, <1>5, <2>3, BackAlive
<1>6. CASE what = "sprev"
  <2>1. PICK i \in 1 .. n - 1 : Plan[k][i] = "self"
    BY <1>6, <1>g
  <2>2. op[t].self \in Refs /\ Lock(t, i) = op[t].self
    BY <1>0, <1>6, <1>g, <2>1, WhereIs DEF CallOK, Lock
  <2>3. wr_obj[op[t].self] # Null /\ Lock(t, n) = wr_pself[op[t].self]
    BY <1>1, <1>2, <1>6, WhereIs
  <2> QED BY <1>5, <2>2, <2>3
<1>7. CASE what = "oprev"
  <2>1. PICK i \in 1 .. n - 1 : Plan[k][i] = "other"
    BY <1>7, <1>g
  <2>2. op[t].other \in Refs /\ Lock(t, i) = op[t].other /\ n > 1
    BY <1>0, <1>1, <1>7, <1>g, <2>1, WhereIs DEF CallOK, Lock
  <2>3. wr_obj[op[t].other] # Null /\ Lock(t, n) = wr_pself[op[t].other]
    BY <1>1, <1>2, <1>7, <1>g, <2>2, WhereIs DEF Bound
  <2> QED BY <1>5, <2>2, <2>3
<1> QED BY <1>g, <1>3, <1>4, <1>6, <1>7

\* A destruction is over only when the list has been found empty.
LEMMA AcquireDestroys ==
    ASSUME LockInv, NEW t \in Threads, Acquire(t), op[t].kind = "destroy"
    PROVE  /\ pc'[t] = "release" => after'[t] # "return"
           /\ pc'[t] = "commit" /\ after'[t] = "return" =>
                script'[t] = <<Store(op[t].ob, Same, Same, Same)>> /\ ptr[op[t].ob] = Null
           /\ pc'[t] # "use"
<1> DEFINE what == Plan[op[t].kind][stage[t]]
<1>0. CallInv /\ ThreadInv /\ PlanOK(t) /\ pc[t] = "acquire"
  BY DEF LockInv, Acquire
<1>1. what \notin {"self", "other", "snext"}
  <2>1. stage[t] \in 1 .. Len(Plan[op[t].kind])
    BY <1>0 DEF PlanOK
  <2> QED BY <2>1, Guarded DEF Binary
<1>2. Got(t, what) \/ Refused(t, what)
  BY DEF Acquire
<1> HIDE DEF what
<1>3. CASE Refused(t, what)
  <2>1. BackOff(t, "check")
    BY <1>1, <1>3 DEF Refused
  <2> QED BY <1>0, <2>1 DEF BackOff, Goto, CallInv, ThreadInv
<1>4. CASE Got(t, what) /\ what = "list" /\ ptr[op[t].ob] = Null
  <2> DEFINE q == <<Store(op[t].ob, Same, Same, Same)>>
  <2>1. Write(t, q, "return")
    BY <1>4 DEF Got
  <2> HIDE DEF q
  <2>2. pc'[t] = "commit" /\ script'[t] = q
    BY <1>0, <2>1 DEF Write, Goto, CallInv, ThreadInv
  <2> QED BY <1>4, <2>2 DEF q
<1>5. CASE Got(t, what) /\ ~(what = "list" /\ ptr[op[t].ob] = Null)
  <2>1. Proceed(t)
    BY <1>1, <1>5 DEF Got
  <2>2. pc' = pc \/ Write(t, Script(t), "check")
    BY <2>1 DEF Proceed, ProceedLooping
  <2>3. CASE pc' = pc
    BY <1>0, <2>3
  <2>4. CASE Write(t, Script(t), "check")
    <3>1. pc'[t] = "commit" /\ after'[t] = "check"
      BY <1>0, <2>4 DEF Write, Goto, CallInv, ThreadInv
    <3> QED BY <3>1
  <2> QED BY <2>2, <2>3, <2>4
<1> QED BY <1>2, <1>3, <1>4, <1>5

\* Only Dee_weakref_lock goes on to look at the object.
LEMMA AcquireUses ==
    ASSUME LockInv, NEW t \in Threads, Acquire(t), pc'[t] = "use"
    PROVE  op[t].kind = "lock" /\ op' = op /\ owner'[op[t].self] = t
<1>0. /\ CallInv /\ ThreadInv /\ FieldInv /\ PlanOK(t) /\ UseOK(t) /\ pc[t] = "acquire"
      /\ op[t].kind \in Kinds \cup {"destroy"}
  BY DEF LockInv, Acquire, CallInv, CallTypes
<1>1. Way(t)
  BY AcquireWays
<1>2. ~Goto(t, "commit") /\ ~Goto(t, "release") /\ pc' # pc
  BY <1>0 DEF Goto, CallInv
<1>3. op[t].kind = "lock" /\ Plan[op[t].kind][stage[t]] = "self" /\ op' = op
  BY <1>1, <1>2 DEF Way, Write, BackOff
<1>4. /\ Lock(t, stage[t]) = op[t].self /\ op[t].self \in Locs
  BY <1>0, <1>3, WhereIs, NullApart DEF Lock, UseOK, CallOK
<1>5. owner' = [owner EXCEPT ![Lock(t, stage[t])] = t]
  <2>1. ~Refused(t, Plan[op[t].kind][stage[t]])
    BY <1>2, <1>3 DEF Refused, BackOff
  <2> QED BY <2>1 DEF Acquire, Lock
<1> QED BY <1>0, <1>3, <1>4, <1>5 DEF FieldInv

\* A thread that takes its locks.
LEMMA AcquireBound ==
    ASSUME LockInv, LockInv', FreedInv, ViewInv, NEW t \in Threads, Acquire(t)
    PROVE  FreedInv' /\ ViewInv'
<1>v. PICK P, B, O : ViewOK(P, B, O)
  BY DEF ViewInv
<1>0. CallInv /\ ThreadInv /\ FieldInv /\ op[t] \in CallTypes /\ UseOK(t) /\ FreedOK(t) /\ freed \subseteq Objs
  BY DEF LockInv, CallInv, ThreadInv, FreedInv
<1>1. /\ pc[t] = "acquire" /\ ptr' = ptr /\ refs' = refs /\ freed' = freed
      /\ \/ UNCHANGED <<owner, held>>
         \/ owner[Lock(t, stage[t])] = Free /\ owner' = [owner EXCEPT ![Lock(t, stage[t])] = t]
  BY AcquireWays DEF fields, object
<1>2. /\ Others(t)
      /\ op'[t] = op[t] \/ (op'[t] = Cleared(op[t]) /\ op[t].kind \in Binary)
  BY AcquireOthers
<1>3. Lock(t, stage[t]) \notin freed
  BY <1>v, <1>1, TargetAlive
<1>4. \A l \in Locs : owner[l] # Free => owner'[l] = owner[l]
  BY <1>0, <1>1 DEF FieldInv
<1>5. \A o \in freed' : refs'[o] = {} /\ owner'[o] = Free
  <2> SUFFICES ASSUME NEW o \in freed PROVE refs[o] = {} /\ owner'[o] = Free
    BY <1>1
  <2>1. refs[o] = {} /\ owner[o] = Free /\ o \in Locs /\ o # Lock(t, stage[t])
    BY <1>0, <1>3, NullApart DEF FreedInv
  <2>2. owner'[o] = owner[o]
    BY <1>0, <1>1, <2>1 DEF FieldInv
  <2> QED BY <2>1, <2>2
<1>6. FreedOK(t)' /\ Frees(t) /\ SameTarget(t)
  <2>1. CASE pc'[t] = "use"
    <3>1. op[t].kind = "lock" /\ op' = op /\ owner'[op[t].self] = t
      BY <2>1, AcquireUses
    <3> QED BY <1>1, <2>1, <3>1 DEF FreedOK, Frees, SameTarget, Binding
  <2>2. CASE pc'[t] # "use"
    <3>1. op[t].kind \in Binding => Root \in refs'[op[t].ob]
      BY <1>0, <1>1 DEF FreedOK
    <3>2. op[t].kind = "destroy" => /\ pc'[t] = "release" => after'[t] # "return"
                                    /\ pc'[t] = "commit" /\ after'[t] = "return" =>
                                         script'[t] = <<Store(op[t].ob, Same, Same, Same)>> /\ ptr'[op[t].ob] = Null
      BY <1>1, AcquireDestroys
    <3> QED BY <1>0, <1>1, <1>2, <2>2, <3>1, <3>2, GoesOnFreed
  <2> QED BY <2>1, <2>2
<1>7. \A l \in Locs : owner[l] \notin {t, Free} => owner'[l] = owner[l] /\ ptr'[l] = ptr[l]
  BY <1>1, <1>4
<1>8. \A o \in Objs : Root \in refs[o] => Root \in refs'[o]
  BY <1>1
<1>9. FreedInv'
  BY <1>1, <1>2, <1>5, <1>6, <1>7, <1>8, FreedStep
<1> QED BY <1>v, <1>9, AcquireView

\* A thread that makes its stores.
LEMMA CommitBound ==
    ASSUME LockInv, IInv, FreedInv, ViewInv, NEW t \in Threads, Commit(t)
    PROVE  FreedInv' /\ ViewInv'
<1>s. PICK s, rest : s = Head(script[t]) /\ rest = Tail(script[t])
  OBVIOUS
<1>0. /\ CallInv /\ ThreadInv /\ FieldInv /\ op[t] \in CallTypes /\ HeldOK(t) /\ FreedOK(t)
      /\ freed \subseteq Objs /\ NoResurrection
  BY DEF LockInv, IInv, CallInv, ThreadInv, FreedInv
<1>1. /\ pc[t] = "commit" /\ ptr' = s.ptr @@ ptr /\ wr_pself' = s.pself @@ wr_pself
      /\ wr_obj' = s.obj @@ wr_obj /\ refs' = refs /\ script' = [script EXCEPT ![t] = rest]
      /\ owner' = IF s.unlock = Null THEN owner ELSE [owner EXCEPT ![s.unlock] = Free]
      /\ held' = [held EXCEPT ![t] = Without(@, s.unlock)]
      /\ IF rest # <<>> THEN UNCHANGED <<pc, op, life, freed, stage, after>>
         ELSE IF after[t] = "return" THEN Return(t) ELSE Again(t)
  BY <1>s DEF Commit
<1>2. /\ StoreOK(s, Known(t)) /\ s.unlock \in Ranked(held[t]) \cup {Null} /\ Ranked(held[t]) \subseteq Locs
      /\ \A l \in Writes(s) : owner[l] \in {t, Free}
  BY <1>s, <1>1, NextStore
<1>3. \A l \in Locs : ptr'[l] = IF l \in DOMAIN s.ptr THEN s.ptr[l] ELSE ptr[l]
  BY <1>0, <1>1, <1>2, FieldsStored
<1>4. \A l \in Locs : owner'[l] = owner[l] \/ (owner[l] = t /\ owner'[l] = Free)
  BY <1>0, <1>1, <1>2 DEF HeldOK, FieldInv
<1>5. \A l \in Locs : owner[l] \notin {t, Free} => owner'[l] = owner[l] /\ ptr'[l] = ptr[l]
  BY <1>2, <1>3, <1>4 DEF Writes
<1>6. ASSUME rest # <<>> \/ after[t] # "return" PROVE FreedInv'
  <2>1. /\ \/ pc' = pc /\ after' = after
           \/ \E label \in {"check", "acquire"} : pc' = [pc EXCEPT ![t] = label]
        /\ op' = op /\ freed' = freed
        /\ stage' = stage \/ stage' = [stage EXCEPT ![t] = 1]
        /\ after' = after \/ after' = [after EXCEPT ![t] = "return"]
    BY <1>1, <1>6 DEF Again, Goto, Entry
  <2>2. \A u \in Threads : u # t =>
          pc'[u] = pc[u] /\ stage'[u] = stage[u] /\ script'[u] = script[u] /\ after'[u] = after[u]
            /\ held'[u] = held[u]
    BY <1>0, <1>1, <2>1 DEF CallInv, ThreadInv
  <2>3. Others(t)
    BY <2>1, <2>2 DEF Others
  <2>4. (pc'[t] = "commit" /\ after'[t] = after[t] /\ rest # <<>>) \/ pc'[t] \in {"check", "acquire"}
    <3>1. rest = <<>> => Again(t)
      BY <1>1, <1>6
    <3>2. Again(t) => pc'[t] \in {"check", "acquire"}
      BY <1>0 DEF Again, Goto, Entry, CallInv
    <3> QED BY <1>1, <3>1, <3>2
  <2>5. op[t].kind = "destroy" /\ rest # <<>> => after[t] # "return"
    BY <1>s, <1>1, LastStore
  <2>6. op[t].kind \in Binding => Root \in refs'[op[t].ob]
    BY <1>0, <1>1 DEF FreedOK
  <2>7. FreedOK(t)' /\ Frees(t) /\ SameTarget(t)
    BY <1>0, <1>1, <2>1, <2>3, <2>4, <2>5, <2>6, GoesOnFreed
  <2>8. \A o \in freed' : refs'[o] = {} /\ owner'[o] = Free
    BY <1>0, <1>1, <1>4, <2>1, NullApart, DistinctAssumption DEF FreedInv
  <2>9. \A o \in Objs : Root \in refs[o] => Root \in refs'[o]
    BY <1>1
  <2> QED BY <1>1, <1>5, <2>3, <2>7, <2>8, <2>9, FreedStep
<1>7. ASSUME rest = <<>>, after[t] = "return" PROVE FreedInv'
  <2>1. Return(t)
    BY <1>1, <1>7
  <2>2. Others(t) /\ pc'[t] = "idle"
    <3>1. /\ pc' = [pc EXCEPT ![t] = "idle"] /\ op' = [op EXCEPT ![t] = NoOp]
          /\ stage' = [stage EXCEPT ![t] = 1] /\ after' = [after EXCEPT ![t] = "return"]
      BY <2>1 DEF Return, Goto
    <3> QED BY <1>0, <1>1, <3>1 DEF Others, CallInv, ThreadInv
  <2>3. FreedOK(t)' /\ Frees(t) /\ SameTarget(t)
    BY <2>1, <2>2 DEF FreedOK, Frees, SameTarget, Return
  <2>4. ASSUME NEW o \in freed' PROVE refs'[o] = {} /\ owner'[o] = Free
    <3>1. CASE o \in freed
      BY <1>0, <1>1, <1>4, <3>1, NullApart, DistinctAssumption DEF FreedInv
    <3>2. CASE o \notin freed
      <4>1. op[t].kind = "destroy" /\ o = op[t].ob
        BY <2>3, <2>4, <3>2 DEF Frees
      <4>2. o \in Objs /\ s = Store(o, Same, Same, Same)
        BY <1>s, <1>1, <1>7, <4>1, LastStore
      <4>3. s.unlock = o /\ o \in Locs /\ o # Null
        BY <4>2, StoreParts, NullApart
      <4> QED BY <1>0, <1>1, <4>1, <4>3 DEF NoResurrection, FieldInv
    <3> QED BY <3>1, <3>2
  <2>5. \A o \in Objs : Root \in refs[o] => Root \in refs'[o]
    BY <1>1
  <2> QED BY <1>1, <1>5, <2>2, <2>3, <2>4, <2>5, FreedStep
<1>8. FreedInv'
  BY <1>6, <1>7
<1> QED BY <1>8, CommitView DEF ViewInv

-----------------------------------------------------------------------------
(* The theorems about lists *)

\* At first there are no references in the lists.
LEMMA InitBound == Init => FreedInv /\ ViewInv
<1> SUFFICES ASSUME Init PROVE FreedInv /\ ViewInv
  OBVIOUS
<1>1. FreedInv
  BY DEF Init, FreedInv, FreedOK
<1>2. PICK P, B, O : P = ptr /\ B = wr_pself /\ O = wr_obj
  OBVIOUS
<1>3. Lists(P, B, O)
  BY <1>2 DEF Init, Lists
<1>4. Viewed(P, B, O)
  BY <1>2 DEF Init, Viewed, ViewOf
<1>5. ViewOK(P, B, O)
  BY <1>2, <1>3, <1>4 DEF ViewOK, Init
<1> QED BY <1>1, <1>5 DEF ViewInv

\* Nothing happens.
LEMMA StutterBound == ASSUME FreedInv, ViewInv, UNCHANGED vars PROVE FreedInv' /\ ViewInv'
<1>1. FreedInv'
  BY DEF vars, FreedInv, FreedOK, Destroys, Store, Same
<1>2. PICK P, B, O : ViewOK(P, B, O)
  BY DEF ViewInv
<1>3. \A r \in Refs : O[r] \notin freed'
  BY <1>2 DEF ViewOK, vars
<1>4. ViewOK(P, B, O)'
  BY <1>2, <1>3, ViewQuiet DEF vars, fields
<1> QED BY <1>1, <1>4 DEF ViewInv

\* Every step of a thread keeps the lists in order.
LEMMA NextBound == LockInv /\ IInv /\ FreedInv /\ ViewInv /\ [Next]_vars => FreedInv' /\ ViewInv'
<1> SUFFICES ASSUME LockInv, IInv, FreedInv, ViewInv, [Next]_vars PROVE FreedInv' /\ ViewInv'
  OBVIOUS
<1>0. LockInv'
  BY NextLocks
<1>1. CASE UNCHANGED vars
  BY <1>1, StutterBound
<1>2. ASSUME NEW t \in Threads,
             \E k \in Ops, s \in Refs :
                \E x \in IF k \in Binary THEN Refs \ {s} ELSE {Null},
                   o \in IF k \in Binding THEN Objs ELSE {Null} : Call(t, k, s, x, o)
      PROVE  FreedInv' /\ ViewInv'
  BY <1>2, CallBound
<1>3. ASSUME NEW t \in Threads, \E h \in {t, Root}, o \in Objs : Decref(t, h, o) PROVE FreedInv' /\ ViewInv'
  BY <1>3, DecrefBound
<1>4. ASSUME NEW t \in Threads, Step(t) PROVE FreedInv' /\ ViewInv'
  BY <1>0, <1>4, CheckBound, AcquireBound, WaitforBound, ReleaseBound, UseBound, CommitBound DEF Step
<1> QED BY <1>1, <1>2, <1>3, <1>4 DEF Next

\* The lists hold together, and nothing in them is freed.
THEOREM BoundInvariance == Spec => [](IInv /\ LockInv /\ FreedInv /\ ViewInv)
<1>1. Init => IInv /\ LockInv /\ FreedInv /\ ViewInv
  BY InitIInv, InitLocks, InitBound
<1>2. IInv /\ LockInv /\ FreedInv /\ ViewInv /\ [Next]_vars => (IInv /\ LockInv /\ FreedInv /\ ViewInv)'
  BY NextIInv, NextLocks, NextBound
<1> QED BY <1>1, <1>2, PTL DEF Spec

\* Both directions of a link agree wherever nobody holds its two ends: what a function finds
\* behind the pointers of an unlocked reference is its neighbour in the list of one object.
THEOREM LinkSafety == Spec => []LinksAgree
<1>1. LockInv /\ ViewInv => LinksAgree
  <2> SUFFICES ASSUME LockInv, ViewInv, NEW l \in Locs, owner[l] = Free, ptr[l] # Null, owner[ptr[l]] = Free
               PROVE  wr_pself[ptr[l]] = l /\ wr_obj[ptr[l]] = ObjectOf(l)
    BY DEF LinksAgree
  <2>0. PICK P, B, O : ViewOK(P, B, O)
    BY DEF ViewInv
  <2>1. FieldInv /\ HiddenInv /\ Lists(P, B, O) /\ Viewed(P, B, O)
    BY <2>0 DEF LockInv, ViewOK
  <2>2. l \in Seen
    BY <2>1 DEF HiddenInv, Hidden, Seen
  <2>3. ptr[l] \in Refs /\ ptr[l] \in Locs /\ ptr[l] \in Seen
    BY <2>1, FieldsSeen, NullApart DEF FieldInv
  <2>4. At(P, B, O, l) /\ At(P, B, O, ptr[l])
    BY <2>1, <2>2, <2>3, AtSeen
  <2>5. B[ptr[l]] = l /\ O[ptr[l]] = Of(O, l)
    BY <2>1, <2>4 DEF Lists, At
  <2> QED BY <2>3, <2>4, <2>5 DEF At, Of, ObjectOf, Locs
<1> QED BY <1>1, BoundInvariance, PTL

\* No dangling reference: Dee_weakref_support_fini has unbound every reference to an object
\* before its memory is given back, however the references are bound, moved and unbound
\* meanwhile, and nobody holds, or is about to take, a lock in freed memory.
THEOREM DanglingSafety == Spec => []NoDangling
<1>1. LockInv /\ FreedInv /\ ViewInv => NoDangling
  <2> SUFFICES ASSUME LockInv, FreedInv, ViewInv PROVE NoDangling
    OBVIOUS
  <2>0. PICK P, B, O : ViewOK(P, B, O)
    BY DEF ViewInv
  <2>1. ThreadInv /\ Viewed(P, B, O) /\ \A r \in Refs : O[r] \notin freed
    BY <2>0 DEF LockInv, ViewOK
  <2>2. ASSUME NEW r \in Refs, owner[r] = Free, life[r] = "live" PROVE wr_obj[r] \notin freed
    <3>1. r \in Seen /\ r \in Locs
      BY <2>2, NullApart DEF Seen, Hidden
    <3>2. At(P, B, O, r)
      BY <2>1, <2>2, <3>1, AtSeen
    <3> QED BY <2>1, <3>2 DEF At
  <2>3. ASSUME NEW t \in Threads PROVE Ranked(held[t]) \cap freed = {}
    <3> SUFFICES ASSUME NEW o \in freed, o \in Ranked(held[t]) PROVE FALSE
      OBVIOUS
    <3>1. owner[o] = Free /\ o \in Locs
      BY <2>1, NullApart DEF FreedInv, ThreadInv
    <3>2. owner[o] = t
      BY <3>1 DEF LockInv, HeldOK
    <3> QED BY <3>1, <3>2, DistinctAssumption
  <2>4. ASSUME NEW t \in Threads, pc[t] = "acquire" PROVE Where(t, Plan[op[t].kind][stage[t]]) \notin freed
    BY <2>0, <2>4, TargetAlive DEF Lock
  <2>5. ASSUME NEW t \in Threads, pc[t] = "use" PROVE wr_obj[op[t].self] \notin freed
    <3>1. owner[op[t].self] = t /\ op[t].self \in Refs /\ op[t].self \in Locs
      BY <2>5, NullApart DEF FreedInv, FreedOK, LockInv, UseOK, CallOK
    <3>2. At(P, B, O, op[t].self)
      BY <2>1, <2>5, <3>1, AtHeld
    <3> QED BY <2>1, <3>1, <3>2 DEF At
  <2> QED BY <2>2, <2>3, <2>4, <2>5 DEF NoDangling
<1> QED BY <1>1, BoundInvariance, PTL

=============================================================================
