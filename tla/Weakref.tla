------------------------------ MODULE Weakref -------------------------------
(***************************************************************************)
(* Weak references (include/deemon/util/weakref.h, src/deemon/runtime/     *)
(* weakref.c).  An object heads a doubly linked list of the weak           *)
(* references bound to it.  Bit 0 of the pointer wl_nodes of an object,    *)
(* and of the pointer wr_next of a reference, is a spin lock; it guards    *)
(* that pointer and the fields beside it.  An operation takes the locks it *)
(* needs one after the other: it spins for the first and tries the others, *)
(* and when one is taken it releases them all and starts over.             *)
(*                                                                         *)
(* A location is an object (for its wl_nodes) or a reference (for its      *)
(* wr_next).  Every access to a pointer with a lock is an action of its    *)
(* own, and so is the unlocked look at wr_obj that precedes it.            *)
(***************************************************************************)
EXTENDS Integers, Sequences

CONSTANTS Threads, \* the threads
          Refs,    \* struct Dee_weakref
          Objs,    \* objects that support weak references
          Ops,     \* the functions that threads may call
          Free, Null, Root

Kinds == {"init", "copy", "set", "clear", "copyassign", "moveassign", "lock", "fini"}

Binary == {"copy", "copyassign", "moveassign"}  \* take another reference
Binding == {"init", "set"}                      \* take an object

ASSUME OpsAssumption == Ops \subseteq Kinds
ASSUME DistinctAssumption == /\ Refs \cap Objs = {} /\ Null \notin Refs \cup Objs
                             /\ Free \notin Threads /\ Root \notin Threads

Locs == Refs \cup Objs

VARIABLES ptr,      \* the pointer at each location, without its bit 0
          owner,    \* who has set bit 0 there, Free if it is clear
          wr_pself, \* the location that points to a reference
          wr_obj,   \* the object a reference is bound to
          life,     \* of a reference: "new", "live", "dying" (in fini) or "gone"
          refs,     \* who holds strong references to an object: threads, and Root
          freed,    \* objects whose memory has been given back
          pc,       \* where each thread is
          op,       \* the call each thread is in
          stage,    \* which lock of its plan it takes next
          held,     \* the locks it has taken, in this order
          script,   \* the stores it still has to make, now that it holds them all
          after     \* where it goes when it holds none: "check" (again) or "return"

vars == <<ptr, owner, wr_pself, wr_obj, life, refs, freed,
          pc, op, stage, held, script, after>>
fields == <<ptr, wr_pself, wr_obj>>
object == <<refs, freed>>

Ranked(s) == {s[i] : i \in 1 .. Len(s)}

\* The sequence s, which has no element twice, without l.
Without(s, l) ==
    IF l \notin Ranked(s) THEN s
    ELSE LET i == CHOOSE i \in 1 .. Len(s) : s[i] = l
         IN [j \in 1 .. Len(s) - 1 |-> IF j < i THEN s[j] ELSE s[j + 1]]

\* One value of a function, and a function with values of another one in front of its
\* own.  They are those of the module TLC, which has no definitions for a proof.
a :> b == [x \in {a} |-> b]

f @@ g == [x \in DOMAIN f \cup DOMAIN g |-> IF x \in DOMAIN f THEN f[x] ELSE g[x]]

NoOp == [kind |-> "clear", self |-> Null, other |-> Null, ob |-> Null]

Init == /\ ptr = [l \in Locs |-> Null]
        /\ owner = [l \in Locs |-> Free]
        /\ wr_pself = [r \in Refs |-> Null]
        /\ wr_obj = [r \in Refs |-> Null]
        /\ life = [r \in Refs |-> "new"]
        /\ refs = [o \in Objs |-> {Root}]
        /\ freed = {}
        /\ pc = [t \in Threads |-> "idle"]
        /\ op = [t \in Threads |-> NoOp]
        /\ stage = [t \in Threads |-> 1]
        /\ held = [t \in Threads |-> <<>>]
        /\ script = [t \in Threads |-> <<>>]
        /\ after = [t \in Threads |-> "return"]

-----------------------------------------------------------------------------
(* Which locks a function takes, and in which order *)

Plan == [init       |-> <<"list", "first">>,
         copy       |-> <<"other", "oprev">>,
         set        |-> <<"self", "list", "first", "sprev", "snext">>,
         clear      |-> <<"self", "sprev", "snext">>,
         fini       |-> <<"self", "sprev", "snext">>,
         copyassign |-> <<"other", "oprev", "self", "sprev", "snext">>,
         moveassign |-> <<"other", "oprev", "onext", "self", "sprev", "snext">>,
         lock       |-> <<"self">>,
         destroy    |-> <<"list", "first", "second">>]

\* The location a step of the plan is about; Null if there is nothing to lock.
Where(t, what) ==
    LET s == op[t].self  x == op[t].other  list == op[t].ob
    IN CASE what = "list"   -> list
         [] what = "first"  -> ptr[list]
         [] what = "second" -> ptr[ptr[list]]
         [] what = "self"   -> s
         [] what = "sprev"  -> IF wr_obj[s] = Null THEN Null ELSE wr_pself[s]
         [] what = "snext"  -> IF wr_obj[s] = Null THEN Null ELSE ptr[s]
         [] what = "other"  -> x
         [] what = "oprev"  -> wr_pself[x]
         [] what = "onext"  -> ptr[x]

-----------------------------------------------------------------------------
(* What a function writes once it holds its locks: a sequence of stores, of *)
(* which each may also write plain fields and end by unlocking a location   *)

Store(unlock, next, pself, obj) ==
    [unlock |-> unlock, ptr |-> next, pself |-> pself, obj |-> obj]

Same == <<>>  \* no field of this kind is written

StoreIf(l, s) == IF l = Null THEN <<>> ELSE <<s>>

\* Take x out of its list: its successor is given back, and its predecessor next.
UnlinkWith(x, back, next) ==
    StoreIf(ptr[x], Store(ptr[x], Same, back, Same))
    \o <<Store(wr_pself[x], wr_pself[x] :> next, Same, Same)>>

\* Mutant: the successor is not told of its new predecessor.
Unlink_OneSided(x) == UnlinkWith(x, Same, ptr[x])

Unlink(x) == UnlinkWith(x, ptr[x] :> wr_pself[x], ptr[x])

UnlinkIfBound(x) == IF wr_obj[x] = Null THEN <<>> ELSE Unlink(x)

\* Mutant: the reference stays locked.
Sever_Locked(x) == <<Store(Null, x :> Null, x :> Null, x :> Null)>>

\* Unbind x and unlock it.
Sever(x) == <<Store(Null, Same, x :> Null, x :> Null), Store(x, x :> Null, Same, Same)>>

Script(t) ==
    LET s == op[t].self  x == op[t].other  list == op[t].ob
        k == op[t].kind
        first == ptr[list]
        push == StoreIf(first, Store(first, Same, first :> s, Same))
    IN CASE k = "init" ->
              <<Store(Null, s :> first, s :> list, s :> list)>> \o push
              \o <<Store(list, list :> s, Same, Same)>>
         [] k = "set" ->
              UnlinkIfBound(s) \o <<Store(Null, Same, s :> list, s :> list)>> \o push
              \o <<Store(list, list :> s, Same, Same), Store(s, s :> first, Same, Same)>>
         [] k = "copy" ->
              <<Store(Null, s :> x, s :> wr_pself[x], s :> wr_obj[x]),
                Store(x, Same, x :> s, Same),
                Store(wr_pself[x], wr_pself[x] :> s, Same, Same)>>
         [] k = "copyassign" ->
              UnlinkIfBound(s)
              \o <<Store(Null, Same, (s :> wr_pself[x]) @@ (x :> s), s :> wr_obj[x]),
                   Store(wr_pself[x], wr_pself[x] :> s, Same, Same),
                   Store(x, Same, Same, Same),
                   Store(s, s :> x, Same, Same)>>
         [] k = "moveassign" ->
              UnlinkIfBound(s)
              \o <<Store(Null, Same, (s :> wr_pself[x]) @@ (x :> Null),
                         (s :> wr_obj[x]) @@ (x :> Null))>>
              \o StoreIf(ptr[x], Store(ptr[x], Same, ptr[x] :> s, Same))
              \o <<Store(wr_pself[x], wr_pself[x] :> s, Same, Same),
                   Store(x, x :> Null, Same, Same),
                   Store(s, s :> ptr[x], Same, Same)>>
         [] k = "clear" -> Unlink(s) \o Sever(s)
         [] k = "fini"  -> Unlink(s) \o <<Store(s, s :> Null, s :> Null, s :> Null)>>
         [] k = "destroy" ->
              StoreIf(ptr[first], Store(ptr[first], Same, ptr[first] :> list, Same))
              \o <<Store(list, list :> ptr[first], Same, Same)>> \o Sever(first)

-----------------------------------------------------------------------------
(* Calls *)

Goto(t, label) == pc' = [pc EXCEPT ![t] = label]

\* Most functions look at wr_obj, or wl_nodes, before they take any lock.
Entry(kind) == IF kind \in Binding THEN "acquire" ELSE "check"

Begin(t, o) == /\ op' = [op EXCEPT ![t] = o]
               /\ Goto(t, Entry(o.kind))

\* References named in calls that are under way.
InUse(u) == IF pc[u] = "idle" THEN {} ELSE {op[u].self, op[u].other}

\* Whoever calls owns the reference or the object that contains it, so that it
\* is not finalised meanwhile; and an object to be bound is kept alive by Root.
Call(t, kind, self, other, ob) ==
    /\ pc[t] = "idle"
    /\ Begin(t, [kind |-> kind, self |-> self, other |-> other, ob |-> ob])
    /\ life' = IF kind = "fini" THEN [life EXCEPT ![self] = "dying"] ELSE life
    /\ IF kind \in {"init", "copy"}
       THEN life[self] = "new" /\ \A u \in Threads : self \notin InUse(u)
       ELSE life[self] = "live"
    /\ kind = "fini" => \A u \in Threads : self \notin InUse(u)
    /\ kind \in Binary => life[other] = "live"
    /\ kind \in Binding => Root \in refs[ob]
    /\ UNCHANGED <<fields, owner, object, stage, held, script, after>>

\* A strong reference is dropped; with the last one the object is destroyed.
Decref(t, holder, o) ==
    /\ pc[t] = "idle"
    /\ holder \in refs[o]
    /\ holder = Root => \A u \in Threads : pc[u] # "idle" => op[u].ob # o
    /\ refs' = [refs EXCEPT ![o] = @ \ {holder}]
    /\ IF refs[o] = {holder}
       THEN Begin(t, [kind |-> "destroy", self |-> Null, other |-> Null, ob |-> o])
       ELSE UNCHANGED <<op, pc>>
    /\ UNCHANGED <<fields, owner, life, freed, stage, held, script, after>>

-----------------------------------------------------------------------------
(* Steps of a call *)

\* Start over.
Again(t) == /\ Goto(t, IF op[t].kind = "destroy" THEN "acquire" ELSE Entry(op[t].kind))
            /\ stage' = [stage EXCEPT ![t] = 1]
            /\ after' = [after EXCEPT ![t] = "return"]
            /\ UNCHANGED <<op, life, freed>>

\* The call ends: a reference has begun or ended its life, an object its own.
Return(t) ==
    /\ Goto(t, "idle")
    /\ op' = [op EXCEPT ![t] = NoOp]
    /\ life' = CASE op[t].kind \in {"init", "copy"} -> [life EXCEPT ![op[t].self] = "live"]
                 [] op[t].kind = "fini" -> [life EXCEPT ![op[t].self] = "gone"]
                 [] OTHER -> life
    /\ freed' = IF op[t].kind = "destroy" THEN freed \cup {op[t].ob} ELSE freed
    /\ stage' = [stage EXCEPT ![t] = 1]
    /\ after' = [after EXCEPT ![t] = "return"]

\* The look at wr_obj (or, in Dee_weakref_support_fini, at wl_nodes) without a
\* lock, and what is done when it is NULL.
Check(t) ==
    LET k == op[t].kind
        subject == IF k \in Binary THEN op[t].other ELSE op[t].self
        empty == IF k = "destroy" THEN ptr[op[t].ob] = Null /\ owner[op[t].ob] = Free
                 ELSE wr_obj[subject] = Null
    IN /\ pc[t] = "check"
       /\ CASE ~empty -> Goto(t, "acquire") /\ UNCHANGED <<op, life, freed, stage, after>>
            [] empty /\ k \in {"copyassign", "moveassign"} ->
                 /\ op' = [op EXCEPT ![t].kind = "clear", ![t].other = Null]
                 /\ UNCHANGED <<pc, life, freed, stage, after>>
            [] OTHER -> Return(t)
       /\ UNCHANGED <<fields, owner, refs, held, script>>

\* Go on with the stores of s, and then to label.
Write(t, s, label) ==
    /\ Goto(t, "commit")
    /\ script' = [script EXCEPT ![t] = s]
    /\ after' = [after EXCEPT ![t] = label]
    /\ UNCHANGED <<stage, op>>

\* Release everything, and then go to label.
BackOff(t, label) ==
    /\ Goto(t, "release")
    /\ after' = [after EXCEPT ![t] = label]
    /\ UNCHANGED <<stage, script, op>>

\* On with the plan, or with the stores when it is complete, which are the last
\* unless the function loops.  The locks taken so far guard the pointer to what
\* is locked next.
ProceedLooping(t, loops) ==
    LET plan == Plan[op[t].kind]
        left == {i \in stage[t] + 1 .. Len(plan) : Where(t, plan[i]) # Null}
    IN
    IF left # {}
    THEN /\ stage' = [stage EXCEPT ![t] = CHOOSE i \in left : \A j \in left : i <= j]
         /\ UNCHANGED <<pc, script, after, op>>
    ELSE Write(t, Script(t), IF op[t].kind \in loops THEN "check" ELSE "return")

\* Mutant: one reference is unbound from the dying object instead of all.
Proceed_Once(t) == ProceedLooping(t, {})

\* Dee_weakref_list_fini goes on until its list is empty.
Proceed(t) == ProceedLooping(t, {"destroy"})

\* What `other` is moved out of when self is bound to the same object already.
MoveOut(t) == Unlink(op[t].other) \o Sever(op[t].other)

\* What a function does with a lock it has just got.
Got(t, what) ==
    LET s == op[t].self  x == op[t].other  k == op[t].kind
    IN CASE what = "list" /\ k = "destroy" /\ ptr[op[t].ob] = Null ->
              Write(t, <<Store(op[t].ob, Same, Same, Same)>>, "return")
         [] what = "other" /\ wr_obj[x] = Null ->
              /\ Goto(t, "commit")
              /\ script' = [script EXCEPT ![t] = <<Store(x, x :> Null, Same, Same)>>]
              /\ IF k = "copy" THEN UNCHANGED op /\ after' = [after EXCEPT ![t] = "return"]
                 ELSE /\ op' = [op EXCEPT ![t].kind = "clear", ![t].other = Null]
                      /\ after' = [after EXCEPT ![t] = "check"]
              /\ UNCHANGED stage
         [] what = "self" /\ k = "lock" ->
              Goto(t, "use") /\ UNCHANGED <<stage, script, after, op>>
         [] what = "self" /\ k \in {"clear", "fini"} /\ wr_obj[s] = Null ->
              Write(t, <<Store(s, s :> Null, Same, Same)>>, "return")
         [] what = "self" /\ k = "set" /\ wr_obj[s] = op[t].ob -> BackOff(t, "return")
         [] what = "self" /\ k = "copyassign" /\ wr_obj[s] = wr_obj[x] -> BackOff(t, "return")
         [] what = "self" /\ k = "moveassign" /\ wr_obj[s] = wr_obj[x] ->
              Write(t, MoveOut(t) \o <<Store(s, Same, Same, Same)>>, "return")
         [] OTHER -> Proceed(t)

\* Mutant: wait for the lock with the others in hand.
Refused_Holding(t, what) ==
    IF what = "self" THEN Goto(t, "wait") /\ UNCHANGED <<stage, script, after, op>>
    ELSE BackOff(t, "check")

\* What it does when a lock after the first is taken.
Refused(t, what) ==
    LET s == op[t].self  x == op[t].other  k == op[t].kind
    IN CASE what = "self" /\ k = "copyassign" /\ wr_pself[x] = s -> BackOff(t, "return")
         [] what = "self" /\ k = "moveassign" /\ (wr_pself[x] = s \/ ptr[x] = s) ->
              Write(t, MoveOut(t), "return")
         [] what = "self" -> BackOff(t, "wait")
         [] what = "snext" /\ ptr[s] = x -> BackOff(t, "return")
         [] OTHER -> BackOff(t, "check")

\* ptrlock_waitfor, before the next attempt.
Waitfor(t) == /\ pc[t] = "wait"
              /\ owner[op[t].self] = Free
              /\ Again(t)
              /\ UNCHANGED <<fields, owner, refs, held, script>>

\* ptrlock_lock for the first lock of the plan, ptrlock_trylock for the others.
Acquire(t) ==
    LET what == Plan[op[t].kind][stage[t]]
        l == Where(t, what)
    IN /\ pc[t] = "acquire"
       /\ \/ /\ owner[l] = Free
             /\ owner' = [owner EXCEPT ![l] = t]
             /\ held' = [held EXCEPT ![t] = Append(@, l)]
             /\ Got(t, what)
          \/ /\ owner[l] # Free /\ stage[t] > 1
             /\ Refused(t, what)
             /\ UNCHANGED <<owner, held>>
       /\ UNCHANGED <<fields, life, object>>

\* Back out: the last lock is released, and the others after it.
Release(t) ==
    /\ pc[t] = "release"
    /\ LET l == held[t][Len(held[t])]
       IN /\ owner' = [owner EXCEPT ![l] = Free]
          /\ held' = [held EXCEPT ![t] = SubSeq(@, 1, Len(@) - 1)]
    /\ IF Len(held[t]) > 1 THEN UNCHANGED <<pc, op, life, freed, stage, after>>
       ELSE CASE after[t] = "return" -> Return(t)
              [] after[t] = "wait" -> Goto(t, "wait") /\ UNCHANGED <<op, life, freed, stage, after>>
              [] OTHER -> Again(t)
    /\ UNCHANGED <<fields, refs, script>>

\* Take a strong reference to the objects in which of what self is bound to.
Incref(t, which) ==
    LET o == wr_obj[op[t].self]
    IN /\ pc[t] = "use"
       /\ refs' = IF o \in which THEN [refs EXCEPT ![o] = @ \cup {t}] ELSE refs
       /\ BackOff(t, "return")
       /\ UNCHANGED <<fields, owner, life, freed, held>>

\* Mutant: Dee_Incref.
Use_Blind(t) == Incref(t, Objs)

\* Dee_IncrefIfNotZero of what the locked reference is bound to.
Use(t) == Incref(t, {o \in Objs : refs[o] # {}})

\* The next store of the script.
Commit(t) ==
    LET s == Head(script[t])
        rest == Tail(script[t])
    IN /\ pc[t] = "commit"
       /\ ptr' = s.ptr @@ ptr
       /\ wr_pself' = s.pself @@ wr_pself
       /\ wr_obj' = s.obj @@ wr_obj
       /\ script' = [script EXCEPT ![t] = rest]
       /\ owner' = IF s.unlock = Null THEN owner ELSE [owner EXCEPT ![s.unlock] = Free]
       /\ held' = [held EXCEPT ![t] = Without(@, s.unlock)]
       /\ IF rest # <<>> THEN UNCHANGED <<pc, op, life, freed, stage, after>>
          ELSE IF after[t] = "return" THEN Return(t)
          ELSE Again(t)
       /\ UNCHANGED refs

-----------------------------------------------------------------------------

Step(t) == Check(t) \/ Acquire(t) \/ Waitfor(t) \/ Release(t) \/ Use(t) \/ Commit(t)

Next == \E t \in Threads :
    \/ \E k \in Ops, s \in Refs :
          \E x \in IF k \in Binary THEN Refs \ {s} ELSE {Null},
             o \in IF k \in Binding THEN Objs ELSE {Null} : Call(t, k, s, x, o)
    \/ \E h \in {t, Root}, o \in Objs : Decref(t, h, o)
    \/ Step(t)

Spec == Init /\ [][Next]_vars

-----------------------------------------------------------------------------
(* Properties *)

\* Every variable has its type.
TypeOK == /\ ptr \in [Locs -> Refs \cup {Null}]
          /\ owner \in [Locs -> Threads \cup {Free}]
          /\ wr_pself \in [Refs -> Locs \cup {Null}]
          /\ wr_obj \in [Refs -> Objs \cup {Null}]
          /\ life \in [Refs -> {"new", "live", "dying", "gone"}]
          /\ refs \in [Objs -> SUBSET (Threads \cup {Root})]
          /\ freed \subseteq Objs
          /\ pc \in [Threads -> {"idle", "check", "acquire", "wait", "use", "commit", "release"}]
          /\ \A t \in Threads : op[t].kind \in Kinds \cup {"destroy"}

\* Locks are exact: a location is locked by the thread that counts on it and by
\* nobody else, through every way in and out of a function; whoever is in no
\* call has none.
LocksExact ==
    /\ \A t \in Threads, l \in Locs : owner[l] = t <=> l \in Ranked(held[t])
    /\ \A t \in Threads : pc[t] = "idle" => held[t] = <<>>

ObjectOf(l) == IF l \in Objs THEN l ELSE wr_obj[l]

\* Both directions of a link agree wherever nobody holds its two ends, and link
\* references bound to one object.
LinksAgree ==
    \A l \in Locs :
        owner[l] = Free /\ ptr[l] # Null /\ owner[ptr[l]] = Free
            => wr_pself[ptr[l]] = l /\ wr_obj[ptr[l]] = ObjectOf(l)

\* No dangling reference, because destruction finds and unbinds them all: whatever a
\* thread may follow a pointer to has not been freed, be it through a bound
\* reference, a lock it holds or wants, or the object whose count it looks at.
NoDangling ==
    /\ \A r \in Refs : owner[r] = Free /\ life[r] = "live" => wr_obj[r] \notin freed
    /\ \A t \in Threads :
          /\ Ranked(held[t]) \cap freed = {}
          /\ pc[t] = "acquire" => Where(t, Plan[op[t].kind][stage[t]]) \notin freed
          /\ pc[t] = "use" => wr_obj[op[t].self] \notin freed

\* An object that is being destroyed is not brought back to life: no weak
\* reference gives out a strong one any more.
NoResurrection ==
    \A t \in Threads : pc[t] # "idle" /\ op[t].kind = "destroy" => refs[op[t].ob] = {}

\* The thread spins: it is refused the lock it can only wait for.
Spins(t, l) == \/ pc[t] = "acquire" /\ stage[t] = 1 /\ l = Where(t, Plan[op[t].kind][1])
               \/ pc[t] = "wait" /\ l = op[t].self

\* Spinning ends: whoever has the lock a thread spins for is inside a function that
\* will give it up without having to wait for anybody, so that taking several
\* locks in any order leads to no deadlock.
SpinsForRunner ==
    \A t \in Threads, l \in Locs :
        Spins(t, l) /\ owner[l] # Free =>
            /\ pc[owner[l]] # "idle"
            /\ \A m \in Locs : Spins(owner[l], m) => owner[m] = Free

\* A reference is not touched by anybody once Dee_weakref_fini has returned: the
\* lock is "part of the synchronization process used to prevent race conditions
\* when working with weakref callbacks".
NoUseAfterFini ==
    \A r \in Refs : life[r] = "gone" => \A t \in Threads : r \notin Ranked(held[t])

=============================================================================
