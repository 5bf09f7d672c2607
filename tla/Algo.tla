-------------------------------- MODULE Algo --------------------------------
(***************************************************************************)
(* core/algo: the algorithms that read one buffer and push to another, in  *)
(* their four generations (algo.h, ops.h, next.h, pipeline.h), also where  *)
(* the two buffers share storage.  Every element goes through a list of    *)
(* operations, each a map or a filter.                                     *)
(***************************************************************************)
EXTENDS Buffer, Integers

CONSTANTS Map,   \* the functions that elements are mapped by, by name
          Keep,  \* the sets of elements that filters keep, by name
          Lists  \* the lists of operations in use

IsMap(op) == op \in DOMAIN Map

ASSUME ListsAssumption ==
    /\ \A f \in DOMAIN Map : Map[f] \in [Value -> Value]
    /\ \A p \in DOMAIN Keep : Keep[p] \subseteq Value /\ ~ IsMap(p)
    /\ \A ops \in Lists :
          /\ Len(ops) \in 1 .. 3 /\ ops \in Seq(DOMAIN Map \cup DOMAIN Keep)
          /\ Len(ops) = 2 => IsMap(ops[1]) \/ ~ IsMap(ops[2])
          /\ Len(ops) = 3 => IsMap(ops[1]) /\ ~ IsMap(ops[2]) /\ IsMap(ops[3])

-----------------------------------------------------------------------------
(* A slip: what a definition below would be with one plausible mistake.     *)

\* The truncating loop goes on after a failed push.
Stops_Never(lazy, s, o) == FALSE

-----------------------------------------------------------------------------
(* What becomes of one element: nothing, or one element to push.             *)

Emit(op) == [x \in Value |-> IF IsMap(op) THEN <<Map[op][x]>>
                             ELSE IF x \in Keep[op] THEN <<x>> ELSE <<>>]

\* What emit makes of each element, in order.
Each(emit, xs) ==
    LET ys[k \in 0 .. Len(xs)] == IF k = 0 THEN <<>> ELSE ys[k - 1] \o emit[xs[k]]
    IN  ys[Len(xs)]

\* Whole sequences, one pass for each operation.
Passes(ops, xs) ==
    LET ys[k \in 0 .. Len(ops)] == IF k = 0 THEN xs ELSE Each(Emit(ops[k]), ys[k - 1])
    IN  ys[Len(ops)]

Emitted(ops) == [x \in Value |-> Passes(ops, <<x>>)]

\* The loops of next.h and pipeline.h end with a failed push; those of algo.h,
\* ops.h and transform_to go on, and fail again.
Stops(lazy, s, o) == lazy /\ s.views[o].count = s.views[o].capacity

\* The loop: how many elements there are, and where, is read before it; each
\* element is read when it is its turn.  emitted says what becomes of it.
Loop(s, emitted, lazy, i, o) ==
    LET in == s.views[i]
        after[k \in 0 .. in.count] ==
            IF k = 0 THEN [s |-> s, done |-> FALSE]
            ELSE LET t == after[k - 1]
                     ys == emitted[t.s.mem[in.base + k]]
                 IN  IF t.done \/ ys = <<>> THEN t
                     ELSE [s |-> Pushed(t.s, o, ys[1]), done |-> Stops(lazy, t.s, o)]
    IN  after[in.count].s

\* algo::transform and filter, their adapters in ops.h, transform_to.
Eager(s, op, i, o) == Loop(s, Emit(op), FALSE, i, o)

\* algo::apply: the operations one after the other, each from the whole input.  They
\* are not composed, as algo_test_1.cpp (MultipleOpsExecuteSequentially) expects.
Apply(s, ops, i, o) ==
    LET after[k \in 0 .. Len(ops)] == IF k = 0 THEN s ELSE Eager(after[k - 1], ops[k], i, o)
    IN  after[Len(ops)]

\* next::transform and filter.
Truncating(s, op, i, o) == Loop(s, Emit(op), TRUE, i, o)

\* pipeline_t, of any number of operations.
Pipeline(s, ops, i, o) == Loop(s, Emitted(ops), TRUE, i, o)

\* The operations that | makes one of: two maps, a map and a filter, two filters;
\* a map, a filter and a map.
FusedPair(a, b, x) ==
    IF IsMap(a)
    THEN IF IsMap(b) THEN <<Map[b][Map[a][x]]>>
         ELSE IF Map[a][x] \in Keep[b] THEN <<Map[a][x]>> ELSE <<>>
    ELSE IF x \in Keep[a] /\ x \in Keep[b] THEN <<x>> ELSE <<>>

MapFilterMap(f, p, g, x) == IF Map[f][x] \in Keep[p] THEN <<Map[g][Map[f][x]]>> ELSE <<>>

Fused(s, ops, i, o) ==
    Loop(s, [x \in Value |-> IF Len(ops) = 2 THEN FusedPair(ops[1], ops[2], x)
                             ELSE MapFilterMap(ops[1], ops[2], ops[3], x)],
         TRUE, i, o)

\* The ways to run a list of operations.
Kinds(ops) ==
    IF Len(ops) = 1 THEN {"eager", "truncating"} ELSE {"apply", "pipeline", "fused"}

Ran(kind, ops, i, o) ==
    CASE kind = "eager" -> Eager(Now, ops[1], i, o)
      [] kind = "truncating" -> Truncating(Now, ops[1], i, o)
      [] kind = "apply" -> Apply(Now, ops, i, o)
      [] kind = "pipeline" -> Pipeline(Now, ops, i, o)
      [] kind = "fused" -> Fused(Now, ops, i, o)

-----------------------------------------------------------------------------
(* The reference *)

\* The elements that running ops should push: what the passes make of the input,
\* and for apply what each operation makes of it by itself.
Results(kind, ops, xs) ==
    IF kind = "apply" THEN Each([op \in DOMAIN Map \cup DOMAIN Keep |-> Passes(<<op>>, xs)], ops)
                      ELSE Passes(ops, xs)

\* The output does not begin among the elements still to be read.
Behind(i, o) ==
    LET ahead == views[o].base + views[o].count
    IN  \/ ahead <= views[i].base \/ ahead >= views[i].base + views[i].count
        \/ ~ CanWrite(o)

\* apply's second operation would read what its first has written.
Undisturbed(kind, i, o) == Behind(i, o) /\ (kind = "apply" => Part(i) \cap Part(o) = {})

Run(kind, ops, i, o) ==
    /\ LET after == Ran(kind, ops, i, o)
       IN  after.views[o].overflow <= MaxOverflow /\ Become(after)
    /\ spoiled' = IF Undisturbed(kind, i, o) THEN spoiled ELSE spoiled \cup ({o} \cap Root)
    /\ Given(o, Results(kind, ops, Contents(i)))

AlgoNext ==
    \/ Next
    \/ \E ops \in Lists : \E kind \in Kinds(ops) : \E i, o \in DOMAIN views :
          Run(kind, ops, i, o)

AlgoSpec == Init /\ [][AlgoNext]_vars

-----------------------------------------------------------------------------
(* Properties *)

\* Run over the buffer, truncating, as a pipeline or fused into one, a list of
\* operations pushes the same elements; apply pushes what its first operation makes
\* of the input, and then what its next one makes of it.  The output, root or slice,
\* receives them up to its capacity; the eager loops count every one that does not
\* fit, the truncating ones only the first; and nothing else changes, the input in
\* particular, but for elements of it that the output was laid over.
RunAgrees(kind, ops, i, o) ==
    LET after == Ran(kind, ops, i, o)
        old == views[o]
        new == after.views[o]
        results == Results(kind, ops, Contents(i))
        fit == Fitting(<<>>, results, old.capacity - old.count)
        lost == Len(results) - Len(fit)
    IN  /\ new = [old EXCEPT !.count = @ + Len(fit),
                             !.overflow = @ + IF kind \in {"eager", "apply"} \/ lost = 0
                                              THEN lost ELSE 1]
        /\ after.views = [views EXCEPT ![o] = new]
        /\ after.mem = [a \in 1 .. Size |->
                           IF a - old.base - old.count \in DOMAIN fit
                           THEN fit[a - old.base - old.count] ELSE mem[a]]

AlgorithmsAgree ==
    \A ops \in Lists : \A kind \in Kinds(ops) : \A i, o \in DOMAIN views :
        Undisturbed(kind, i, o) => RunAgrees(kind, ops, i, o)
=============================================================================
