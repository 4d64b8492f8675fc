------------------------- MODULE MaterializationGraph -------------------------
(***************************************************************************)
(* What a traced run is told to have been (runtime/                        *)
(* materialization_graph.cpp): the recorded timeline is folded into a      *)
(* graph of images, regions and backings, and each of them that was        *)
(* written and then executed gets a generation: 0 is the image the process *)
(* started with, and code that generation n wrote is of generation n + 1.  *)
(*                                                                         *)
(* The builder sees the events only.  A region is its process and its      *)
(* addresses, a backing its process and the tracer's number for it (the    *)
(* number fixes the kind); the address 0 stands for "no address".  The     *)
(* thread of an event is always known, as it is on Linux.  In a protection *)
(* candidate stands for the armed breakpoint as well.                      *)
(***************************************************************************)
EXTENDS Words, TLC

Unknown == -1

\* What an event of the timeline says; an event states the fields it has.
NoEvent == [kind |-> "none", seq |-> 0, subject |-> "", uid |-> 1, tid |-> 0, parent_uid |-> 0, parent_tid |-> 0, thread_start |-> FALSE,
            inherited |-> {}, backing |-> 0, backing_bytes |-> 0, target |-> 0, lo |-> 0, hi |-> 0, map_lo |-> 0, map_hi |-> 0,
            relation |-> "", anonymous |-> FALSE, candidate |-> FALSE, failed |-> FALSE, written |-> Unknown, changed |-> 0,
            source_buffer |-> 0, mutation |-> FALSE, executable |-> FALSE]

image_kinds == {"ORIGINAL_IMAGE", "ORIGINAL_IMAGE_REGION", "REPLACEMENT_IMAGE", "RECONSTRUCTED_IMAGE", "INSTALLED_VALIDATED_IMAGE"}

memory_kinds == {"ANONYMOUS_REGION", "BACKING", "CROSS_PROCESS_REGION"}

kind_code == ("ORIGINAL_IMAGE_REGION" :> 1) @@ ("ANONYMOUS_REGION" :> 2) @@ ("CROSS_PROCESS_REGION" :> 6) @@ ("REPLACEMENT_IMAGE" :> 7)

NewNode(kind, uid, lo, hi) ==
    [kind |-> kind, uid |-> uid, backing |-> 0, lo |-> lo, hi |-> hi, generation |-> Unknown, executed |-> FALSE, cross |-> FALSE,
     writer |-> <<0, 0>>, writer_generation |-> Unknown, write_first |-> 0, write_last |-> 0, first_execution |-> 0,
     evidence |-> "OBSERVED", write_confirmed |-> FALSE, write_edge |-> FALSE, base |-> Unknown, mutation_parent |-> Unknown]

\* The dumps say which backings and regions were found to hold something when
\* they were executed.  Of two dumps of one region the later one counts.
preindex_artifacts(arts) ==
    LET regs == SelectSeq(arts, LAMBDA a : a.kind = "materialized_region" /\ a.lo > 0)
    IN [backings |-> {<<a.uid, a.backing>> : a \in {b \in ToSet(arts) : b.kind \in {"materialized_region", "runtime_backing_elf"} /\ b.backing > 0 /\ b.nonzero}},
        regions |-> {<<regs[i].uid, regs[i].lo, regs[i].hi>> : i \in
                        {j \in DOMAIN regs : regs[j].nonzero /\ \A k \in DOMAIN regs : k > j => <<regs[k].uid, regs[k].lo, regs[k].hi>> # <<regs[j].uid, regs[j].lo, regs[j].hi>>}}]

Builder(arts) ==
    [nodes |-> <<>>, edges |-> <<>>, original |-> <<>>, thread_generation |-> <<>>, thread_node |-> <<>>, backings |-> <<>>,
     regions |-> <<>>, generated |-> {}, latest |-> <<>>, divergences |-> <<>>, captured |-> preindex_artifacts(arts)]

At(f, k, d) == IF k \in DOMAIN f THEN f[k] ELSE d

active_generation(b, e) == At(b.thread_generation, <<e.uid, e.tid>>, Unknown)

active_node(b, e) == At(b.thread_node, <<e.uid, e.tid>>, 0)

add_edge(b, src, dst, kind, evidence, writer) ==
    [b EXCEPT !.edges = Append(@, [src |-> src, dst |-> dst, kind |-> kind, source_generation |-> Unknown, writer_generation |-> writer, evidence |-> evidence])]

\* A lookup gives the builder, which may have grown, and the node.
Found(b, id) == [b |-> b, id |-> id]

Runs_As(b, e, id) ==
    [b EXCEPT !.latest = (e.uid :> id) @@ @, !.thread_node = (<<e.uid, e.tid>> :> id) @@ @,
              !.thread_generation = (<<e.uid, e.tid>> :> b.nodes[id].generation) @@ @]

ensure_original(b, e) ==
    IF e.uid \in DOMAIN b.original THEN b
    ELSE LET id == Len(b.nodes) + 1
             n == [NewNode("ORIGINAL_IMAGE", e.uid, 0, 0) EXCEPT !.generation = 0, !.executed = TRUE, !.first_execution = e.seq, !.evidence = "CONFIRMED"]
         IN Runs_As([b EXCEPT !.nodes = Append(@, n), !.original = (e.uid :> id) @@ @], e, id)

ensure_backing(b, uid, bid) ==
    IF <<uid, bid>> \in DOMAIN b.backings THEN Found(b, b.backings[<<uid, bid>>])
    ELSE Found([b EXCEPT !.nodes = Append(@, [NewNode("BACKING", uid, 0, 0) EXCEPT !.backing = bid, !.evidence = "CONFIRMED", !.write_confirmed = <<uid, bid>> \in b.captured.backings]),
                         !.backings = (<<uid, bid>> :> Len(b.nodes) + 1) @@ @], Len(b.nodes) + 1)

\* Regions are searched in the order of their addresses.
Before(k, l) == k[2] < l[2] \/ (k[2] = l[2] /\ (k[3] < l[3] \/ (k[3] = l[3] /\ kind_code[k[4]] <= kind_code[l[4]])))

Overlapping(b, uid, lo, hi, kinds) == {k \in DOMAIN b.regions : k[1] = uid /\ k[2] < hi /\ k[3] > lo /\ k[4] \in kinds}

FirstOf(b, keys) == b.regions[CHOOSE k \in keys : \A l \in keys : Before(k, l)]

ensure_region(b, uid, lo, end, kind, cross) ==
    LET hi == IF end <= lo THEN lo + 1 ELSE end
        key == <<uid, lo, hi, kind>>
        same == Overlapping(b, uid, lo, hi, {kind})
    IN CASE key \in DOMAIN b.regions -> Found(b, b.regions[key])
         [] key \notin DOMAIN b.regions /\ same # {} -> Found(b, FirstOf(b, same))
         [] OTHER -> Found([b EXCEPT !.nodes = Append(@, [NewNode(kind, uid, lo, hi) EXCEPT !.cross = cross, !.write_confirmed = <<uid, lo, hi>> \in b.captured.regions]),
                                     !.regions = (key :> Len(b.nodes) + 1) @@ @], Len(b.nodes) + 1)

region_kind(e, cross) ==
    CASE e.relation = "replacement_at_original_base" -> "REPLACEMENT_IMAGE"
      [] e.relation = "original_image" -> "ORIGINAL_IMAGE_REGION"
      [] OTHER -> IF cross THEN "CROSS_PROCESS_REGION" ELSE "ANONYMOUS_REGION"

Target(e) == IF e.target = 0 THEN e.uid ELSE e.target

Crosses(e) == Target(e) # e.uid

event_region(b, e, uid, cross) == ensure_region(b, uid, e.lo, e.hi, region_kind(e, cross), cross)

OfImage(e) == e.relation \in {"original_image", "replacement_at_original_base"}

\* A generation is given once, and only to what was seen to be written; the
\* first thing executed in a process whose writer is unknown gets 1.
Generation(b, n) ==
    LET base == IF n.mutation_parent # Unknown THEN n.mutation_parent ELSE n.base
    IN CASE n.generation # Unknown \/ ~n.write_confirmed -> n.generation
         [] base # Unknown -> base + 1
         [] OTHER -> IF n.uid \in b.generated THEN Unknown ELSE 1

assign_generation(b, id) ==
    LET n == b.nodes[id]
        g == Generation(b, n)
    IN IF n.generation # Unknown \/ ~n.write_confirmed THEN b
       ELSE [b EXCEPT !.nodes[id] = [@ EXCEPT !.generation = g, !.evidence = IF g # Unknown THEN "CONFIRMED" ELSE "PROVENANCE_UNKNOWN"]]

\* Bytes were there when the code ran, and nobody was seen to write them.
ObservedBytes(b, id) ==
    IF b.nodes[id].write_confirmed /\ ~b.nodes[id].write_edge
    THEN [add_edge(b, 0, id, "MATERIALIZED_BY_RUNTIME", "CONFIRMED", Unknown) EXCEPT !.nodes[id].write_edge = TRUE]
    ELSE b

\* Mutant: a new thread belongs to no generation.
start_thread_Forgets(b, e) == b

start_thread(b, e) ==
    LET parent == <<e.uid, e.parent_tid>>
        inherit(f) == IF parent \in DOMAIN f THEN (<<e.uid, e.tid>> :> f[parent]) @@ f ELSE f
    IN [b EXCEPT !.thread_generation = inherit(@), !.thread_node = inherit(@)]

Executed(b, id, e) ==
    [b EXCEPT !.nodes[id] = [@ EXCEPT !.executed = TRUE, !.first_execution = IF @ = 0 THEN e.seq ELSE @]]

HandedOver(f, e) ==
    LET sure == f.b.nodes[f.id].write_confirmed \/ e.backing_bytes > 0 \/ <<e.uid, e.backing>> \in f.b.captured.backings
        Judged(b) == [b EXCEPT !.nodes[f.id].evidence = IF b.nodes[f.id].generation # Unknown THEN "CONFIRMED" ELSE "PROVENANCE_UNKNOWN"]
    IN Judged(Executed(assign_generation(ObservedBytes([f.b EXCEPT !.nodes[f.id].write_confirmed = sure], f.id), f.id), f.id, e))

IntoImage(r, id, e) ==
    LET n == r.b.nodes[id]
        b == add_edge([r.b EXCEPT !.nodes[r.id] =
                          [@ EXCEPT !.backing = n.backing, !.lo = 0, !.hi = 0, !.executed = TRUE, !.generation = n.generation, !.writer = n.writer,
                                    !.writer_generation = n.writer_generation, !.write_first = n.write_first, !.write_last = n.write_last,
                                    !.first_execution = e.seq, !.write_confirmed = n.write_confirmed]], id, r.id, "EXEC_HANDOFF_TO", "CONFIRMED", Unknown)
    IN IF n.generation # Unknown THEN Runs_As(b, e, r.id) ELSE b

\* The process goes on as the image that its backing held.
exec_handoff(b, e) ==
    LET Went(f) == IntoImage(ensure_region(HandedOver(f, e), e.uid, 0, 1, "REPLACEMENT_IMAGE", FALSE), f.id, e)
    IN Went(ensure_backing(b, e.uid, e.backing))

\* The child has its own nodes for the backings of its parent, with all that is
\* known of them; the child was not there before, so these are new.
inherit_backing(b, e, bid) ==
    LET p == b.backings[<<e.parent_uid, bid>>]
        n == b.nodes[p]
        AsParent(f) ==
            add_edge([f.b EXCEPT !.nodes[f.id] = [@ EXCEPT !.generation = n.generation, !.writer = n.writer, !.writer_generation = n.writer_generation,
                                                           !.write_first = n.write_first, !.write_last = n.write_last, !.write_confirmed = n.write_confirmed,
                                                           !.write_edge = n.write_edge, !.base = n.base, !.mutation_parent = n.mutation_parent]],
                     p, f.id, "CHILD_INHERITED", "CONFIRMED", Unknown)
    IN IF <<e.parent_uid, bid>> \in DOMAIN b.backings THEN AsParent(ensure_backing(b, e.uid, bid)) ELSE b

\* An exec that left the initial image is a divergence, whatever came of it.
start_event(b, e) ==
    CASE e.thread_start -> start_thread(b, e)
      [] ~e.thread_start /\ e.subject = "runtime_backing_exec_handoff" ->
           [exec_handoff(b, e) EXCEPT !.divergences = Append(@, "RUNTIME_EXEC_TARGET_DIVERGED")]
      [] OTHER -> FoldLeft(LAMBDA c, bid : inherit_backing(c, e, bid), ensure_original(b, e), SetToSortSeq(e.inherited, <))

allocation_event(b, e) ==
    LET known == e.anonymous \/ e.candidate \/ Crosses(e) \/ OfImage(e)
        Allocated(f) == add_edge(f.b, active_node(b, e), f.id, "ALLOCATED_FROM", "OBSERVED", active_generation(b, e))
        Crossed(f) == Found([f.b EXCEPT !.nodes[f.id].cross = @ \/ Crosses(e)], f.id)
    IN CASE e.backing # 0 -> Allocated(ensure_backing(b, e.uid, e.backing))
         [] e.backing = 0 /\ known -> Allocated(Crossed(event_region(b, e, Target(e), Crosses(e))))
         [] OTHER -> b

\* Bytes of an executed anonymous mapping changed: the mapping becomes a node of
\* its own, and waits for its execution to be given the next generation.
CanRoll(b, e, key) ==
    /\ e.mutation /\ e.map_lo > 0 /\ e.map_hi > e.map_lo /\ key \in DOMAIN b.regions
    /\ b.nodes[b.regions[key]].kind = "ANONYMOUS_REGION"
    /\ b.nodes[b.regions[key]].executed /\ b.nodes[b.regions[key]].generation # Unknown

roll_same_mapping_mutation(b, e, key) ==
    LET prior == b.regions[key]
        id == Len(b.nodes) + 1
        n == [NewNode("ANONYMOUS_REGION", key[1], e.map_lo, e.map_hi) EXCEPT !.writer = <<e.uid, e.tid>>, !.write_first = e.seq, !.write_last = e.seq, !.evidence = "CONFIRMED",
                      !.write_confirmed = TRUE, !.write_edge = TRUE, !.mutation_parent = b.nodes[prior].generation]
    IN Found(add_edge([b EXCEPT !.nodes = Append(@, n), !.regions = (key :> id) @@ @], prior, id, "MUTATED_FROM", "CONFIRMED", Unknown), id)

Covers(n, uid, a) == n.uid = uid /\ n.lo > 0 /\ n.hi > n.lo /\ a >= n.lo /\ a < n.hi

\* A write that failed, or was only asked for, or wrote nothing, is no evidence;
\* one that does not say how much it wrote is.
IsConfirmed(e) == ~e.failed /\ e.written # 0

written_node(b, e) ==
    LET key == <<Target(e), e.map_lo, e.map_hi, "ANONYMOUS_REGION">>
    IN CASE e.backing # 0 -> ensure_backing(b, e.uid, e.backing)
         [] e.backing = 0 /\ IsConfirmed(e) /\ CanRoll(b, e, key) -> roll_same_mapping_mutation(b, e, key)
         [] OTHER -> event_region(b, e, Target(e), Crosses(e))

Booked(f, e, g) ==
    IF ~IsConfirmed(e) THEN f
    ELSE Found([f.b EXCEPT !.nodes[f.id] = [@ EXCEPT !.write_confirmed = TRUE, !.writer = <<e.uid, e.tid>>, !.evidence = "CONFIRMED",
                                                     !.write_first = IF @ = 0 THEN e.seq ELSE @, !.write_last = e.seq,
                                                     !.base = IF e.mutation THEN @ ELSE g, !.writer_generation = IF e.mutation THEN @ ELSE g]], f.id)

\* Where the bytes came from: a known layer that the source buffer lies in, the
\* image for a patch of itself, or the code that wrote.
WriteEdges(f, e, src, g) ==
    LET verdict == IF IsConfirmed(e) THEN "CONFIRMED" ELSE "FAILED"
        sources == IF e.source_buffer = 0 THEN {} ELSE {i \in DOMAIN f.b.nodes : Covers(f.b.nodes[i], e.uid, e.source_buffer) /\ f.b.nodes[i].generation # Unknown}
        image == f.b.nodes[f.id].kind = "ORIGINAL_IMAGE_REGION"
        b == IF image THEN add_edge(f.b, At(f.b.original, Target(e), 0), f.id, "MUTATED_FROM", verdict, g) ELSE f.b
    IN CASE sources # {} -> add_edge(b, Min(sources), f.id, "WRITTEN_FROM", verdict, g)
         [] sources = {} /\ ~image -> add_edge(b, src, f.id, "MATERIALIZED_BY_RUNTIME", verdict, g)
         [] OTHER -> b

write_event(b, e) ==
    LET g == active_generation(b, e)
        Traced(f) == IF IsConfirmed(e) /\ e.mutation /\ f.b.nodes[f.id].mutation_parent # Unknown THEN f.b
                     ELSE [WriteEdges(f, e, active_node(b, e), g) EXCEPT !.nodes[f.id].write_edge = @ \/ IsConfirmed(e)]
    IN Traced(Booked(written_node(b, e), e, g))

protect_event(b, e) ==
    LET there == Overlapping(b, Target(e), e.lo, e.hi, DOMAIN kind_code)
        evidence == e.candidate \/ Crosses(e) \/ OfImage(e)
        Protected(f) == add_edge(f.b, f.id, f.id, "PROTECTED_EXECUTABLE", IF e.failed THEN "FAILED" ELSE "CONFIRMED", Unknown)
    IN CASE e.executable /\ e.backing # 0 -> Protected(ensure_backing(b, e.uid, e.backing))
         [] e.executable /\ e.backing = 0 /\ there # {} -> Protected(Found(b, FirstOf(b, there)))
         [] e.executable /\ e.backing = 0 /\ there = {} /\ evidence -> Protected(event_region(b, e, Target(e), Crosses(e)))
         [] OTHER -> b

\* What was executed is looked for among the regions of images and of other
\* processes first; the region of the event itself is looked up, and so made,
\* in any case.
executed_node(b, e) ==
    LET there == Overlapping(b, e.uid, e.lo, e.hi, {"CROSS_PROCESS_REGION", "REPLACEMENT_IMAGE", "ORIGINAL_IMAGE_REGION"})
        own == event_region(b, e, e.uid, FALSE)
    IN CASE e.backing # 0 -> ensure_backing(b, e.uid, e.backing)
         [] e.backing = 0 /\ there # {} -> Found(own.b, FirstOf(b, there))
         [] OTHER -> own

Ran(b, id, e) ==
    LET known == b.nodes[id].generation # Unknown
        b1 == add_edge([Executed(b, id, e) EXCEPT !.nodes[id].evidence = IF known THEN @ ELSE "PROVENANCE_UNKNOWN"],
                       id, id, "FIRST_EXECUTED_AS", "CONFIRMED", Unknown)
    IN IF known THEN Runs_As([b1 EXCEPT !.generated = @ \cup {e.uid}], e, id) ELSE b1

execute_event(b, e) ==
    LET Seen(f) == IF e.backing # 0 THEN <<e.uid, e.backing>> \in b.captured.backings \/ e.backing_bytes > 0
                   ELSE \/ e.changed > 0
                        \/ /\ f.b.nodes[f.id].kind = "ANONYMOUS_REGION"
                           /\ <<e.uid, f.b.nodes[f.id].lo, f.b.nodes[f.id].hi>> \in b.captured.regions
        Ended(f) == Ran(assign_generation(ObservedBytes([f.b EXCEPT !.nodes[f.id].write_confirmed = @ \/ Seen(f)], f.id), f.id), f.id, e)
        Compared(f) == IF f.b.nodes[f.id].kind = "ORIGINAL_IMAGE_REGION" /\ e.changed > 0
                       THEN [Ended(f) EXCEPT !.divergences = Append(@, "EXECUTION_TIME_IMAGE_BYTES_CHANGED")] ELSE Ended(f)
    IN Compared(executed_node(b, e))

Handle(b, e) ==
    CASE e.kind = "ProcessStart" -> start_event(b, e)
      [] e.kind \in {"MemoryAllocate", "FileCreate"} -> allocation_event(b, e)
      [] e.kind \in {"MemoryWrite", "FileWrite"} -> write_event(b, e)
      [] e.kind = "MemoryProtect" -> protect_event(b, e)
      [] e.kind = "MaterializedExecute" -> execute_event(b, e)
      [] OTHER -> b

\* What an artifact is a copy of: what its event executed, its backing, what
\* covers its address, what was executed last, the image.
find_source_for_artifact(b, a) ==
    LET executed == {i \in DOMAIN b.nodes : a.execute_seq # 0 /\ b.nodes[i].uid = a.uid /\ b.nodes[i].first_execution = a.execute_seq}
        covering == {i \in DOMAIN b.nodes : a.lo > 0 /\ Covers(b.nodes[i], a.uid, a.lo)}
    IN CASE executed # {} -> Min(executed)
         [] executed = {} /\ a.backing # 0 /\ <<a.uid, a.backing>> \in DOMAIN b.backings -> b.backings[<<a.uid, a.backing>>]
         [] executed = {} /\ <<a.uid, a.backing>> \notin DOMAIN b.backings /\ covering # {} -> Min(covering)
         [] OTHER -> At(b.latest, a.uid, At(b.original, a.uid, 0))

\* A copy has the past of what it is a copy of.
Copied(n, kind, uid, executed, evidence) ==
    [NewNode(kind, uid, 0, 0) EXCEPT !.generation = n.generation, !.writer = n.writer, !.writer_generation = n.writer_generation, !.write_first = n.write_first,
                                     !.write_last = n.write_last, !.first_execution = n.first_execution, !.executed = executed, !.evidence = evidence]

\* What an artifact's state says of an execution: every state that names a
\* handoff does, one that could not be matched and one that failed included.
executed_states == {"EXEC_HANDOFF_CONFIRMED", "EXEC_HANDOFF_UNCORRELATED", "EXEC_HANDOFF_FAILED", "UNPACKED_VALIDATED"}

artifact(b, a, replacement) ==
    LET kind == IF a.kind = "materialized_region" THEN "MEMORY_DUMP" ELSE "RECONSTRUCTED_IMAGE"
        id == Len(b.nodes) + 1
        src == find_source_for_artifact(b, a)
        past == IF src = 0 THEN NewNode(kind, a.uid, 0, 0) ELSE b.nodes[src]
        n == Copied(past, kind, a.uid, a.state \in executed_states, a.state)
        b1 == add_edge([b EXCEPT !.nodes = Append(@, n)], src, id, IF kind = "MEMORY_DUMP" THEN "DUMPED_AS" ELSE "RECONSTRUCTED_AS", "CONFIRMED", Unknown)
    IN CASE a.kind \notin {"materialized_region", "reconstructed_elf", "unpacked_pe", "runtime_backing_elf"} -> b
         [] a.state = "UNPACKED_VALIDATED" /\ replacement ->
              [add_edge([b1 EXCEPT !.nodes = Append(@, Copied(n, "INSTALLED_VALIDATED_IMAGE", a.uid, TRUE, "UNPACKED_VALIDATED"))], id, id + 1, "INSTALLED_AS", "CONFIRMED", Unknown)
                  EXCEPT !.divergences = Append(@, "INSTALLED_IMAGE_HASH_CHANGED")]
         [] OTHER -> b1

final_edges(b) ==
    [b EXCEPT !.edges = [i \in DOMAIN b.edges |->
        IF b.edges[i].src = 0 \/ b.edges[i].kind \in {"MATERIALIZED_BY_RUNTIME", "PROTECTED_EXECUTABLE", "FIRST_EXECUTED_AS"} THEN b.edges[i]
        ELSE [b.edges[i] EXCEPT !.source_generation = b.nodes[b.edges[i].src].generation]]]

summarize(b) ==
    LET Gens(P(_)) == {b.nodes[i].generation : i \in {j \in DOMAIN b.nodes : P(b.nodes[j])}} \ {Unknown}
        all == Gens(LAMBDA n : TRUE)
        image == Gens(LAMBDA n : n.kind \in image_kinds)
    IN [generations |-> Cardinality(all), deepest |-> Max(all \cup {0}), executed |-> Cardinality(Gens(LAMBDA n : n.executed)), image |-> Cardinality(image),
        memory_only |-> Cardinality(Gens(LAMBDA n : n.kind \in memory_kinds /\ n.generation > 0) \ image), cross |-> Cardinality(Gens(LAMBDA n : n.cross)),
        unknown_sources |-> Cardinality({i \in DOMAIN b.edges : b.edges[i].kind = "MATERIALIZED_BY_RUNTIME"})]

Numbered(tl) == [i \in DOMAIN tl |-> [tl[i] EXCEPT !.seq = i]]

Folded(tl, arts) == FoldLeft(Handle, Builder(arts), tl)

artifacts_phase(b, x) == FoldLeft(LAMBDA c, a : artifact(c, a, x.replacement), b, x.artifacts)

Graph(b) == [state |-> "CONFIRMED", valid |-> TRUE, ranges |-> <<>>, nodes |-> b.nodes, edges |-> b.edges, divergences |-> b.divergences, summary |-> summarize(b)]

build_materialization_graph(x) == Graph(final_edges(artifacts_phase(Folded(x.timeline, x.artifacts), x)))

(***************************************************************************)
(* Timelines: what the tracer records of a program that does a few of the  *)
(* things below.  Process 1 has the threads 10 and 11, process 2 the       *)
(* thread 20; 5 and 6 are backings.                                        *)
(***************************************************************************)
Event(kind, uid, tid) == [NoEvent EXCEPT !.kind = kind, !.uid = uid, !.tid = tid]

Start(uid, tid) == Event("ProcessStart", uid, tid)

\* An anonymous mapping is made executable, runs, and changes afterwards.
Mapped == <<[Event("MemoryAllocate", 1, 10) EXCEPT !.anonymous = TRUE, !.lo = 2, !.hi = 4],
            [Event("MemoryProtect", 1, 10) EXCEPT !.executable = TRUE, !.lo = 2, !.hi = 4]>>

Execution(uid, tid, lo, hi) == [Event("MaterializedExecute", uid, tid) EXCEPT !.lo = lo, !.hi = hi]

Mutation == [Event("MemoryWrite", 1, 10) EXCEPT !.mutation = TRUE, !.map_lo = 2, !.map_hi = 4, !.lo = 2, !.hi = 3, !.written = 1]

Created(uid, tid, bid) == [Event("MemoryAllocate", uid, tid) EXCEPT !.backing = bid]

Written(uid, tid, bid) == [Event("FileWrite", uid, tid) EXCEPT !.backing = bid, !.written = 1]

\* A truncation is recorded as a write that does not say how much it wrote.
Truncated(uid, tid, bid) == [Event("FileWrite", uid, tid) EXCEPT !.backing = bid]

BackingExecution(tid, bid) == [Execution(1, tid, 6, 8) EXCEPT !.backing = bid]

Handoff(uid, tid, bid) == [Start(uid, tid) EXCEPT !.subject = "runtime_backing_exec_handoff", !.backing = bid]

\* On Windows the calls of one process reach into another.
Remote(kind, lo, hi, relation) == [Event(kind, 1, 10) EXCEPT !.target = 2, !.lo = lo, !.hi = hi, !.relation = relation, !.written = 1, !.source_buffer = 2]

Burst(name, inherited) ==
    CASE name = "map" -> Mapped
      [] name = "run" -> <<Execution(1, 10, 2, 4)>>
      [] name = "mutate" -> <<Mutation>>
      [] name = "mutated" -> <<[Execution(1, 10, 2, 4) EXCEPT !.changed = 1]>>
      [] name = "thread" -> <<[Start(1, 11) EXCEPT !.thread_start = TRUE, !.parent_tid = 10]>>
      [] name = "drop5" -> <<Created(1, 10, 5), Written(1, 10, 5)>>
      [] name = "drop6" -> <<Created(1, 10, 6), Written(1, 10, 6)>>
      [] name = "drop6T" -> <<Created(1, 11, 6), Written(1, 11, 6)>>
      [] name = "size6" -> <<Created(1, 10, 6), Truncated(1, 10, 6)>>
      [] name = "run5" -> <<BackingExecution(10, 5)>>
      [] name = "run6" -> <<BackingExecution(10, 6)>>
      [] name = "run5T" -> <<BackingExecution(11, 5)>>
      [] name = "hand5" -> <<Handoff(1, 10, 5), Start(1, 10)>>
      [] name = "hand6" -> <<Handoff(1, 10, 6), Start(1, 10)>>
      [] name = "exec" -> <<Start(1, 10)>>
      [] name = "fork" -> <<[Start(2, 20) EXCEPT !.parent_uid = 1, !.inherited = inherited]>>
      [] name = "childdrop6" -> <<Written(2, 20, 6)>>
      [] name = "childhand5" -> <<Handoff(2, 20, 5)>>
      [] name = "childhand6" -> <<Handoff(2, 20, 6)>>
      [] name = "alloc" -> <<[Event("MemoryAllocate", 1, 10) EXCEPT !.candidate = TRUE, !.lo = 2, !.hi = 4]>>
      [] name = "decode" -> <<[Event("MemoryWrite", 1, 10) EXCEPT !.target = 1, !.lo = 2, !.hi = 3, !.written = 1, !.source_buffer = 20]>>
      [] name = "ask" -> <<[Remote("MemoryWrite", 6, 8, "") EXCEPT !.failed = TRUE]>>
      [] name = "inject" -> <<Remote("MemoryAllocate", 6, 8, ""), Remote("MemoryWrite", 6, 8, "")>>
      [] name = "arm" -> <<[Remote("MemoryProtect", 6, 8, "") EXCEPT !.candidate = TRUE, !.executable = TRUE]>>
      [] name = "injected" -> <<Execution(2, 20, 6, 8)>>
      [] name = "hollow" -> <<Remote("MemoryAllocate", 10, 12, "replacement_at_original_base"), Remote("MemoryWrite", 10, 12, "replacement_at_original_base")>>
      [] name = "hollowed" -> <<[Execution(2, 20, 10, 12) EXCEPT !.relation = "replacement_at_original_base"]>>
      [] name = "patch" -> <<[Event("MemoryWrite", 1, 10) EXCEPT !.relation = "original_image", !.lo = 12, !.hi = 14, !.written = 1]>>
      [] name = "patched" -> <<[Execution(1, 10, 12, 14) EXCEPT !.relation = "original_image", !.changed = 1]>>

LinuxNames == {"map", "run", "mutate", "mutated", "thread", "drop5", "drop6", "drop6T", "size6", "run5", "run6", "run5T", "hand5", "hand6", "exec", "fork", "childdrop6", "childhand5", "childhand6"}

WindowsNames == {"alloc", "run", "decode", "ask", "inject", "arm", "injected", "hollow", "hollowed", "patch", "patched"}

Uses(bid) == IF bid = 5 THEN {"drop5", "run5", "run5T", "hand5"} ELSE {"drop6", "drop6T", "size6", "run6", "hand6"}

Resets == {"hand5", "hand6", "exec"}

\* After an exec of the root the tracer has forgotten what was there: no event
\* names the mappings, threads or backings of before.
Live(p) ==
    LET r == {i \in DOMAIN p : p[i] \in Resets}
    IN IF r = {} THEN p ELSE SubSeq(p, Max(r) + 1, Len(p))

Had(p, names) == \E i \in DOMAIN p : p[i] \in names

\* The last of some things that were done, "" if none was.
LastOf(p, names) == IF Had(p, names) THEN p[Max({i \in DOMAIN p : p[i] \in names})] ELSE ""

BeforeFork(p) == SubSeq(p, 1, CHOOSE i \in DOMAIN p : p[i] = "fork")

Reuses(p, bid) == Had(p, Uses(bid)) => Had(Live(p), Uses(bid))

May(p, name) ==
    CASE name = "run" -> Had(p, {"alloc"}) \/ LastOf(Live(p), {"map", "run", "mutated"}) = "map"
      [] name = "mutate" -> LastOf(Live(p), {"map", "run", "mutate"}) \in {"run", "mutate"} /\ ~Had(p, {"thread", "mutated"})
      [] name = "mutated" -> LastOf(p, LinuxNames) = "mutate"
      [] name \in {"thread", "fork"} -> ~Had(p, {name})
      [] name = "drop5" -> Reuses(p, 5)
      [] name \in {"drop6", "size6"} -> Reuses(p, 6)
      [] name = "drop6T" -> Had(Live(p), {"thread"}) /\ Reuses(p, 6)
      [] name \in {"run5", "hand5"} -> Had(Live(p), {"drop5"})
      [] name = "run5T" -> Had(Live(p), {"thread"}) /\ Had(Live(p), {"drop5"})
      [] name = "run6" -> Had(Live(p), {"drop6", "drop6T", "size6"})
      [] name = "hand6" -> Had(Live(p), {"drop6", "drop6T"})
      [] name = "childdrop6" -> Had(p, {"fork"})
      [] name \in {"childhand5", "childhand6"} ->
           Had(p, {"fork"}) /\ Had(Live(BeforeFork(p)), IF name = "childhand5" THEN {"drop5"} ELSE {"drop6", "drop6T"})
      [] name = "decode" -> Had(p, {"alloc"})
      [] name = "injected" -> Had(p, {"inject", "arm"})
      [] name = "hollowed" -> Had(p, {"hollow"})
      [] name = "patched" -> Had(p, {"patch"})
      [] OTHER -> TRUE

\* What a program may do after the beginnings, for at most n more steps.
Plans(beginnings, names, n) ==
    LET grow[k \in 0 .. n] == IF k = 0 THEN beginnings ELSE grow[k - 1] \cup {Append(q[1], q[2]) : q \in {pq \in grow[k - 1] \X names : May(pq[1], pq[2])}}
    IN grow[n]

Inherited(p) == {bid \in {5, 6} : Had(Live(p), Uses(bid))}

LinuxTimeline(p) == Numbered(FoldLeft(LAMBDA t, i : t \o Burst(p[i], Inherited(SubSeq(p, 1, i))), <<Start(1, 10)>>, [i \in DOMAIN p |-> i]))

WindowsTimeline(p) == Numbered(FoldLeft(LAMBDA t, name : t \o Burst(name, {}), <<Start(1, 10), [Start(2, 20) EXCEPT !.parent_uid = 1]>>, p))

NoArtifact == [kind |-> "materialized_region", state |-> "MEMORY_DUMP", uid |-> 1, backing |-> 0, lo |-> 0, hi |-> 0, nonzero |-> TRUE, execute_seq |-> 0]

\* What was executed is dumped; the file that an exec was handed is kept.
Dumps(tl, linux) ==
    LET kept == SelectSeq(tl, LAMBDA e : e.kind = "MaterializedExecute" \/ (e.subject # "" /\ e.backing # 0))
        dump(e) == [NoArtifact EXCEPT !.uid = e.uid, !.backing = e.backing, !.lo = e.lo, !.hi = e.hi, !.execute_seq = IF linux THEN e.seq ELSE 0]
        file(e) == [NoArtifact EXCEPT !.kind = "runtime_backing_elf", !.state = "EXEC_HANDOFF_CONFIRMED", !.uid = e.uid, !.backing = e.backing]
    IN [i \in DOMAIN kept |-> IF kept[i].kind = "MaterializedExecute" THEN dump(kept[i]) ELSE file(kept[i])]

\* An input is a plan; the run that it stands for is recorded when it is read.
Recorded(x) ==
    LET tl == IF x.linux THEN LinuxTimeline(x.plan) ELSE WindowsTimeline(x.plan)
        dumps == IF x.dumped THEN Dumps(tl, x.linux) ELSE <<>>
        unpacked == [NoArtifact EXCEPT !.kind = "unpacked_pe", !.state = "UNPACKED_VALIDATED"]
    IN [timeline |-> tl, artifacts |-> IF x.linux THEN dumps ELSE Append(dumps, unpacked), replacement |-> x.dumped /\ ~x.linux]

TimelineInputs ==
    LET Of(plans, linux) == {[part |-> "timeline", size |-> 0, linux |-> linux, plan |-> p, dumped |-> d] : p \in plans, d \in BOOLEAN}
    IN Of(Plans({<<>>, <<"drop5", "run5">>, <<"map", "run">>, <<"drop5", "hand5">>, <<"drop5", "run5", "thread">>}, LinuxNames, 3), TRUE)
       \cup Of(Plans({<<>>, <<"alloc", "run">>}, WindowsNames, 3), FALSE)

(***************************************************************************)
(* What the graph owes its reader.                                         *)
(***************************************************************************)
Wrote(e) == e.kind \in {"MemoryWrite", "FileWrite"} /\ ~e.failed /\ e.written # 0

Executes(e) == e.kind = "MaterializedExecute" \/ e.subject = "runtime_backing_exec_handoff"

\* A child has the backings of its parent as they were when it was started.
Touches(tl, i, n) ==
    LET e == tl[i]
    IN IF n.backing # 0 THEN e.backing = n.backing /\ (e.uid = n.uid \/ \E j \in i + 1 .. Len(tl) : tl[j].kind = "ProcessStart" /\ tl[j].uid = n.uid /\ tl[j].parent_uid = e.uid)
       ELSE e.backing = 0 /\ Target(e) = n.uid /\ e.lo < n.hi /\ n.lo < e.hi

WritesBefore(x, n, i) == {j \in 1 .. i - 1 : Wrote(x.timeline[j]) /\ Touches(x.timeline, j, n)}

Observed(x, n, i) ==
    \/ x.timeline[i].backing_bytes > 0 \/ x.timeline[i].changed > 0
    \/ \E a \in ToSet(x.artifacts) : a.nonzero /\ a.uid = n.uid /\ (IF n.backing # 0 THEN a.backing = n.backing ELSE a.lo < n.hi /\ n.lo < a.hi)

Copies == {"MEMORY_DUMP", "RECONSTRUCTED_IMAGE", "INSTALLED_VALIDATED_IMAGE"}

\* Nodes with a generation of their own.
Layers(r) == {i \in DOMAIN r.nodes : r.nodes[i].kind \notin Copies \cup {"ORIGINAL_IMAGE"} /\ r.nodes[i].generation # Unknown}

InheritedBy(r, i) ==
    {r.edges[k].src : k \in {l \in DOMAIN r.edges : /\ r.edges[l].kind = "CHILD_INHERITED" /\ r.nodes[r.edges[l].dst].uid = r.nodes[i].uid
                                                     /\ r.nodes[r.edges[l].dst].backing = r.nodes[i].backing}}

\* The executions of what a node stands for that came after its bytes had been
\* seen.  The first execution of the node may be an earlier one, without proof.
Proofs(x, n) ==
    {i \in DOMAIN x.timeline : n.first_execution # 0 /\ (n.backing # 0 \/ i >= n.first_execution) /\ Executes(x.timeline[i]) /\ Touches(x.timeline, i, n)
                               /\ (WritesBefore(x, n, i) # {} \/ Observed(x, n, i))}

\* A child's node that had its generation when the child was started.
Inherits(x, r, i) ==
    \E p \in InheritedBy(r, i), s \in DOMAIN x.timeline :
        /\ x.timeline[s].kind = "ProcessStart" /\ x.timeline[s].uid = r.nodes[i].uid /\ x.timeline[s].inherited # {}
        /\ r.nodes[p].generation # Unknown /\ \E l \in Proofs(x, r.nodes[p]) : l < s

\* Generation g + 1 was written when generation g had run.
IsCaused(x, r, i) ==
    LET n == r.nodes[i]
    IN n.generation > 1 =>
         \E m \in Layers(r), j \in WritesBefore(x, n, Min(Proofs(x, n))) :
            /\ r.nodes[m].generation = n.generation - 1 /\ r.nodes[m].first_execution \in 1 .. j - 1
            /\ r.nodes[m].uid = x.timeline[j].uid

\* The thread of j runs at j what was executed at k: it executed it, or a thread
\* that did started it, and no other execution and no exec came in between.
StillRuns(x, k, j) ==
    LET e == x.timeline[j]
        threads == {e.tid, x.timeline[k].tid}
        starts == {s \in k + 1 .. j - 1 : x.timeline[s].thread_start /\ x.timeline[s].tid = e.tid /\ x.timeline[s].parent_tid = x.timeline[k].tid}
    IN /\ k < j /\ x.timeline[k].uid = e.uid /\ (x.timeline[k].tid = e.tid \/ starts # {})
       /\ \A l \in k + 1 .. j - 1 : x.timeline[l].uid = e.uid /\ x.timeline[l].tid \in threads /\ l \notin starts =>
             /\ x.timeline[l].kind # "MaterializedExecute"
             /\ x.timeline[l].kind = "ProcessStart" => l = k + 1 /\ x.timeline[k].subject # ""

\* What a thread writes while it runs a layer is the next one when it runs.
IsNext(x, r, i) ==
    LET n == r.nodes[i]
        w == WritesBefore(x, n, Min(Proofs(x, n)))
        j == Max(w)
    IN w # {} /\ ~x.timeline[j].mutation =>
         \A m \in Layers(r) : ~Inherits(x, r, m) /\ StillRuns(x, Min(Proofs(x, r.nodes[m])), j) => n.generation = r.nodes[m].generation + 1

\* So is a mapping that is changed after it ran and runs again.
IsNextMutation(x, r) ==
    \A j \in DOMAIN x.timeline, m \in Layers(r) :
        LET e == x.timeline[j]
            again == {i \in j + 1 .. Len(x.timeline) : x.timeline[i].kind = "MaterializedExecute" /\ x.timeline[i].changed > 0 /\ x.timeline[i].lo = e.map_lo}
        IN e.mutation /\ again # {} /\ r.nodes[m].lo = e.map_lo /\ r.nodes[m].hi = e.map_hi /\ Proofs(x, r.nodes[m]) \cap (1 .. j - 1) # {}
           => \E n \in Layers(r) : r.nodes[n].lo = e.map_lo /\ r.nodes[n].first_execution \in again /\ r.nodes[n].generation > r.nodes[m].generation

\* Where the writer was not seen, only the first layer that a process executes
\* is taken for its first one.
IsFirst(x, r, i) ==
    LET n == r.nodes[i]
        k == Min(Proofs(x, n))
    IN WritesBefore(x, n, k) = {} =>
         \A m \in Layers(r) \ {i} : r.nodes[m].uid = n.uid /\ ~Inherits(x, r, m)
                                   => \A l \in Proofs(x, r.nodes[m]) : l < k => x.timeline[l].kind # "MaterializedExecute"

\* A later event does not rewrite what the graph said of an earlier one.
Keeps(before, after) ==
    \A i \in DOMAIN before :
        before[i].kind # "REPLACEMENT_IMAGE" =>
            /\ before[i].generation # Unknown => after[i].generation = before[i].generation
            /\ before[i].first_execution # 0 => after[i].first_execution = before[i].first_execution

IsStable(x, r) == Keeps(Folded(Front(x.timeline), x.artifacts).nodes, r.nodes)

\* A dump is hung on what its event executed, one of a first execution on the
\* very node.
DumpsAgree(x, r) ==
    LET copies == SelectSeq(r.edges, LAMBDA e : e.kind \in {"DUMPED_AS", "RECONSTRUCTED_AS"})
        layers == DOMAIN r.nodes \ {i \in DOMAIN r.nodes : r.nodes[i].kind \in Copies}
    IN \A i \in DOMAIN x.artifacts :
         LET k == x.artifacts[i].execute_seq
             src == r.nodes[copies[i].src]
         IN k # 0 => /\ Touches(x.timeline, k, src)
                     /\ \A m \in layers : r.nodes[m].uid = src.uid /\ r.nodes[m].first_execution = k => src.first_execution = k
                     /\ r.nodes[copies[i].dst].generation = src.generation

\* A generation needs bytes that were seen and an execution that was seen, in
\* this order; a child's copy may have it from its parent.
IsEarned(x, r, i) == Proofs(x, r.nodes[i]) # {} \/ Inherits(x, r, i)

GraphExact(x, r) ==
    /\ \A i \in Layers(r) : IsEarned(x, r, i)
    /\ \A i \in Layers(r) : ~Inherits(x, r, i) => IsCaused(x, r, i) /\ IsFirst(x, r, i)
    /\ \A i \in DOMAIN r.nodes : r.nodes[i].kind \notin Copies /\ Proofs(x, r.nodes[i]) # {} /\ ~Inherits(x, r, i) => IsNext(x, r, i)
    /\ IsNextMutation(x, r)
    /\ IsStable(x, r)
    /\ DumpsAgree(x, r)
    /\ {r.nodes[i].generation : i \in DOMAIN r.nodes} \ {Unknown} = 0 .. r.summary.deepest

TimelineExact(plan, r) == r.valid => GraphExact(Recorded(plan), r)
=============================================================================
