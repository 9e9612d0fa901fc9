------------------------------ MODULE MCRuntime ------------------------------
(***************************************************************************)
(* Runtime with two threads.  On each either the calls fail that can fail  *)
(* with the hooks of this glue, or all of those do that a language may let *)
(* fail when it makes hooks of its own.                                    *)
(***************************************************************************)
EXTENDS Runtime, SizeClasses

MCFailing == {{"attach", "init", "lastFree"}, {"attach", "alloc", "init", "link"}}

\* With concurrent marking, and with both other collectors.
MCBuilds == {{CONCURRENT_MARK}, {SEGREGATED_HEAP, SCAVENGER}}

\* Each policy, both in both orders, one that only begins like a policy, and
\* an option that nobody knows after one that is known.
SEGREGATED     == OMR_SEGREGATEDHEAP
SEGREGATEDLIKE == Append(SEGREGATED, "Heap")

MCGiven ==
    {<<>>, <<GENCON, VERBOSEGCLOG>>, <<SEGREGATED>>, <<SEGREGATED, GENCON>>,
     <<GENCON, SEGREGATEDLIKE>>, <<COMPACTGC, <<"-Xunknown">>>>}

\* The size classes, should they be handed out: one for each index up to the
\* largest, of sizes that grow from the smallest to the largest, none of which
\* is one of the two that are reserved; and, as the comment has it, never two
\* adjacent ones that are not multiples of 8.
ASSUME SizeClassesAreSound ==
    /\ {OMR_SIZECLASSES_ARRAYLET, OMR_SIZECLASSES_LARGE} \cap SmallClasses = {}
    /\ DOMAIN SMALL_SIZECLASSES = 0 .. OMR_SIZECLASSES_MAX_SMALL
    /\ SMALL_SIZECLASSES[OMR_SIZECLASSES_MIN_SMALL] = 2 ^ OMR_SIZECLASSES_LOG_SMALLEST
    /\ SMALL_SIZECLASSES[OMR_SIZECLASSES_MAX_SMALL] = OMR_SIZECLASSES_MAX_SMALL_SIZE_BYTES
    /\ \A class \in SmallClasses :
         /\ SMALL_SIZECLASSES[class - 1] < SMALL_SIZECLASSES[class]
         /\ {SMALL_SIZECLASSES[class - 1] % 8, SMALL_SIZECLASSES[class] % 8} \cap {0} # {}
=============================================================================
