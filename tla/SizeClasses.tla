---------------------------- MODULE SizeClasses ----------------------------
(***************************************************************************)
(* sizeclasses.h: the sizes that a segregated heap would be parted into.   *)
(* The glue hands them to nobody (Startup's SegregatedSizeClasses).        *)
(***************************************************************************)
EXTENDS Integers, Sequences

OMR_SIZECLASSES_NUM_SMALL            == 15
OMR_SIZECLASSES_MIN_SMALL            == 1
OMR_SIZECLASSES_MAX_SMALL            == OMR_SIZECLASSES_NUM_SMALL
OMR_SIZECLASSES_ARRAYLET             == OMR_SIZECLASSES_NUM_SMALL + 1
OMR_SIZECLASSES_LARGE                == OMR_SIZECLASSES_NUM_SMALL + 2
OMR_SIZECLASSES_LOG_SMALLEST         == 4
OMR_SIZECLASSES_LOG_LARGEST          == 11
OMR_SIZECLASSES_MAX_SMALL_SIZE_BYTES == 2 ^ OMR_SIZECLASSES_LOG_LARGEST

\* A C array: the class of index 0 is not used.
SMALL_SIZECLASSES ==
    LET sizes == <<0, 16, 32, 64, 96, 160, 240, 352, 456, 592, 760, 968,
                   1200, 1520, 1760, 2048>>
    IN  [class \in 0 .. Len(sizes) - 1 |-> sizes[class + 1]]

SmallClasses == OMR_SIZECLASSES_MIN_SMALL .. OMR_SIZECLASSES_MAX_SMALL
=============================================================================
