----------------------------- MODULE RingSetupMC -----------------------------
(* RingSetup with the sizes of x86-64.  Flags are combined in pairs.       *)
EXTENDS RingSetup, FiniteSets

MCFlagSets ==
    {f \in SUBSET {"SQE128", "CQE32", "NO_MMAP", "CQSIZE", "CLAMP",
                   "NO_SQARRAY", "REGISTERED_FD_ONLY"} : Cardinality(f) <= 2}

\* Linux 5.1, 5.6, 6.5 and 6.6
MCKernels ==
    {{}, {"SINGLE_MMAP"}, {"SINGLE_MMAP", "NATIVE_WORKERS", "NO_MMAP"},
     {"SINGLE_MMAP", "NATIVE_WORKERS", "NO_MMAP", "NO_SQARRAY"}}

MCAppBuffers ==
    {[len |-> 16384, huge |-> FALSE], [len |-> HugePageSize, huge |-> TRUE]}
=============================================================================
