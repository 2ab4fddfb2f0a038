------------------------------ MODULE RingSetup ------------------------------
(***************************************************************************)
(* The memory of a ring (setup.c): how it is sized, mapped, handed to the  *)
(* kernel, advised and unmapped, with a failure possible at every system   *)
(* call, and the buffer ring and the probe that live beside it.            *)
(*                                                                         *)
(* Memory is a set of named regions, each a mapping of whole pages.  A     *)
(* munmap takes pages off the front of a region; a hugetlb mapping only    *)
(* gives up whole huge pages, otherwise the call fails and nobody looks.   *)
(***************************************************************************)
EXTENDS Integers, Sequences, SequencesExt

CONSTANTS
    PageSize, HugePageSize,
    KernMaxEntries,     \* KERN_MAX_ENTRIES
    EntriesAsked,       \* the values of entries an application passes
    CqEntriesAsked,     \* params.cq_entries, with IORING_SETUP_CQSIZE
    FlagSets,           \* the sets of setup flags an application passes
    Kernels,            \* the sets of features a kernel may have
    AppBuffers,         \* buffers given to io_uring_queue_init_mem
    NEntries,           \* entries of a provided buffer ring
    MaxOrder            \* no ring takes more than 2 ^ MaxOrder pages

ASSUME SetupAssumption ==
    /\ PageSize \in Nat \ {0} /\ HugePageSize \in Nat \ {0}
    /\ HugePageSize % PageSize = 0
    /\ KernMaxEntries \in Nat \ {0}

Regions == {"sq_ring", "cq_ring", "sqes", "huge_sqes", "huge_ring",
            "app", "buf_ring"}
Unmapped == [len |-> 0, huge |-> FALSE]

EINVAL == -22
ENOMEM == -12
EFAULT == -14

VARIABLES
    kernel,     \* the features of the running kernel
    pc,         \* where the call under way is, or "idle", "ready"
    caller,     \* the function that wants the ring, and its flags and buffer
    p,          \* struct io_uring_params, with the argument entries
    ring,       \* struct io_uring, as far as memory goes
    mem,        \* the mappings: length and kind of each region
    strayed,    \* regions a munmap touched where nothing of ours was mapped
    nofork,     \* bytes of each region that a child does not inherit
    dontfork,   \* io_uring_ring_dontfork returned 0 for this ring
    br,         \* the buffer ring: "none", "mapped" or "registered"
    probe,      \* the probe on the heap: "none" or "live"
    ret         \* what the last call returned

vars == <<kernel, pc, caller, p, ring, mem, strayed, nofork, dontfork, br,
          probe, ret>>
sideVars == <<kernel, caller, nofork, dontfork, br, probe>>

NullRing ==
    [sq_ring |-> "null", sq_ring_sz |-> 0, cq_ring |-> "null", cq_ring_sz |-> 0,
     sqes |-> "null", entries |-> 0, app_mem |-> FALSE, fd |-> "none"]

-----------------------------------------------------------------------------
(* Sizes *)

RoundUp(n, unit) == ((n + unit - 1) \div unit) * unit

\* __fls: the position of the last bit set, counted from 1; 0 for 0.
Fls(x) == CHOOSE k \in 0 .. 31 : x < 2 ^ k /\ (k = 0 \/ 2 ^ (k - 1) <= x)

\* roundup_pow2
RoundupPow2(depth) == 2 ^ Fls(depth - 1)

\* get_sq_cq_entries: <<sq, cq>>, or <<>> for -EINVAL.
SqCqEntries(n, f) ==
    LET clamp(x, max) == IF x > max THEN max ELSE x
        sq == RoundupPow2(clamp(n, KernMaxEntries))
        cq == RoundupPow2(clamp(CqEntriesAsked, 2 * KernMaxEntries))
    IN  IF \/ n = 0
           \/ n > KernMaxEntries /\ "CLAMP" \notin f
           \/ "CQSIZE" \in f /\ \/ CqEntriesAsked = 0
                                \/ CqEntriesAsked > 2 * KernMaxEntries /\ "CLAMP" \notin f
                                \/ cq < sq
        THEN <<>>
        ELSE <<sq, IF "CQSIZE" \in f THEN cq ELSE 2 * sq>>

Sqe == 64
Cqe(f) == IF "CQE32" \in f THEN 32 ELSE 16
SqeSize(f) == IF "SQE128" \in f THEN 128 ELSE Sqe
KRING_SIZE == 320

\* The kernel's layout: a header, the CQEs and, aligned, the SQ array.
KArrayOffset(cq, f) == RoundUp(KRING_SIZE + cq * Cqe(f), 64)
KRingBytes(sq, cq, f) ==
    IF "NO_SQARRAY" \in f THEN KRING_SIZE + cq * Cqe(f)
    ELSE KArrayOffset(cq, f) + sq * 4

\* io_uring_mmap: the sizes of the two ring mappings.
SqRingSz(sq, cq, f) ==
    (IF "NO_SQARRAY" \in f THEN 0 ELSE KArrayOffset(cq, f)) + sq * 4
CqRingSz(cq, f) == KRING_SIZE + cq * Cqe(f)

\* io_uring_alloc_huge: what it reckons the SQEs and the ring take.
SqesMem(sq) == RoundUp(sq * Sqe, PageSize)
RingMem(sq, cq, f) ==
    cq * Cqe(f) + (IF "NO_SQARRAY" \in f THEN 0 ELSE sq * 4)
MemUsed(sq, cq, f) == RoundUp(SqesMem(sq) + RingMem(sq, cq, f), PageSize)

\* npages
Npages(size) == Fls((size - 1) \div PageSize)

\* Plausible bug: the header of the ring not counted.
RingsSize_NoHeader(sq, cq, f) ==
    PageSize * (2 ^ Npages(RoundUp(cq * Cqe(f), 64)) + 2 ^ Npages(sq * SqeSize(f)))

\* rings_size
RingsSize(sq, cq, f) ==
    PageSize * (2 ^ Npages(RoundUp(cq * Cqe(f) + KRING_SIZE, 64))
                    + 2 ^ Npages(sq * SqeSize(f)))

\* What an old kernel charges: each allocation is a power of two of pages,
\* which must also hold the SQ array.
KCharged(sq, cq, f) ==
    LET order(bytes) == Min({2 ^ k : k \in {j \in 0 .. MaxOrder : 2 ^ j * PageSize >= bytes}})
    IN  PageSize * (order(KRingBytes(sq, cq, f)) + order(sq * SqeSize(f)))

-----------------------------------------------------------------------------
(* System calls on memory *)

Mapped(m, r, len, huge) ==
    [m EXCEPT ![r] = [len |-> RoundUp(len, IF huge THEN HugePageSize ELSE PageSize),
                      huge |-> huge]]

\* munmap(r, len), where st is [mem, strayed].
Munmap(st, call) ==
    LET r == call[1]
        len == RoundUp(call[2], PageSize)
    IN  IF r = "null" THEN [st EXCEPT !.strayed = @ \cup {r}]
        ELSE IF st.mem[r].huge /\ call[2] % HugePageSize # 0 THEN st
        ELSE [mem |-> [st.mem EXCEPT ![r].len = IF @ > len THEN @ - len ELSE 0],
              strayed |-> IF r = "app" \/ len > st.mem[r].len
                          THEN st.strayed \cup {r} ELSE st.strayed]

Unmap(calls) ==
    LET st == FoldLeft(Munmap, [mem |-> mem, strayed |-> strayed], calls)
    IN  mem' = st.mem /\ strayed' = st.strayed

\* Plausible bug: the case of one mapping for both rings forgotten.
UnmapRings_Twice(rg) ==
    <<<<rg.sq_ring, rg.sq_ring_sz>>, <<rg.cq_ring, rg.cq_ring_sz>>>>

\* io_uring_unmap_rings
UnmapRings(rg) ==
    (IF rg.sq_ring_sz # 0 THEN <<<<rg.sq_ring, rg.sq_ring_sz>>>> ELSE <<>>)
        \o (IF rg.cq_ring \notin {"null", rg.sq_ring} /\ rg.cq_ring_sz # 0
            THEN <<<<rg.cq_ring, rg.cq_ring_sz>>>> ELSE <<>>)

-----------------------------------------------------------------------------
(* Setting up a ring *)

Init ==
    /\ kernel \in Kernels
    /\ pc = "idle"
    /\ caller = [fn |-> "app", flags |-> {}, buf |-> Unmapped]
    /\ p = [entries |-> 0, flags |-> {}, features |-> {}]
    /\ ring = NullRing
    /\ mem = [r \in Regions |-> Unmapped]
    /\ strayed = {}
    /\ nofork = [r \in Regions |-> 0]
    /\ dontfork = FALSE
    /\ br = "none"
    /\ probe = "none"
    /\ ret = 0

\* The flags the fallback of io_uring_queue_init_try_nosqarr returns to.
Asked == IF caller.fn = "app" THEN caller.flags ELSE {}

\* io_uring_queue_init, io_uring_queue_init_params, io_uring_queue_init_mem,
\* io_uring_get_probe and io_uring_mlock_size_params, up to the first call of
\* __io_uring_queue_init_params.  What earlier rings leaked is not followed.
QueueInit(fn, n, f, buf) ==
    /\ pc = "idle"
    /\ probe = "none"
    /\ caller' = [fn |-> fn, buf |-> buf,
                  flags |-> IF buf = Unmapped THEN f ELSE f \cup {"NO_MMAP"}]
    /\ p' = [entries |-> n, features |-> {},
             flags |-> (IF fn = "app" THEN caller'.flags ELSE {}) \cup {"NO_SQARRAY"}]
    /\ mem' = [r \in Regions |-> IF r = "app" THEN buf ELSE Unmapped]
    /\ strayed' = {}
    /\ nofork' = [r \in Regions |-> 0]
    /\ dontfork' = FALSE
    /\ br' = "none"
    /\ ring' = NullRing
    /\ ret' = 0
    /\ pc' = "begin"
    /\ UNCHANGED <<kernel, probe>>

\* Leaving __io_uring_queue_init_params with -e: io_uring_queue_init_try_nosqarr
\* tries once more without NO_SQARRAY, or the caller gets the error.
Fail(e) ==
    IF e = EINVAL /\ "NO_SQARRAY" \in p.flags \ Asked
    THEN /\ pc' = "begin"
         /\ p' = [p EXCEPT !.flags = Asked]
         /\ UNCHANGED ret
    ELSE /\ pc' = IF caller.fn = "mlock_size" THEN "estimate" ELSE "idle"
         /\ ret' = e
         /\ UNCHANGED p

\* The start of __io_uring_queue_init_params
Begin ==
    /\ pc = "begin"
    /\ ring' = NullRing
    /\ \/ /\ "REGISTERED_FD_ONLY" \in p.flags /\ "NO_MMAP" \notin p.flags
          /\ Fail(EINVAL)
       \/ /\ "REGISTERED_FD_ONLY" \in p.flags => "NO_MMAP" \in p.flags
          /\ pc' = IF "NO_MMAP" \in p.flags THEN "alloc" ELSE "setup"
          /\ UNCHANGED <<p, ret>>
    /\ UNCHANGED <<mem, strayed, sideVars>>

HasBuf == caller.buf # Unmapped
Granule(bytes) == IF bytes <= PageSize THEN PageSize ELSE HugePageSize

\* io_uring_alloc_huge, up to and including the memory for the SQEs
AllocHuge ==
    LET e == SqCqEntries(p.entries, p.flags)
        used == MemUsed(e[1], e[2], p.flags)
        sqes == SqesMem(e[1])
        size == IF HasBuf THEN caller.buf.len ELSE Granule(sqes)
        sqesAt == IF HasBuf THEN "app" ELSE "huge_sqes"
    IN  /\ pc = "alloc"
        /\ \/ e = <<>> /\ Fail(EINVAL) /\ UNCHANGED <<ring, mem>>
           \/ /\ e # <<>>
              /\ \/ HasBuf /\ used > size
                 \/ ~HasBuf /\ (sqes > HugePageSize \/ RingMem(e[1], e[2], p.flags) > HugePageSize)
                 \/ ~HasBuf     \* mmap fails
              /\ Fail(ENOMEM)
              /\ UNCHANGED <<ring, mem>>
           \/ /\ e # <<>>
              /\ IF HasBuf THEN used <= size
                 ELSE sqes <= HugePageSize /\ RingMem(e[1], e[2], p.flags) <= HugePageSize
              /\ mem' = IF HasBuf THEN mem
                        ELSE Mapped(mem, "huge_sqes", size, size # PageSize)
              /\ ring' = [ring EXCEPT !.sqes = sqesAt,
                                      !.sq_ring = IF used <= size THEN sqesAt ELSE "null",
                                      !.cq_ring = IF used <= size THEN sqesAt ELSE "null",
                                      !.app_mem = HasBuf]
              /\ pc' = IF used <= size THEN "setup" ELSE "alloc_ring"
              /\ UNCHANGED <<p, ret>>
        /\ UNCHANGED <<strayed, sideVars>>

\* io_uring_alloc_huge, the memory for the ring when it needs its own
AllocRing ==
    LET e == SqCqEntries(p.entries, p.flags)
        size == Granule(RingMem(e[1], e[2], p.flags))
    IN  /\ pc = "alloc_ring"
        /\ \/ /\ Unmap(<<<<ring.sqes, 1>>>>)
              /\ Fail(ENOMEM)
              /\ UNCHANGED ring
           \/ /\ mem' = Mapped(mem, "huge_ring", size, size # PageSize)
              /\ ring' = [ring EXCEPT !.sq_ring = "huge_ring", !.sq_ring_sz = size,
                                      !.cq_ring = "huge_ring"]
              /\ pc' = "setup"
              /\ UNCHANGED <<p, ret, strayed>>
        /\ UNCHANGED sideVars

\* io_uring_setup(2) with memory of ours: does what the kernel puts there fit?
KFits(e) ==
    /\ e[1] * SqeSize(p.flags) <= mem[ring.sqes].len
    /\ KRingBytes(e[1], e[2], p.flags) <=
           IF ring.sq_ring = ring.sqes THEN mem[ring.sqes].len - SqesMem(e[1])
           ELSE mem[ring.sq_ring].len

KSetupResults ==
    LET e == SqCqEntries(p.entries, p.flags)
    IN  IF e = <<>> \/ ~(p.flags \cap {"NO_SQARRAY", "NO_MMAP"} \subseteq kernel)
        THEN {EINVAL}
        ELSE IF "NO_MMAP" \in p.flags /\ ~KFits(e) THEN {EFAULT}
        ELSE {0, ENOMEM}

\* Plausible bug: a failing io_uring_setup(2) leaves the ring's memory.
SetupFailed_Leaks == UNCHANGED <<mem, strayed>>

\* What __io_uring_queue_init_params undoes when io_uring_setup(2) fails
SetupFailed ==
    Unmap(IF "NO_MMAP" \in p.flags /\ ~ring.app_mem
          THEN <<<<ring.sqes, 1>>>> \o UnmapRings(ring) ELSE <<>>)

\* io_uring_queue_init_mem returns the bytes it used, the others 0.
Reported ==
    LET e == SqCqEntries(p.entries, p.flags)
    IN  IF HasBuf THEN MemUsed(e[1], e[2], p.flags) ELSE 0

\* io_uring_setup_ring_pointers: the head, tail, flags and arrays of both rings
\* lie in the regions named; the number of entries is copied.
RingPointers(rg, n) == [rg EXCEPT !.entries = n]

\* io_uring_setup(2); io_uring_queue_mmap clears the ring it is given.
Setup ==
    LET n == SqCqEntries(p.entries, p.flags)[1]
    IN  /\ pc = "setup"
        /\ \E e \in KSetupResults :
              \/ e # 0 /\ SetupFailed /\ Fail(e) /\ UNCHANGED ring
              \/ /\ e = 0
                 /\ p' = [p EXCEPT !.features = kernel]
                 /\ IF "NO_MMAP" \in p.flags
                    THEN /\ ring' = [RingPointers(ring, n) EXCEPT !.fd = "open"]
                         /\ pc' = "ready"
                         /\ ret' = Reported
                    ELSE /\ ring' = [NullRing EXCEPT !.fd = "open"]
                         /\ pc' = "mmap_sq"
                         /\ UNCHANGED ret
                 /\ UNCHANGED <<mem, strayed>>
        /\ UNCHANGED sideVars

\* The error path of __io_uring_queue_init_params after io_uring_queue_mmap
MmapFailed(rg) == ring' = [rg EXCEPT !.fd = "none"] /\ Fail(ENOMEM)

\* io_uring_mmap: the SQ ring, with the sizes of both
MmapSq ==
    LET e == SqCqEntries(p.entries, p.flags)
        sq == SqRingSz(e[1], e[2], p.flags)
        cq == CqRingSz(e[2], p.flags)
        both == IF cq > sq THEN cq ELSE sq
        single == "SINGLE_MMAP" \in p.features
        sized == [ring EXCEPT !.sq_ring_sz = IF single THEN both ELSE sq,
                              !.cq_ring_sz = IF single THEN both ELSE cq]
    IN  /\ pc = "mmap_sq"
        /\ \/ MmapFailed(sized) /\ UNCHANGED mem
           \/ /\ mem' = Mapped(mem, "sq_ring", sized.sq_ring_sz, FALSE)
              /\ ring' = [sized EXCEPT !.sq_ring = "sq_ring",
                                       !.cq_ring = IF single THEN "sq_ring" ELSE @]
              /\ pc' = IF single THEN "mmap_sqes" ELSE "mmap_cq"
              /\ UNCHANGED <<p, ret>>
        /\ UNCHANGED <<strayed, sideVars>>

\* io_uring_mmap: the CQ ring of a kernel without IORING_FEAT_SINGLE_MMAP
MmapCq ==
    /\ pc = "mmap_cq"
    /\ \/ Unmap(UnmapRings(ring)) /\ MmapFailed(ring)
       \/ /\ mem' = Mapped(mem, "cq_ring", ring.cq_ring_sz, FALSE)
          /\ ring' = [ring EXCEPT !.cq_ring = "cq_ring"]
          /\ pc' = "mmap_sqes"
          /\ UNCHANGED <<p, ret, strayed>>
    /\ UNCHANGED sideVars

\* io_uring_mmap: the SQEs
MmapSqes ==
    LET n == SqCqEntries(p.entries, p.flags)[1]
    IN  /\ pc = "mmap_sqes"
        /\ \/ Unmap(UnmapRings(ring)) /\ MmapFailed(ring)
           \/ /\ mem' = Mapped(mem, "sqes", SqeSize(p.flags) * n, FALSE)
              /\ ring' = [RingPointers(ring, n) EXCEPT !.sqes = "sqes"]
              /\ pc' = "ready"
              /\ ret' = 0
              /\ UNCHANGED <<p, strayed>>
        /\ UNCHANGED sideVars

-----------------------------------------------------------------------------
(* Using and giving up a ring *)

\* The munmap calls of io_uring_queue_exit
ExitUnmaps(rg, f) ==
    IF rg.sq_ring_sz = 0
    THEN <<<<rg.sqes, SqeSize(f) * rg.entries>>>> \o UnmapRings(rg)
    ELSE IF ~rg.app_mem
    THEN <<<<rg.sqes, rg.entries * Sqe>>>> \o UnmapRings(rg)
    ELSE <<>>

\* io_uring_queue_exit; the kernel drops what was registered with the ring.
QueueExit ==
    /\ pc = IF caller.fn = "get_probe" THEN "probed" ELSE "ready"
    /\ Unmap(ExitUnmaps(ring, p.flags))
    /\ ring' = [ring EXCEPT !.fd = "none"]
    /\ br' = IF br = "registered" THEN "mapped" ELSE br
    /\ pc' = IF caller.fn = "mlock_size" THEN "estimate" ELSE "idle"
    /\ UNCHANGED <<kernel, caller, p, nofork, dontfork, probe, ret>>

\* io_uring_get_probe_ring, on the ring of io_uring_get_probe
GetProbeRing ==
    /\ pc = "ready" /\ caller.fn = "get_probe"
    /\ probe' \in {"none", "live"}      \* malloc or the registration may fail
    /\ pc' = "probed"
    /\ UNCHANGED <<kernel, caller, p, ring, mem, strayed, nofork, dontfork, br, ret>>

\* io_uring_free_probe
FreeProbe ==
    /\ pc = "idle" /\ probe = "live"
    /\ probe' = "none"
    /\ UNCHANGED <<kernel, caller, pc, p, ring, mem, strayed, nofork, dontfork, br, ret>>

\* The rest of io_uring_mlock_size_params, for the flags of its caller
MlockSize ==
    LET e == SqCqEntries(p.entries, caller.flags)
    IN  /\ pc = "estimate"
        /\ ret' = IF "NATIVE_WORKERS" \in p.features THEN 0
                  ELSE IF e = <<>> THEN EINVAL
                  ELSE RingsSize(e[1], e[2], caller.flags)
        /\ pc' = "idle"
        /\ UNCHANGED <<p, ring, mem, strayed, sideVars>>

\* Plausible bug: the CQ ring taken to be part of the SQ ring's mapping.
DontforkRanges_Single ==
    <<<<ring.sqes, SqeSize(p.flags) * ring.entries>>, <<ring.sq_ring, ring.sq_ring_sz>>>>

\* The ranges io_uring_ring_dontfork advises, in order
DontforkRanges ==
    <<<<ring.sqes, SqeSize(p.flags) * ring.entries>>, <<ring.sq_ring, ring.sq_ring_sz>>>>
        \o (IF ring.cq_ring # ring.sq_ring
            THEN <<<<ring.cq_ring, ring.cq_ring_sz>>>> ELSE <<>>)

\* madvise(2) splits a hugetlb mapping only between huge pages.
KMayAdvise(c) == ~mem[c[1]].huge \/ c[2] % HugePageSize = 0

\* io_uring_ring_dontfork: all its calls succeed, or it stops at one.
RingDontfork ==
    /\ pc = "ready" /\ caller.fn = "app" /\ ~dontfork
    /\ \E k \in 0 .. Len(DontforkRanges) :
          /\ \A i \in 1 .. k : KMayAdvise(DontforkRanges[i])
          /\ nofork' = [r \in Regions |->
                 Max({nofork[r]} \cup
                     {RoundUp(DontforkRanges[i][2], PageSize) :
                          i \in {j \in 1 .. k : DontforkRanges[j][1] = r}})]
          /\ dontfork' = (k = Len(DontforkRanges))
    /\ UNCHANGED <<kernel, caller, pc, p, ring, mem, strayed, br, probe, ret>>

BrSize == NEntries * 16

\* io_uring_setup_buf_ring: br_setup maps the ring and registers it.
SetupBufRing ==
    /\ pc = "ready" /\ caller.fn = "app" /\ br = "none"
    /\ \/ UNCHANGED <<mem, strayed, br>>                    \* mmap fails
       \/ /\ mem' = Mapped(mem, "buf_ring", BrSize, FALSE)
          /\ br' = "registered"
          /\ UNCHANGED strayed
       \/ LET st == Munmap([mem |-> Mapped(mem, "buf_ring", BrSize, FALSE),
                            strayed |-> strayed], <<"buf_ring", BrSize>>)
          IN  mem' = st.mem /\ strayed' = st.strayed /\ UNCHANGED br
    /\ UNCHANGED <<kernel, caller, pc, p, ring, nofork, dontfork, probe, ret>>

\* io_uring_free_buf_ring; the kernel may refuse to unregister.
FreeBufRing ==
    /\ pc = "ready" /\ br = "registered"
    /\ \/ UNCHANGED <<mem, strayed, br>>
       \/ Unmap(<<<<"buf_ring", BrSize>>>>) /\ br' = "none"
    /\ UNCHANGED <<kernel, caller, pc, p, ring, nofork, dontfork, probe, ret>>

Start ==
    \/ \E n \in EntriesAsked, f \in FlagSets, buf \in AppBuffers \cup {Unmapped} :
          QueueInit("app", n, f, buf)
    \/ QueueInit("get_probe", 2, {}, Unmapped)
    \/ \E n \in EntriesAsked, f \in FlagSets : QueueInit("mlock_size", n, f, Unmapped)

Next ==
    \/ Start \/ Begin \/ AllocHuge \/ AllocRing \/ Setup
    \/ MmapSq \/ MmapCq \/ MmapSqes
    \/ GetProbeRing \/ FreeProbe \/ MlockSize
    \/ RingDontfork \/ SetupBufRing \/ FreeBufRing
    \/ QueueExit

Spec == Init /\ [][Next]_vars

-----------------------------------------------------------------------------
(* Properties *)

OurRegions == Regions \ {"app", "buf_ring"}

\* Once io_uring_queue_exit is done, or any step of setting up a ring failed, or
\* the fallback without NO_SQARRAY is about to start over, no descriptor is open
\* and nothing is left mapped.  Two leaks of the code are excepted: hugetlb
\* mappings, which it unmaps by the byte, and the second half of an SQE128 array.
\* The memory of a buffer ring is mapped exactly while the kernel has the ring
\* registered, whatever call of setting it up or freeing it fails.
Released ==
    /\ (br = "none") = (mem["buf_ring"].len = 0)
    /\ pc \in {"idle", "begin", "estimate"} =>
        /\ pc # "begin" => ring.fd = "none"
        /\ \A r \in OurRegions :
              mem[r].len > 0 => mem[r].huge \/ (r = "sqes" /\ "SQE128" \in p.flags)

\* No munmap touches pages that the library does not have mapped: nothing is
\* unmapped twice, by a null pointer or with a length past its region.  The
\* memory of io_uring_queue_init_mem is excepted: io_uring_queue_exit unmaps
\* its front, since the ring has no mapping of its own.
UnmapsOnlyItsOwn == strayed \subseteq {"app"}

\* When io_uring_ring_dontfork returned 0, a child inherits no page of a ring
\* that the library mapped, in one mapping, two or three.
DontforkCovers ==
    dontfork /\ pc = "ready" =>
        \A r \in OurRegions : nofork[r] >= mem[r].len

\* The estimate of io_uring_mlock_size_params covers what an old kernel charges,
\* though rings_size leaves the SQ array out.
EstimateCovers ==
    LET e == SqCqEntries(p.entries, caller.flags)
    IN  pc = "idle" /\ caller.fn = "mlock_size" /\ ret > 0 =>
            ret >= KCharged(e[1], e[2], caller.flags)

\* What io_uring_queue_init_mem returns is "the number of bytes used in the
\* buffer": the kernel's SQEs end before its ring begins, and the ring ends
\* within that number.
UsesWhatItReports ==
    LET e == SqCqEntries(p.entries, p.flags)
    IN  pc = "ready" /\ ring.app_mem =>
            /\ e[1] * SqeSize(p.flags) <= SqesMem(e[1])
            /\ SqesMem(e[1]) + KRingBytes(e[1], e[2], p.flags) <= ret
=============================================================================
