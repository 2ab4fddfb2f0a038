------------------------------- MODULE SqePrep -------------------------------
(***************************************************************************)
(* Filling in a submission queue entry (SQE): the prep helpers and setters  *)
(* of liburing.h on a slot that earlier requests used before.              *)
(*                                                                         *)
(* An SQE is 64 bytes, many of them members of several unions, and         *)
(* io_uring_get_sqe clears none of them.  A byte is modelled by the set of *)
(* values or-ed into it: {} is zero, {"flags"} holds (its part of) the     *)
(* argument flags.  Only the index of a direct descriptor is a number,     *)
(* since its encoding is arithmetic.                                       *)
(***************************************************************************)
EXTENDS Naturals, Sequences, SequencesExt, TLC

CONSTANTS
    IndexMod,   \* the values of an unsigned int
    Slots       \* the slots of the registered file table

\* The kernel's limit on registered files is far below UINT_MAX.
ASSUME SlotAssumption ==
    IndexMod \in Nat /\ Slots # {} /\ Slots \subseteq 0 .. IndexMod - 3

VARIABLES
    sqe,        \* the bytes of the slot
    helper,     \* the helper called since the slot was handed out, or "none"
    setters,    \* the setters called since then, in "data", "flags", "addr"
    asked,      \* the direct descriptor the application asked for
    file_index  \* the number in sqe->file_index, where the helper encodes one

vars == <<sqe, helper, setters, asked, file_index>>

-----------------------------------------------------------------------------
(* The entry *)

Bytes == 0 .. 63

\* The 32-bit members of the union after len.
FlagNames ==
    {"rw_flags", "fsync_flags", "poll32_events", "sync_range_flags",
     "msg_flags", "timeout_flags", "accept_flags", "cancel_flags",
     "open_flags", "statx_flags", "fadvise_advice", "splice_flags",
     "rename_flags", "unlink_flags", "hardlink_flags", "xattr_flags",
     "msg_ring_flags", "uring_cmd_flags", "waitid_flags", "futex_flags",
     "install_fd_flags"}

\* Plausible bug: level and optname outside a struct of their own, so that both
\* start where their union starts.
CommandLayout_NoStruct ==
    [cmd_op |-> 8 .. 11, level |-> 16 .. 19, optname |-> 16 .. 19,
     optlen |-> 44 .. 47, optval |-> 48 .. 55]

\* The members of the unions that only io_uring_prep_cmd_sock uses.
CommandLayout ==
    [cmd_op |-> 8 .. 11, level |-> 16 .. 19, optname |-> 20 .. 23,
     optlen |-> 44 .. 47, optval |-> 48 .. 55]

\* The bytes of each member of struct io_uring_sqe.
SqeLayout ==
    [f \in FlagNames |-> 28 .. 31] @@ CommandLayout @@
    [opcode |-> 0 .. 0, flags |-> 1 .. 1, ioprio |-> 2 .. 3, fd |-> 4 .. 7,
     off |-> 8 .. 15, addr2 |-> 8 .. 15,
     addr |-> 16 .. 23, splice_off_in |-> 16 .. 23,
     len |-> 24 .. 27, user_data |-> 32 .. 39,
     buf_index |-> 40 .. 41, buf_group |-> 40 .. 41, personality |-> 42 .. 43,
     splice_fd_in |-> 44 .. 47, file_index |-> 44 .. 47, addr_len |-> 44 .. 45,
     addr3 |-> 48 .. 55, __pad2 |-> 56 .. 63]

\* sqe->f = v, and sqe->f |= v.
Put(f, v) == <<[f |-> f, v |-> IF v = "0" THEN {} ELSE {v}, or |-> FALSE]>>
OrIn(f, v) == <<[f |-> f, v |-> {v}, or |-> TRUE]>>

Store(s, st) ==
    [b \in Bytes |->
        IF b \in SqeLayout[st.f] THEN st.v \cup (IF st.or THEN s[b] ELSE {})
        ELSE s[b]]

Stored(s, stores) == FoldLeft(Store, s, stores)

-----------------------------------------------------------------------------
(* The helpers: the stores each makes, in order.  A value is named by the  *)
(* parameter it comes from, or is a constant of the code.                  *)

\* Plausible bug: the members after file_index, which came later, left out.
PrepRw_NoAddr3(op, fd, addr, len, offset) ==
    Put("opcode", op) \o Put("flags", "0") \o Put("ioprio", "0")
        \o Put("fd", fd) \o Put("off", offset) \o Put("addr", addr)
        \o Put("len", len) \o Put("rw_flags", "0") \o Put("buf_index", "0")
        \o Put("personality", "0") \o Put("file_index", "0")

\* io_uring_prep_rw
PrepRw(op, fd, addr, len, offset) ==
    Put("opcode", op) \o Put("flags", "0") \o Put("ioprio", "0")
        \o Put("fd", fd) \o Put("off", offset) \o Put("addr", addr)
        \o Put("len", len) \o Put("rw_flags", "0") \o Put("buf_index", "0")
        \o Put("personality", "0") \o Put("file_index", "0")
        \o Put("addr3", "0") \o Put("__pad2", "0")

\* sqe->file_index = a number, kept in file_index (see SetTarget)
PutTarget == Put("file_index", "target")

\* io_uring_prep_splice to io_uring_prep_sendmsg
ReadWriteHelpers ==
    LET Splice(off_in, off_out, op) ==
            PrepRw(op, "fd_out", "0", "nbytes", off_out)
                \o Put("splice_off_in", off_in) \o Put("splice_fd_in", "fd_in")
                \o Put("splice_flags", "splice_flags")
        Vectors(op) == PrepRw(op, "fd", "iovecs", "nr_vecs", "offset")
        Fixed(op) == PrepRw(op, "fd", "buf", "nbytes", "offset")
                         \o Put("buf_index", "buf_index")
        Msg(op) == PrepRw(op, "fd", "msg", "1", "0") \o Put("msg_flags", "flags")
    IN  [splice |-> Splice("off_in", "off_out", "SPLICE"),
         tee |-> Splice("0", "0", "TEE"),
         readv |-> Vectors("READV"),
         readv2 |-> Vectors("READV") \o Put("rw_flags", "flags"),
         read_fixed |-> Fixed("READ_FIXED"),
         writev |-> Vectors("WRITEV"),
         writev2 |-> Vectors("WRITEV") \o Put("rw_flags", "flags"),
         write_fixed |-> Fixed("WRITE_FIXED"),
         recvmsg |-> Msg("RECVMSG"),
         recvmsg_multishot |-> Msg("RECVMSG") \o OrIn("ioprio", "RECV_MULTISHOT"),
         sendmsg |-> Msg("SENDMSG")]

\* io_uring_prep_poll_add to io_uring_prep_link_timeout
EventHelpers ==
    LET PollAdd == PrepRw("POLL_ADD", "fd", "0", "0", "0")
                       \o Put("poll32_events", "poll_mask")
        TimeoutRemove(ts) == PrepRw("TIMEOUT_REMOVE", "-1", "0", "0", ts)
                                 \o Put("addr", "user_data")
                                 \o Put("timeout_flags", "flags")
        Accept == PrepRw("ACCEPT", "fd", "addr", "0", "addrlen")
                      \o Put("accept_flags", "flags")
        MultishotAccept == Accept \o OrIn("ioprio", "ACCEPT_MULTISHOT")
        Cancel64 == PrepRw("ASYNC_CANCEL", "-1", "0", "0", "0")
                        \o Put("addr", "user_data") \o Put("cancel_flags", "flags")
    IN  [poll_add |-> PollAdd,
         poll_multishot |-> PollAdd \o Put("len", "POLL_ADD_MULTI"),
         poll_remove |-> PrepRw("POLL_REMOVE", "-1", "0", "0", "0")
                             \o Put("addr", "user_data"),
         poll_update |-> PrepRw("POLL_REMOVE", "-1", "0", "flags", "new_user_data")
                             \o Put("addr", "old_user_data")
                             \o Put("poll32_events", "poll_mask"),
         fsync |-> PrepRw("FSYNC", "fd", "0", "0", "0")
                       \o Put("fsync_flags", "fsync_flags"),
         nop |-> PrepRw("NOP", "-1", "0", "0", "0"),
         timeout |-> PrepRw("TIMEOUT", "-1", "ts", "1", "count")
                         \o Put("timeout_flags", "flags"),
         timeout_remove |-> TimeoutRemove("0"),
         timeout_update |-> TimeoutRemove("ts")
                                \o OrIn("timeout_flags", "TIMEOUT_UPDATE"),
         accept |-> Accept,
         accept_direct |-> Accept \o PutTarget,
         multishot_accept |-> MultishotAccept,
         multishot_accept_direct |-> MultishotAccept \o PutTarget,
         cancel64 |-> Cancel64,
         cancel |-> Cancel64,
         cancel_fd |-> PrepRw("ASYNC_CANCEL", "fd", "0", "0", "0")
                           \o Put("cancel_flags", "flags")
                           \o OrIn("cancel_flags", "ASYNC_CANCEL_FD"),
         link_timeout |-> PrepRw("LINK_TIMEOUT", "-1", "ts", "1", "0")
                              \o Put("timeout_flags", "flags")]

\* io_uring_prep_connect to io_uring_prep_madvise
FileHelpers ==
    LET Openat == PrepRw("OPENAT", "dfd", "path", "mode", "0")
                      \o Put("open_flags", "flags")
        Close(fd) == PrepRw("CLOSE", fd, "0", "0", "0")
    IN  [connect |-> PrepRw("CONNECT", "fd", "addr", "0", "addrlen"),
         files_update |-> PrepRw("FILES_UPDATE", "-1", "fds", "nr_fds", "offset"),
         fallocate |-> PrepRw("FALLOCATE", "fd", "0", "mode", "offset")
                           \o Put("addr", "len"),
         openat |-> Openat,
         openat_direct |-> Openat \o PutTarget,
         close |-> Close("fd"),
         close_direct |-> Close("0") \o PutTarget,
         read |-> PrepRw("READ", "fd", "buf", "nbytes", "offset"),
         read_multishot |-> PrepRw("READ_MULTISHOT", "fd", "0", "nbytes", "offset")
                                \o Put("buf_group", "buf_group")
                                \o OrIn("flags", "BUFFER_SELECT"),
         write |-> PrepRw("WRITE", "fd", "buf", "nbytes", "offset"),
         statx |-> PrepRw("STATX", "dfd", "path", "mask", "statxbuf")
                       \o Put("statx_flags", "flags"),
         fadvise |-> PrepRw("FADVISE", "fd", "0", "len", "offset")
                         \o Put("fadvise_advice", "advice"),
         madvise |-> PrepRw("MADVISE", "-1", "addr", "length", "0")
                         \o Put("fadvise_advice", "advice")]

\* io_uring_prep_send_set_addr, also a call of its own on a prepared send
SendSetAddrStores ==
    Put("addr2", "dest_addr") \o Put("addr_len", "addr_len")

\* io_uring_prep_send to io_uring_prep_recv_multishot
SendRecvHelpers ==
    LET Msg(op) == PrepRw(op, "sockfd", "buf", "len", "0") \o Put("msg_flags", "flags")
        SendZc == Msg("SEND_ZC") \o Put("ioprio", "zc_flags")
    IN  [send |-> Msg("SEND"),
         sendto |-> Msg("SEND") \o SendSetAddrStores,
         send_zc |-> SendZc,
         send_zc_fixed |-> SendZc \o OrIn("ioprio", "RECVSEND_FIXED_BUF")
                               \o Put("buf_index", "buf_index"),
         sendmsg_zc |-> ReadWriteHelpers["sendmsg"] \o Put("opcode", "SENDMSG_ZC"),
         recv |-> Msg("RECV"),
         recv_multishot |-> Msg("RECV") \o OrIn("ioprio", "RECV_MULTISHOT")]

\* io_uring_prep_openat2 to io_uring_prep_link
PathHelpers ==
    LET Openat2 == PrepRw("OPENAT2", "dfd", "path", "sizeof_how", "how")
        Unlinkat(dfd) == PrepRw("UNLINKAT", dfd, "path", "0", "0")
                             \o Put("unlink_flags", "flags")
        Renameat(olddfd, newdfd, flags) ==
            PrepRw("RENAMEAT", olddfd, "oldpath", newdfd, "newpath")
                \o Put("rename_flags", flags)
        Mkdirat(dfd) == PrepRw("MKDIRAT", dfd, "path", "mode", "0")
        Symlinkat(dfd) == PrepRw("SYMLINKAT", dfd, "target", "0", "linkpath")
        Linkat(olddfd, newdfd) ==
            PrepRw("LINKAT", olddfd, "oldpath", newdfd, "newpath")
                \o Put("hardlink_flags", "flags")
    IN  [openat2 |-> Openat2,
         openat2_direct |-> Openat2 \o PutTarget,
         epoll_ctl |-> PrepRw("EPOLL_CTL", "epfd", "ev", "op", "fd"),
         provide_buffers |-> PrepRw("PROVIDE_BUFFERS", "nr", "addr", "len", "bid")
                                 \o Put("buf_group", "bgid"),
         remove_buffers |-> PrepRw("REMOVE_BUFFERS", "nr", "0", "0", "0")
                                \o Put("buf_group", "bgid"),
         shutdown |-> PrepRw("SHUTDOWN", "fd", "0", "how", "0"),
         unlinkat |-> Unlinkat("dfd"),
         unlink |-> Unlinkat("AT_FDCWD"),
         renameat |-> Renameat("olddfd", "newdfd", "flags"),
         rename |-> Renameat("AT_FDCWD", "AT_FDCWD", "0"),
         sync_file_range |-> PrepRw("SYNC_FILE_RANGE", "fd", "0", "len", "offset")
                                 \o Put("sync_range_flags", "flags"),
         mkdirat |-> Mkdirat("dfd"),
         mkdir |-> Mkdirat("AT_FDCWD"),
         symlinkat |-> Symlinkat("newdirfd"),
         symlink |-> Symlinkat("AT_FDCWD"),
         linkat |-> Linkat("olddfd", "newdfd"),
         link |-> Linkat("AT_FDCWD", "AT_FDCWD")]

\* io_uring_prep_msg_ring_cqe_flags to io_uring_prep_socket_direct_alloc
MessageHelpers ==
    LET MsgRing == PrepRw("MSG_RING", "fd", "0", "len", "data")
        MsgRingFd == PrepRw("MSG_RING", "fd", "MSG_SEND_FD", "0", "data")
                         \o Put("addr3", "source_fd") \o PutTarget
                         \o Put("msg_ring_flags", "flags")
        Xattr(op, fd, path, flags) ==
            PrepRw(op, fd, "name", "len", "value")
                \o (IF path = "0" THEN <<>> ELSE Put("addr3", path))
                \o Put("xattr_flags", flags)
        Socket == PrepRw("SOCKET", "domain", "0", "protocol", "type")
                      \o Put("rw_flags", "flags")
    IN  [msg_ring_cqe_flags |-> MsgRing \o Put("msg_ring_flags", "MSG_RING_FLAGS_PASS")
                                    \o OrIn("msg_ring_flags", "flags")
                                    \o Put("file_index", "cqe_flags"),
         msg_ring |-> MsgRing \o Put("msg_ring_flags", "flags"),
         msg_ring_fd |-> MsgRingFd,
         msg_ring_fd_alloc |-> MsgRingFd,
         getxattr |-> Xattr("GETXATTR", "0", "path", "0"),
         setxattr |-> Xattr("SETXATTR", "0", "path", "flags"),
         fgetxattr |-> Xattr("FGETXATTR", "fd", "0", "0"),
         fsetxattr |-> Xattr("FSETXATTR", "fd", "0", "flags"),
         socket |-> Socket,
         socket_direct |-> Socket \o PutTarget,
         socket_direct_alloc |-> Socket \o PutTarget]

\* io_uring_prep_cmd_sock to io_uring_prep_ftruncate
CommandHelpers ==
    LET Futex(op) == PrepRw(op, "futex_flags", "futex", "0", "val")
                         \o Put("futex_flags", "flags") \o Put("addr3", "mask")
    IN  [cmd_sock |-> PrepRw("URING_CMD", "fd", "0", "0", "0")
                          \o Put("optval", "optval") \o Put("optname", "optname")
                          \o Put("optlen", "optlen") \o Put("cmd_op", "cmd_op")
                          \o Put("level", "level"),
         waitid |-> PrepRw("WAITID", "id", "0", "idtype", "0")
                        \o Put("waitid_flags", "flags")
                        \o Put("file_index", "options") \o Put("addr2", "infop"),
         futex_wake |-> Futex("FUTEX_WAKE"),
         futex_wait |-> Futex("FUTEX_WAIT"),
         futex_waitv |-> PrepRw("FUTEX_WAITV", "0", "futex", "nr_futex", "0")
                             \o Put("futex_flags", "flags"),
         fixed_fd_install |-> PrepRw("FIXED_FD_INSTALL", "fd", "0", "0", "0")
                                  \o Put("flags", "FIXED_FILE")
                                  \o Put("install_fd_flags", "flags"),
         ftruncate |-> PrepRw("FTRUNCATE", "fd", "0", "0", "len")]

Helpers ==
    ReadWriteHelpers @@ EventHelpers @@ FileHelpers @@ SendRecvHelpers
        @@ PathHelpers @@ MessageHelpers @@ CommandHelpers

-----------------------------------------------------------------------------
(* Direct descriptors *)

FILE_INDEX_ALLOC == IndexMod - 1
NoIndex == IndexMod

\* __io_uring_set_target_fixed_file
SetTarget(index) == (index + 1) % IndexMod

\* Plausible bug: IORING_FILE_INDEX_ALLOC encoded like a slot.
OffsetAlloc_Not(index) == index

\* "offset by 1 for allocation"
OffsetAlloc(index) == IF index = FILE_INDEX_ALLOC THEN index - 1 ELSE index

\* Helpers that take a slot or IORING_FILE_INDEX_ALLOC, that always ask for
\* an allocation, and that name a slot in use.
IntoSlot ==
    {"accept_direct", "openat_direct", "openat2_direct", "socket_direct",
     "msg_ring_fd"}
IntoAny ==
    {"multishot_accept_direct", "socket_direct_alloc", "msg_ring_fd_alloc"}

MayAsk(h) ==
    CASE h \in IntoSlot       -> Slots \cup {FILE_INDEX_ALLOC}
      [] h \in IntoAny        -> {FILE_INDEX_ALLOC}
      [] h = "close_direct"   -> Slots
      [] OTHER                -> {NoIndex}

\* The number the helper leaves in sqe->file_index.
Target(h, index) ==
    CASE h \in IntoSlot \cup {"msg_ring_fd_alloc"} -> SetTarget(OffsetAlloc(index))
      [] h \in IntoAny \ {"msg_ring_fd_alloc"}     -> SetTarget(FILE_INDEX_ALLOC - 1)
      [] h = "close_direct"                        -> SetTarget(index)
      [] OTHER                                     -> NoIndex

\* How the kernel reads it: 0 is no direct descriptor at all.
KTarget(field) ==
    CASE field = 0                -> NoIndex
      [] field = FILE_INDEX_ALLOC -> FILE_INDEX_ALLOC
      [] OTHER                    -> field - 1

-----------------------------------------------------------------------------
(* The calls *)

Init ==
    /\ sqe = [b \in Bytes |-> {}]
    /\ helper = "none"
    /\ setters = {}
    /\ asked = NoIndex
    /\ file_index = NoIndex

\* io_uring_get_sqe hands the slot out again, as its last user left it.
GetSqe ==
    /\ helper # "none"
    /\ sqe' = [b \in Bytes |-> IF sqe[b] = {} THEN {} ELSE {"stale"}]
    /\ helper' = "none"
    /\ setters' = {}
    /\ asked' = NoIndex
    /\ file_index' = NoIndex

\* io_uring_prep_<h>
Prep(h) ==
    /\ helper = "none"
    /\ sqe' = Stored(sqe, Helpers[h])
    /\ helper' = h
    /\ asked' \in MayAsk(h)
    /\ file_index' = Target(h, asked')
    /\ UNCHANGED setters

\* io_uring_sqe_set_data and io_uring_sqe_set_data64
SetData ==
    /\ sqe' = Stored(sqe, Put("user_data", "data"))
    /\ setters' = setters \cup {"data"}
    /\ UNCHANGED <<helper, asked, file_index>>

\* io_uring_sqe_set_flags
SetFlags ==
    /\ helper # "none"
    /\ sqe' = Stored(sqe, Put("flags", "sqe_flags"))
    /\ setters' = setters \cup {"flags"}
    /\ UNCHANGED <<helper, asked, file_index>>

\* io_uring_prep_send_set_addr
SendSetAddr ==
    /\ helper \in {"send", "send_zc", "send_zc_fixed"}
    /\ sqe' = Stored(sqe, SendSetAddrStores)
    /\ setters' = setters \cup {"addr"}
    /\ UNCHANGED <<helper, asked, file_index>>

Next ==
    \/ GetSqe
    \/ \E h \in DOMAIN Helpers : Prep(h)
    \/ SetData
    \/ SetFlags
    \/ SendSetAddr

Spec == Init /\ [][Next]_vars

-----------------------------------------------------------------------------
(* Properties *)

\* A prepared entry holds nothing of the request that used the slot before,
\* except in user_data, which io_uring_prep_rw and the helpers leave alone.
NothingStale ==
    helper # "none" =>
        \A b \in Bytes \ SqeLayout["user_data"] : "stale" \notin sqe[b]

\* Every value a helper stores is still in all bytes of its member when the
\* entry is submitted: no later store of the same call, and no later setter,
\* goes through an overlapping member of a union.  Left out are the opcode,
\* which io_uring_prep_sendmsg_zc replaces on purpose, and the flags of an
\* entry whose flags the application then set, which replaces the helper's.
\* Nor is the application's user_data lost, set before the helper or after it.
NothingLost ==
    /\ "data" \in setters => \A b \in SqeLayout["user_data"] : sqe[b] = {"data"}
    /\ helper # "none" =>
        LET called == Helpers[helper]
                          \o (IF "addr" \in setters THEN SendSetAddrStores ELSE <<>>)
            replaced == {"opcode"} \cup (setters \cap {"flags"})
        IN  \A i \in DOMAIN called :
                called[i].f \notin replaced =>
                    \A b \in SqeLayout[called[i].f] : called[i].v \subseteq sqe[b]

\* A direct helper makes the kernel use the slot asked for, or allocate one if
\* IORING_FILE_INDEX_ALLOC was: the encoding of __io_uring_set_target_fixed_file
\* mixes up neither, nor takes a slot for "no direct descriptor".
SlotIsMeant ==
    asked # NoIndex => KTarget(file_index) = asked
=============================================================================
