-------------------------------- MODULE Poller --------------------------------
(***************************************************************************)
(* How channels are registered with the poller of an eventloop (pax/net/   *)
(* poll.cpp, epoll.cpp) and how the loop handles those that poll reports.  *)
(* All of it happens in the loop's thread; the callbacks of channels are   *)
(* user code, which updates and removes channels, also others than its     *)
(* own, while active_channels_ is worked off.  A channel's owner destroys  *)
(* it neither while it is registered (channel.cpp 24 asserts that) nor     *)
(* while it is in active_channels_.                                        *)
(***************************************************************************)
EXTENDS Integers, Sequences, FiniteSets, SequencesExt

CONSTANTS Channels,
          Fds  \* descriptors

PollerAssumption == Fds \subseteq Nat

VARIABLES
    kind,      \* the poller: "poll" or "epoll"
    fd,        \* fd_ of each channel; -1 if the channel does not exist
    mark,      \* mark_: -1, the place in pollfds_, or 1 for epoll
    pollfds,   \* the fds of pollfds_; -fd - 1 for one that is not watched
    channels,  \* channels_: the channel of each descriptor, if any
    active     \* active_channels_ from the channel on that is handled

vars == <<kind, fd, mark, pollfds, channels, active>>

Exists(c) == fd[c] # -1
Registered(c) == mark[c] # -1

Init ==
    /\ kind \in {"poll", "epoll"}
    /\ fd = [c \in Channels |-> -1]
    /\ mark = [c \in Channels |-> -1]
    /\ pollfds = <<>>
    /\ channels = [f \in Fds |-> {}]
    /\ active = <<>>

\* The constructor, for a descriptor that no channel has.
Construct(c) ==
    /\ ~Exists(c)
    /\ \E f \in Fds : f \notin {fd[d] : d \in Channels} /\ fd' = [fd EXCEPT ![c] = f]
    /\ UNCHANGED <<kind, mark, pollfds, channels, active>>

Destroy(c) ==
    /\ Exists(c) /\ ~Registered(c) /\ ~Contains(active, c)
    /\ fd' = [fd EXCEPT ![c] = -1]
    /\ UNCHANGED <<kind, mark, pollfds, channels, active>>

-----------------------------------------------------------------------------
(***************************************************************************)
(* poll.                                                                   *)
(***************************************************************************)
\* pfd.fd of a channel that watches some event or none
Watched(c, some) == IF some THEN fd[c] ELSE -fd[c] - 1

\* updateChannel of a channel that is not registered: always watched.
AddPollfd(c) ==
    /\ kind = "poll" /\ Exists(c) /\ ~Registered(c)
    /\ pollfds' = Append(pollfds, fd[c])
    /\ channels' = [channels EXCEPT ![fd[c]] = {c}]
    /\ mark' = [mark EXCEPT ![c] = Len(pollfds)]
    /\ UNCHANGED <<kind, fd, active>>

ModifyPollfd(c, some) ==
    /\ kind = "poll" /\ Registered(c)
    /\ pollfds' = [pollfds EXCEPT ![mark[c] + 1] = Watched(c, some)]
    /\ UNCHANGED <<kind, fd, mark, channels, active>>

\* if (efd < 0) efd = -efd - 1;
Descriptor(f) == IF f < 0 THEN -f - 1 ELSE f

\* Mutant of Moved: the mark of the channel whose pollfd moves is not corrected.
MovedNever(f) == {}

\* channels_[efd], whose mark is corrected
Moved(f) == channels'[Descriptor(f)]

\* removeChannel: the last pollfd moves to the free place, and its channel learns of it.
RemovePollfd(c) ==
    /\ kind = "poll" /\ Registered(c)
    /\ channels' = [channels EXCEPT ![fd[c]] = {}]
    /\ pollfds' = Front([pollfds EXCEPT ![mark[c] + 1] = Last(pollfds)])
    /\ mark' = [d \in Channels |-> IF d = c THEN -1
                                   ELSE IF d \in Moved(Last(pollfds)) THEN mark[c] ELSE mark[d]]
    /\ UNCHANGED <<kind, fd, active>>

\* fillActiveChannels goes through pollfds_.
Poll ==
    /\ kind = "poll" /\ active = <<>>
    /\ \E K \in SUBSET {k \in DOMAIN pollfds : pollfds[k] >= 0} :
        LET order == SetToSortSeq(K, <) IN
        active' = [k \in DOMAIN order |-> CHOOSE c \in channels[pollfds[order[k]]] : TRUE]
    /\ UNCHANGED <<kind, fd, mark, pollfds, channels>>
-----------------------------------------------------------------------------
(***************************************************************************)
(* epoll.                                                                  *)
(***************************************************************************)
\* updateChannel with EPOLL_CTL_ADD; EPOLL_CTL_MOD changes nothing here.
EpollAdd(c) ==
    /\ kind = "epoll" /\ Exists(c) /\ ~Registered(c)
    /\ channels' = [channels EXCEPT ![fd[c]] = {c}]
    /\ mark' = [mark EXCEPT ![c] = 1]
    /\ UNCHANGED <<kind, fd, pollfds, active>>

\* removeChannel
EpollDelete(c) ==
    /\ kind = "epoll" /\ Registered(c)
    /\ channels' = [channels EXCEPT ![fd[c]] = {}]
    /\ mark' = [mark EXCEPT ![c] = -1]
    /\ UNCHANGED <<kind, fd, pollfds, active>>

\* doPoll: the kernel reports registered channels in any order.
EpollWait ==
    /\ kind = "epoll" /\ active = <<>>
    /\ \E C \in SUBSET {c \in Channels : Registered(c)} : active' \in SetToSeqs(C)
    /\ UNCHANGED <<kind, fd, mark, pollfds, channels>>
-----------------------------------------------------------------------------
\* handleEvent has returned: the next active channel.
NextActive ==
    /\ active # <<>>
    /\ active' = Tail(active)
    /\ UNCHANGED <<kind, fd, mark, pollfds, channels>>

Next ==
    \/ \E c \in Channels :
        \/ Construct(c) \/ Destroy(c)
        \/ AddPollfd(c) \/ RemovePollfd(c) \/ EpollAdd(c) \/ EpollDelete(c)
        \/ \E some \in BOOLEAN : ModifyPollfd(c, some)
    \/ Poll \/ EpollWait \/ NextActive

Spec == Init /\ [][Next]_vars
-----------------------------------------------------------------------------
\* The channels' marks, the places of pollfds_ and channels_ agree, whatever was removed in
\* which order: each registered channel, and no other, is found at its place and under its
\* descriptor.  With that the assertions of updateChannel and removeChannel hold.
RegistrationSafe ==
    /\ \A c \in Channels : Registered(c) <=> Exists(c) /\ c \in channels[fd[c]]
    /\ \A f \in Fds, c \in Channels : channels[f] \in {{}, {c}} \/ c \notin channels[f]
    /\ \A f \in Fds : \A c \in channels[f] : fd[c] = f
    /\ kind = "poll" =>
        /\ Len(pollfds) = Cardinality({c \in Channels : Registered(c)})
        /\ \A c \in Channels : Registered(c) =>
            /\ mark[c] \in 0..Len(pollfds) - 1
            /\ pollfds[mark[c] + 1] \in {fd[c], -fd[c] - 1}
==============================================================================
