\* Deferred free racing the cleaner across epoch advances, and the Open and
\* Close handshakes with the fairly scheduled cleaner.  The frontier runs
\* to MaxEpoch 6 > kListCnt, so every delayed-free list is drained and
\* refilled by a later epoch.
CONSTANTS
    u1 = u1
    u2 = u2
    c = c
    Users <- MCUsers
    Cleaner = c
    Participants <- MCParticipants
    NBlocks = 2
    kListCnt = 5
    kFreeCnt = 1
    MaxEpoch = 6
SPECIFICATION FairSpec
INVARIANT TypeOK
INVARIANT NoUseAfterFree
INVARIANT ReclaimHorizon
INVARIANT CleanerJoinedWhenClosed
PROPERTY OpenReturns
PROPERTY CloseReturns
