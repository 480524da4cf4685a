CONSTANTS
    w1 = w1  w2 = w2  w3 = w3
    t1 = t1  t2 = t2
    k1 = k1  k2 = k2
    Workers <- MCWorkers
    Tools <- MCTools
    Locks <- MCLocks
    Requests <- MCRequests
    NoLease = NoLease
SPECIFICATION FairSpec
INVARIANTS LockExclusion BooksMatchLeases
PROPERTIES ImplementsLeaseTable AcquireAnswers SomeoneIsServed
