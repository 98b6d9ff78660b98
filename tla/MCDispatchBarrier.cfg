SPECIFICATION FairSpec
CONSTANTS
    Callers = {c1, c2, c3}
    Controls = {k1, k2}
    Chans = {h1, h2, h3, h4, h5}
    NoChan = NoChan
INVARIANTS SealedIsQuiescent WaiterWillBeWoken CloseOnce
PROPERTIES LockReturns
