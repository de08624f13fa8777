CONSTANTS
    Labs = {"wait_event", "killable", "poll", "excl", "complete", "semaphore", "mutex"}
    Procs = {p1, p2}
    Pollers = {p2}
    Writers = {w1}
    MaxWrites = 3
SPECIFICATION Spec
INVARIANTS LastWriteIsRead SetThenWake SleepersCounted OneReaderPerWrite
PROPERTIES SleeperGoesOn  PollerLearns
CHECK_DEADLOCK FALSE
