------------------------- MODULE MCHeartbeatMonitor -------------------------
EXTENDS HeartbeatMonitor

TwoDevices == {1, 2}
AllChairs == [u \in UUID |-> "Chair"]
Exact == {<<u, u>> : u \in UUID}
OneConnection == {"a"}
BothLocks == MutexName
Ticks == {1, 2}
SetBack == {1, -2}

=============================================================================
