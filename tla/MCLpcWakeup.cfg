CONSTANTS
    Client = {c1}
    Server = {s1}
    MaxPorts = 5
    QueueSize = 2
    CounterMod = 2
    Closable = {"ClientCommunication"}
    DefaultLength = 256
SPECIFICATION Spec
INVARIANT NoWakeupLost
