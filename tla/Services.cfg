SPECIFICATION Spec
CHECK_DEADLOCK FALSE
CONSTANTS
    QueueSize = 2
    Retries = 2
    MaxEmits = 4
    Sizes = {1, 2, 3, 6}
    Mtu = 5
    BufferSize = 3
    MaxSubmits = 6
    Resources = {r1, r2}
    MaxConcurrent = 1
    Attempts = 3
    MinPoints = 2
    Retained = 3
    MaxClock = 4
    Gauges <- MCGauges
    Histograms <- MCHistograms
    LabelSets <- MCLabelSets
    Ttl = 1
    Horizon = 4
    Writers = {w1, w2}
    Triples = {t1, t2, t3}
    BulkSize = 2
INVARIANT DatagramsFit
 
INVARIANT WindowsInOrder
PROPERTY CloseReturns
PROPERTY RoundEnds
PROPERTY BulkAtomic
