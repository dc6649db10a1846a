\* One logger's actor, a record and a wait_ready call, a loan, a broken link and
\* an unpairing, each at any point.
CONSTANTS
    RecordCalls = {r1}
    ReadyCalls = {q1}
    LinkIds = {l1, l2, l3}
    None = None
    MaxLoans = 1
    MaxDrops = 1
    MaxForgets = 1

SPECIFICATION ActorSpec

 
 
PROPERTY ActorSettles
