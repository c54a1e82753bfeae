SPECIFICATION Spec
CONSTANTS
    alice = alice
    bob = bob
    q1 = q1
    q2 = q2
    r1 = r1
    r2 = r2
    f1 = f1
    s1 = s1
    s2 = s2
    None = None
    Requests = {q1, q2}
    Runs = {r1}
    Refunds = {f1}
    RefundOf <- MCRefundOf1
    Granted <- MCSeeded
    Payloads <- MCPayloads1
    Slots = {s1, s2}
    MaxAttempts = 2
    MaxFaults = 0
CHECK_DEADLOCK FALSE
PROPERTIES
    PaidIsNotified
