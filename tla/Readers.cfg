SPECIFICATION MCReadersSpec
CONSTANTS
    r1 = r1
    r2 = r2
    l1 = l1
    l2 = l2
    s1 = s1
    n1 = n1
    n2 = n2
    v1 = v1
    v2 = v2
    v3 = v3
    m1 = m1
    m2 = m2
    f1 = f1
    la = la
    lb = lb
    k1 = k1
    k2 = k2
    k3 = k3
    Readers = {r1, r2}
    Jobs = {l1, l2, s1, n1, n2}
    List <- MCList
    PageSize = 1
    MaxApplies = 3
    MaxChanges = 1
    Codes = {v1, v2, v3}
    Mails = {m1, m2}
    Forms = {f1}
    MaxUploads = 1
    DataLabels = {la, lb}
    KeysOf <- MCKeysOf
    Tested <- MCTested
    PerUpdate = 1
    MaxRounds = 3
    MaxFindings = 1
INVARIANTS
    ReadersTypeOK
    NoDuplicates
    ExactWhenAlone
    MailedIsOwner
    OneVoucherEach
    ListExplained
PROPERTIES
    KeptWhileTrue
SYMMETRY Interchangeable
CHECK_DEADLOCK FALSE
