SPECIFICATION Spec
CONSTANTS
    d1 = d1  c1 = c1  c2 = c2
    Digests = {d1}
    Contents = {c1, c2}
    DigestOf <- OneDigest
    Repos = {r1}
    Uploaded = {c1}
    Requests = {q1}
    Syncs = {y1}
    Cleanup = cleanup
    Reclaim = reclaim
    NoDigest = NoDigest
    MaxRows = 2
    MaxRot = 0
    MaxStarts = 4
INVARIANT SavedHasFile
CHECK_DEADLOCK FALSE
