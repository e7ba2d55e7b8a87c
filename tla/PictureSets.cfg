\* Four pictures, three children and three sets; any order of the pictures.
SPECIFICATION Spec
CONSTANTS
    Pictures = {p1, p2, p3, p4}
    Children = {c1, c2, c3}
    Sets = {s1, s2, s3}
    None = None
CHECK_DEADLOCK FALSE
INVARIANT SetsAreExclusive
