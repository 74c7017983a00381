\* No more than two labels are held at a time.
SPECIFICATION Spec
CONSTANTS
    Pipeline = {p1, p2, p3, p4, p5}
    Label = {a, b}
    LabelSeq <- TwoLabels
    MaxParallel = 3
    p1 = p1
    p2 = p2
    p3 = p3
    p4 = p4
    p5 = p5
    a = a
    b = b
INVARIANTS SliceIsHeld SharedLabelsExclude
CHECK_DEADLOCK FALSE
