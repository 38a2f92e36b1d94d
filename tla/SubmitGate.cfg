CONSTANTS
    r1 = r1
    r2 = r2
    r3 = r3
    r4 = r4
    u1 = u1
    u2 = u2
    c1 = c1
    Reqs = {r1, r2, r3, r4}
    Users = {u1, u2}
    Courses = {c1}
    UserOf <- TwoUsers
    CourseOf <- OneCourse
    Offerings <- Both
    Gone = Gone
    Workers = 2
    Limit = 1
    Minute = 1
    MaxClock = 2
    Editable = {c1}
    Movable <- OnePair
    Mortal = {r4}
SYMMETRY Alike
SPECIFICATION Spec
INVARIANTS TypeOK RateSlack LateSlack
CHECK_DEADLOCK FALSE
