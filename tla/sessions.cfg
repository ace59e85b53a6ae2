SPECIFICATION Spec
CONSTANTS
    Users = {u1, u2, bot}
    Admin = u1
    Bot = bot
    Tokens = {t1, t2}
    Handlers = {h1, h2}
    Powers = {p1}
    Grades = {"moderator_usernames"}
    Graded = {u2}
    None = None
SYMMETRY Symmetric
INVARIANTS TablesAreSound AddresseesAreSound
PROPERTIES GradesAreApplied
