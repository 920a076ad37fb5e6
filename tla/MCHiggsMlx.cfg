CONSTANTS
    Calls = {c1, c2}
    Voices = {saga, heid}
    Texts = {t1, t2}
    Unset = Unset
SPECIFICATION Spec
INVARIANTS
    SpokenInItsVoice
CHECK_DEADLOCK FALSE
