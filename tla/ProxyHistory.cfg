SPECIFICATION Spec
CONSTANTS
    NoRun = NoRun
    Silence = Silence
    Texts = {q1, q2}
    Answers = {a1}
    MaxMessages = 3
INVARIANTS
    ProxyHearsConversation
CHECK_DEADLOCK FALSE
