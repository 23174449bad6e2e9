SPECIFICATION Spec
INVARIANTS
    FormTypeOK
    ButtonHonest
    SentIsComplete
