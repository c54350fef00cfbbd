SPECIFICATION Spec
CONSTANTS
    patient = patient
    eager = eager
    None = None
    Phones <- BothPhones
    Patient <- OnlyPatient
    MaxMessages = 2
INVARIANTS TypeOK AnswersMatch
PROPERTIES PatientAnswered
