SPECIFICATION IndexSpec
CONSTANTS
    Sources = {cam0}
    Days = {d1, d2}
    NoDay = NoDay
    Base = 2
    Limit = 4
    MaxIndex = 5
PROPERTY NumbersGrow
