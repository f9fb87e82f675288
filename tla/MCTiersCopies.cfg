SPECIFICATION Spec
CONSTANTS
    Half = 4
    Entry = "work"
    Arguments <- Inputs
    Fuel = 6
    Sources <- Programs
    Pipelines <- OnlyCopies
PROPERTY OptimizingKeepsMeaning
