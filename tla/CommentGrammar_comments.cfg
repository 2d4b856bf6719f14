CONSTANTS
    Line <- MCLine
    Inputs <- MCInputs
    Fits <- MCFits
    Method = {"GET"}
    Path = {"/pets", "/pets/{id:[0-9]+}"}
    Regexed = {"/pets/{id:[0-9]+}"}
    Verb = {"GET"}
    NameWord = {"Pet", "Go"}
    TagWord = {"pets", "cats", "dogs"}
    IdWord = {"listPets", "getPet"}
    Files <- MCFiles
    Tagged <- MCTagged
    Code = {"200", "404"}
    KnownResponse = {"notFound"}
    KnownModel = {"Pet", "Twin"}
    Ambiguous = {"Twin"}
    Bracketed = {"[red]"}
    Letters = {"Colour"}
    TypeWord = {"string"}
    Coerces <- MCCoerces
SPECIFICATION Spec
CHECK_DEADLOCK FALSE
INVARIANTS
    LinesAreAnswered
    BodiesEndAtSiblings
    MarkersAreAnswered
    RecordedIsRead
    RouteIsAnswered
    ResponsesAreAnswered
