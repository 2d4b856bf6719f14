CONSTANTS
    pet = pet  cat = cat  lion = lion  owner = owner  audit = audit
    trail = trail  stamp = stamp  dead = dead  lost = lost  leaf = leaf
    tag = tag  note = note  pinned = pinned  addr = addr
    p1 = p1  p2 = p2  p3 = p3  p4 = p4  p5 = p5  p6 = p6  r1 = r1  r2 = r2  r3 = r3
    Decl <- mcDecl
    ParamDecl <- mcParamDecl
    RespOrder <- mcRespOrder
    RespName <- mcRespName
    Key <- mcDecl
    Annotated <- mcAnnotated
    Alias <- mcAlias
    Refs <- mcRefs
    Embeds <- mcEmbeds
    Bases <- mcBases
    Discriminated <- mcDiscriminated
    Overlay <- mcOverlay
    DefKey <- mcDefKey
    Inputs <- mcInputs
SPECIFICATION Spec
INVARIANTS
    RefKeysAreDefined
    BuiltAtMostOnce
    OutcomeIsDetermined
PROPERTIES
    KeepsItsPromise
