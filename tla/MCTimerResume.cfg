SPECIFICATION LibrarySpec
CONSTANTS
    ra = ra
    rb = rb
    rc = rc
    space = space
    mask = mask
    t1 = t1
    t2 = t2
    t3 = t3
    ca = ca
    cb = cb
    cc = cc
    cd = cd
    nil = nil
    s1 = s1
    s2 = s2
    s3 = s3
    Conditions <- MCConditions
    Joins <- MCJoins
    Datas <- MCDatas
    Columns = {ra, rb}
    Sizes = {2}
    MaxCalls = 3
    Runes = {ra, rb, rc}
    Blanks = {space}
    Mask = mask
    Words <- MCWords
    MaxSentence = 4
    MessageTypes = {t1, t2, t3}
    NameOf <- MCNameOf
    Ids = {0, 1, 2, 3}
    Sessions = {s1, s2, s3}
    Concurrent = FALSE
    Keys = {7, 300}
    SeqLimit = 2
    MaxSecond = 2
    Roots = {ca, cb, cc}
    Children = {cd}
    Posts <- MCPosts
    Panicking = {ca, cd}
    Nil = nil
    Cap = 4
    Period = 2
    MaxTicks = 5
    MaxStops = 2
    W = 64
    Epoch = 20
    Durations = {1, 3, 30}
    MaxMs = 6
    FirstDays = {0, 4, 12}
    MaxHour = 192
    Writers = {ra, rb}
    Levels = {1, 2}
    Level = 2
    MaxSize = 2
    Max_File_Bites = 5
    MaxDay = 1
    MaxLines = 6
PROPERTY ResumeWaits
CHECK_DEADLOCK FALSE
