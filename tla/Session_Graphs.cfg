SPECIFICATION Spec
CONSTANTS
    g1 = g1
    q1 = q1
    pg1 = pg1
    pq1 = pq1
    graph1 = graph1
    Parts <- AskingOnly
    Gets <- OneGet
    Queries <- OneQuery
    GetPayloads <- OnePayload
    QueryPayloads <- OneQueryPayload
    ResponseTypes <- TwoTypes
    TypesOfQueries <- SomeTypesOfQueries
    Parsers <- SomeParsers
    Values <- SomeValues
    Languages <- OneLanguage
    DataTypes <- SomeDataTypes
    Graphs <- OneGraph
    Batches <- SomeBatches
    MaxSetters = 3
    MaxRequests = 2
    qo1 = qo1
    array1 = array1
    uo1 = uo1
    QueryObjects <- OneQueryObject
    UpdateObjects <- OneUpdateObject
    Texts <- TwoTexts
    QueryParams <- InferOnly
    UpdateParams <- InferAndGraphs
    ParamValues <- SomeParamValues
    ArrayObjects <- OneArray
    ArrayContents <- ArraysOfGraphs
    Contexts <- SomeContexts
    MaxChanges = 3
    MaxMade = 2
    c1 = c1
    c2 = c2
    s1 = s1
    h1 = h1
    l1 = l1
    Subjects <- SomeSubjects
    Predicates <- SomePredicates
    Objects <- SomeObjects
    ContextLists <- SomeContextLists
    Present <- SomeStatements
    MaxConversions = 2
    RepositoryConfigs <- TwoConfigs
    ServerConfigs <- OneServerConfig
    GivenHeaders <- OneHeaders
    Lists <- OneList
    Endpoints <- TwoEndpoints
    FirstEndpoint = "e1"
    Locations <- OneLocation
    Timeouts <- OneTimeout
    BasicCredentials <- OneBasic
    GdbCredentials <- OneGdb
    MaxSettings = 2
    MaxClients = 2
    MaxSends = 2
    Ids <- OneId
    Names <- OneName
    Contents <- OldAndNew
    Original = "old"
    MaxOrders = 2
    MaxEdits = 1
    Prefixes <- TwoPrefixes
    Blank = " "
    Namespace <- TwoNamespaces
    MaxLookups = 2
CHECK_DEADLOCK FALSE
INVARIANTS
    GraphsArrive
